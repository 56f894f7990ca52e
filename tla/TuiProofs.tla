----------------------------- MODULE TuiProofs ------------------------------
(* The terminal client, for any contents, any number of images, sessions     *)
(* and artifacts, and calls that fail at any point: the image that is shown, *)
(* edited and persisted is one, what is shown is of that image as it is,     *)
(* cursors are on rows, and folding the forms list keeps the selection.      *)
EXTENDS TuiApp, FormRowsProofs

(***************************************************************************)
(* The records of a state.                                                 *)
(***************************************************************************)
IsImage(m) ==
  /\ DOMAIN m = {"st", "sess", "write", "content", "upload"}
  /\ m.st \in {"new", "live", "gone"} /\ (m.st = "live" => m.content \in Contents)

EngineOK(e) ==
  /\ DOMAIN e = {"sess", "img", "snap", "arts"} /\ DOMAIN e.sess = Sessions /\ e.arts \in Nat
  /\ DOMAIN e.img = Images /\ \A i \in Images : IsImage(e.img[i])
  /\ DOMAIN e.snap = Images /\ \A i \in Images : e.snap[i] \in Contents \cup {0}

(* Cursors are within their lists. *)
TreeFine(t) ==
  t.content \in Contents \cup {0} /\ t.cursor \in Nat /\ InList0(t.cursor, Len(visible_rows(t)))

ListFine(f) ==
  /\ IsList(f.forms) /\ IsList(f.edges) /\ f.focus \in {"List", "Details"}
  /\ f.cursor \in Nat /\ InList0(f.cursor, Len(forms_rows(f)))

QuestionsFine(f) == f.qkey # NoKey => InList0(f.qcursor, Len(Asked(f.qfrom, f.qkey)))

BrowsersFine(f) ==
  /\ f.strings # Nowhere => f.strings[2] \in Contents
  /\ f.stores # Nowhere => f.stores[2] \in Contents
  /\ InList0(f.scursor, StringCount(f)) /\ InList0(f.vcursor, StoreCount(f))

RegFine(g) == g.arts \in Nat /\ InList0(g.cursor, Len(registry_selectable(g)))

IsTree(t) == DOMAIN t = {"of", "content", "expanded", "cursor"} /\ TreeFine(t)

(* Questions are a form's of a content, info and value a question's of one. *)
OfAForm(have) ==
  have[1] # NoKey =>
    \E c \in Contents : have[1] \in DOMAIN Library[c].asks /\ have[2] \in Range(Library[c].asks[have[1]])

FormsOK(f) ==
  /\ DOMAIN f = {"from", "forms", "edges", "flat", "expanded", "cursor", "focus", "qkey", "qfrom", "qcursor", "info", "value",
                 "strings", "filter", "scursor", "showS", "stores", "vtarget", "vcursor", "showV"}
  /\ f.qcursor \in Nat
  /\ f.qfrom # Nowhere => f.qfrom[2] \in Contents /\ f.qkey \in DOMAIN Library[f.qfrom[2]].asks
  /\ OfAForm(f.info) /\ OfAForm(f.value)
  /\ ListFine(f) /\ QuestionsFine(f) /\ BrowsersFine(f)

AppFields == {"active", "loaded", "view", "focus", "tree", "reg", "forms", "nvar"}

AppOK(a) ==
  /\ DOMAIN a = AppFields /\ IsTree(a.tree) /\ FormsOK(a.forms)
  /\ DOMAIN a.nvar = {"key", "content"} /\ DOMAIN a.reg = {"images", "arts", "cursor"}
  /\ RegFine(a.reg) /\ a.focus \in {"Registry", "Tree", "Details"}
  /\ a.view \in {"Image", "Forms"} /\ (a.view = "Forms" => a.active # 0)

IsClient(c) == c = [sess |-> c.sess, active |-> c.active] /\ c.sess \in 0..MaxSessions

IsNote(n) == DOMAIN n = {"faults", "unsaved", "upload", "forms", "pane"} /\ n.faults \in 0..MaxFaults

StateFields == {"engine", "client", "disk", "app", "note"}

IsState(s) ==
  /\ DOMAIN s = StateFields
  /\ EngineOK(s.engine) /\ IsClient(s.client) /\ IsClient(s.disk) /\ AppOK(s.app) /\ IsNote(s.note)

(***************************************************************************)
(* Lists and cursors.                                                      *)
(***************************************************************************)
(* Of a set of positions one is the first. *)
LEMMA FirstOf ==
  ASSUME NEW A, A \subseteq Nat, A # {}
  PROVE  (CHOOSE i \in A : \A j \in A : i <= j) \in A
<1>1. \E x \in A : \A y \in A : x <= y
  BY LeastOf
<1> QED  BY <1>1

FirstIn(A) == IF A = {} THEN -1 ELSE (CHOOSE i \in A : \A j \in A : i <= j) - 1

(* A row that is found is one of the list. *)
LEMMA FoundAt ==
  ASSUME NEW n \in Nat, NEW A, A \subseteq 1..n
  PROVE  FirstIn(A) \in -1..(n - 1) /\ (A # {} => FirstIn(A) \in 0..(n - 1))
<1>1. CASE A = {}
  BY <1>1 DEF FirstIn
<1>2. CASE A # {}
  <2>1. PICK i : i = CHOOSE k \in A : \A j \in A : k <= j
    OBVIOUS
  <2>2. i \in A
    <3>1. A \subseteq Nat
      OBVIOUS
    <3> QED  BY <1>2, <2>1, <3>1, FirstOf
  <2>3. FirstIn(A) = i - 1
    BY <1>2, <2>1 DEF FirstIn
  <2> QED  BY <2>2, <2>3
<1> QED  BY <1>1, <1>2

(* A clamped cursor is within its list. *)
LEMMA Clamped ==
  ASSUME NEW c \in Nat, NEW n \in Nat
  PROVE  Clamp(c, n) \in Nat /\ InList0(Clamp(c, n), n)
BY DEF Clamp, InList0

(* The nodes that are not below a closed one. *)
OpenPlaces(t) ==
  {i \in DOMAIN Nodes(t) :
     \A m \in Range(Nodes(t)) : IsStrictPrefix(m.path, Nodes(t)[i].path) => m.path \in t.expanded}

(* The rows of a tree are nodes of its image, in their order. *)
LEMMA TreeRows ==
  ASSUME NEW t, t.content \in Contents \cup {0}
  PROVE  /\ Nodes(t) \in Seq(Range(Nodes(t)))
         /\ visible_rows(t) = Picked(Nodes(t), OpenPlaces(t))
         /\ visible_rows(t) \in Seq(Range(Nodes(t))) /\ Len(visible_rows(t)) \in Nat
         /\ \A x : x \in Range(visible_rows(t)) <=> \E k \in 1..Len(Nodes(t)) : k \in OpenPlaces(t) /\ x = Nodes(t)[k]
<1>1. PICK ns : ns = Nodes(t)
  OBVIOUS
<1>2. ns \in Seq(Range(ns))
  <2>1. CASE t.content = 0
    BY <1>1, <2>1 DEF Nodes
  <2>2. CASE t.content \in Contents /\ t.content # 0
    BY <1>1, <2>2, ListingAssumption DEF Nodes, Contents
  <2> QED  BY <2>1, <2>2
<1>3. PICK I : I = OpenPlaces(t)
  OBVIOUS
<1>4. visible_rows(t) = Picked(ns, I)
  <2> DEFINE closed == {m.path : m \in Range(ns)} \ t.expanded
  <2>1. PICK K : K = {i \in DOMAIN ns : \A p \in closed : ~IsStrictPrefix(p, ns[i].path)}
    BY Zenon
  <2>2. visible_rows(t) = Picked(ns, K)
    BY <1>1, <2>1 DEF visible_rows, Keep
  <2>3. I = {i \in DOMAIN ns : \A m \in Range(ns) : IsStrictPrefix(m.path, ns[i].path) => m.path \in t.expanded}
    BY <1>1, <1>3 DEF OpenPlaces
  <2>4. ASSUME NEW i \in DOMAIN ns PROVE i \in K <=> i \in I
    BY <2>1, <2>3, Zenon
  <2>5. K = I
    BY <2>1, <2>3, <2>4, Zenon
  <2> QED  BY <2>2, <2>5
<1>5. PICK T : T = Range(ns)
  OBVIOUS
<1>6. /\ Picked(ns, I) \in Seq(T)
      /\ \A x : x \in Range(Picked(ns, I)) <=> \E k \in 1..Len(ns) : k \in I /\ x = ns[k]
  BY <1>2, <1>5, PickedRange
<1> QED  BY <1>1, <1>2, <1>3, <1>4, <1>5, <1>6

(* They depend on the content and on what is open. *)
LEMMA SameTree ==
  ASSUME NEW t, NEW u, u.content = t.content, u.expanded = t.expanded
  PROVE  Nodes(u) = Nodes(t) /\ visible_rows(u) = visible_rows(t)
<1>1. Nodes(u) = Nodes(t)
  BY DEF Nodes
<1> QED  BY <1>1 DEF visible_rows, Keep

(* A cursor on the first row. *)
LEMMA TreeAtTop ==
  ASSUME NEW t, DOMAIN t = {"of", "content", "expanded", "cursor"}, t.content \in Contents \cup {0}, t.cursor = 0
  PROVE  IsTree(t)
BY DEF IsTree, TreeFine, InList0

(* A cursor on one of the rows. *)
LEMMA TreeAt ==
  ASSUME NEW t, t.content \in Contents \cup {0}, NEW c \in 0..(Len(visible_rows(t)) - 1),
         DOMAIN t = {"of", "content", "expanded", "cursor"}, NEW u, u = [t EXCEPT !.cursor = c]
  PROVE  IsTree(u) /\ u.of = t.of
<1>1. DOMAIN u = DOMAIN t /\ u.content = t.content /\ u.expanded = t.expanded /\ u.cursor = c /\ u.of = t.of
  OBVIOUS
<1>2. visible_rows(u) = visible_rows(t)
  BY <1>1, SameTree
<1>3. PICK n \in Nat : n = Len(visible_rows(t))
  BY TreeRows
<1>4. c \in Nat /\ c < n
  BY <1>3
<1> QED  BY <1>1, <1>2, <1>3, <1>4 DEF IsTree, TreeFine, InList0

Followed(t, p) ==
  LET at == Position(visible_rows(t), LAMBDA n : n.path = p)
  IN  IF at # -1 THEN [t EXCEPT !.cursor = at] ELSE sanitize_cursor(t)

(* The cursor follows its node, or stays in the list. *)
LEMMA TreeFollowed ==
  ASSUME NEW t, DOMAIN t = {"of", "content", "expanded", "cursor"}, t.content \in Contents \cup {0}, t.cursor \in Nat, NEW p
  PROVE  IsTree(Followed(t, p)) /\ Followed(t, p).of = t.of
<1>1. PICK rows : rows = visible_rows(t)
  OBVIOUS
<1>2. PICK n \in Nat : n = Len(rows) /\ DOMAIN rows = 1..n
  BY <1>1, TreeRows
<1>3. PICK A : A = {i \in DOMAIN rows : rows[i].path = p}
  OBVIOUS
<1>4. PICK at : at = FirstIn(A)
  OBVIOUS
<1>5. at \in -1..(n - 1)
  <2>1. A \subseteq 1..n
    BY <1>2, <1>3
  <2> QED  BY <1>4, <2>1, FoundAt
<1>6. Position(visible_rows(t), LAMBDA x : x.path = p) = at
  BY <1>1, <1>3, <1>4 DEF Position, FirstIn
<1>7. CASE at # -1
  <2>1. Followed(t, p) = [t EXCEPT !.cursor = at]
    BY <1>6, <1>7 DEF Followed
  <2>2. at \in 0..(Len(visible_rows(t)) - 1)
    BY <1>1, <1>2, <1>5, <1>7
  <2> QED  BY <2>1, <2>2, TreeAt
<1>8. CASE at = -1
  <2>1. Followed(t, p) = sanitize_cursor(t)
    BY <1>6, <1>8 DEF Followed
  <2>2. PICK c \in Nat : c = Clamp(t.cursor, n) /\ InList0(c, n)
    BY Clamped
  <2>3. PICK u : u = [t EXCEPT !.cursor = c]
    OBVIOUS
  <2>4. Followed(t, p) = u
    BY <1>1, <1>2, <2>1, <2>2, <2>3 DEF sanitize_cursor
  <2>5. DOMAIN u = DOMAIN t /\ u.content = t.content /\ u.expanded = t.expanded /\ u.cursor = c /\ u.of = t.of
    BY <2>3
  <2>6. visible_rows(u) = rows
    BY <1>1, <2>5, SameTree
  <2> QED  BY <1>2, <2>2, <2>4, <2>5, <2>6 DEF IsTree, TreeFine
<1> QED  BY <1>7, <1>8

(* An app without a tree. *)
LEMMA NoTreeFine == IsTree(NoTree)
BY TreeAtTop DEF NoTree

(* A tree that is listed anew. *)
LEMMA TreeBuilt ==
  ASSUME NEW i, NEW c \in Contents \cup {0}
  PROVE  IsTree(build_tree(i, c)) /\ build_tree(i, c).of = i
<1>1. PICK t : t = build_tree(i, c)
  OBVIOUS
<1>2. DOMAIN t = {"of", "content", "expanded", "cursor"} /\ t.content = c /\ t.of = i /\ t.cursor = 0
  BY <1>1 DEF build_tree
<1> QED  BY <1>1, <1>2, TreeAtTop

(* A node that is there can be gone to: what it is below is opened. *)
LEMMA WentTo ==
  ASSUME NEW t, IsTree(t), NEW p, HasNode(t, p)
  PROVE  IsTree(goto_path(t, p)) /\ goto_path(t, p).of = t.of
<1>1. PICK u : u = [t EXCEPT !.expanded = @ \cup {n.path : n \in {m \in Range(Nodes(t)) : IsStrictPrefix(m.path, p)}}]
  BY Zenon
<1>2. DOMAIN u = {"of", "content", "expanded", "cursor"} /\ u.content = t.content /\ u.of = t.of
  BY <1>1 DEF IsTree
<1>3. u.expanded = t.expanded \cup {n.path : n \in {m \in Range(Nodes(t)) : IsStrictPrefix(m.path, p)}}
  BY <1>1 DEF IsTree
<1>4. Nodes(u) = Nodes(t)
  BY <1>2 DEF Nodes
<1>5. PICK rows : rows = visible_rows(u)
  OBVIOUS
<1>6. u.content \in Contents \cup {0}
  BY <1>2 DEF IsTree, TreeFine
<1>7. /\ Nodes(u) \in Seq(Range(Nodes(u)))
      /\ rows \in Seq(Range(Nodes(u)))
      /\ \A x : x \in Range(rows) <=> \E k \in 1..Len(Nodes(u)) : k \in OpenPlaces(u) /\ x = Nodes(u)[k]
  BY <1>5, <1>6, TreeRows
<1>8. PICK x \in Range(Nodes(u)) : x.path = p
  BY <1>4 DEF HasNode
<1>9. PICK k \in 1..Len(Nodes(u)) : x = Nodes(u)[k]
  BY <1>7, <1>8 DEF Range
<1>10. k \in OpenPlaces(u)
  <2>1. k \in DOMAIN Nodes(u)
    BY <1>7
  <2>2. ASSUME NEW m \in Range(Nodes(u)), IsStrictPrefix(m.path, p) PROVE m.path \in u.expanded
    BY <1>3, <1>4, <2>2
  <2> QED  BY <1>8, <1>9, <2>1, <2>2 DEF OpenPlaces
<1>11. x \in Range(rows)
  BY <1>7, <1>9, <1>10
<1>12. PICK n \in Nat : n = Len(rows) /\ DOMAIN rows = 1..n
  BY <1>7
<1>13. PICK A : A = {i \in DOMAIN rows : rows[i].path = p}
  OBVIOUS
<1>14. A \subseteq 1..n /\ A # {}
  BY <1>8, <1>11, <1>12, <1>13 DEF Range
<1>15. PICK at : at = FirstIn(A)
  OBVIOUS
<1>16. at \in 0..(Len(visible_rows(u)) - 1)
  BY <1>5, <1>12, <1>14, <1>15, FoundAt
<1>17. Position(visible_rows(u), LAMBDA y : y.path = p) = at
  BY <1>5, <1>13, <1>15 DEF Position, FirstIn
<1>18. goto_path(t, p) = [u EXCEPT !.cursor = at]
  BY <1>1, <1>17 DEF goto_path
<1> QED  BY <1>2, <1>6, <1>16, <1>18, TreeAt

(* Opening or closing the selected node leaves the rows above it: what is   *)
(* below a node is listed after it.                                         *)
LEMMA ExpandedTree ==
  ASSUME NEW t, IsTree(t), NEW expand \in BOOLEAN
  PROVE  IsTree(set_expand_selected(t, expand)) /\ set_expand_selected(t, expand).of = t.of
<1>1. PICK p : p = selected(t).path
  OBVIOUS
<1>2. CASE ~has_children(t, p)
  BY <1>1, <1>2 DEF set_expand_selected
<1>3. CASE has_children(t, p)
  <2>1. PICK e : e = IF expand THEN t.expanded \cup {p} ELSE t.expanded \ {p}
    OBVIOUS
  <2>2. PICK u : u = [t EXCEPT !.expanded = e]
    OBVIOUS
  <2>3. set_expand_selected(t, expand) = u
    BY <1>1, <1>3, <2>1, <2>2 DEF set_expand_selected
  <2>4. /\ DOMAIN u = {"of", "content", "expanded", "cursor"} /\ u.content = t.content
        /\ u.of = t.of /\ u.cursor = t.cursor /\ u.expanded = e
    BY <2>2 DEF IsTree
  <2>5. t.content \in Contents \cup {0} /\ t.cursor \in Nat /\ InList0(t.cursor, Len(visible_rows(t)))
    BY DEF IsTree, TreeFine
  <2>6. CASE t.cursor = 0
    BY <2>3, <2>4, <2>5, <2>6, TreeAtTop
  <2>7. CASE t.cursor # 0
    <3>1. PICK ns : ns = Nodes(t) /\ ns = Nodes(u) /\ ns \in Seq(Range(ns))
      BY <2>4, <2>5, TreeRows DEF Nodes
    <3>2. PICK I, J : I = OpenPlaces(t) /\ J = OpenPlaces(u)
      OBVIOUS
    <3>3. visible_rows(t) = Picked(ns, I) /\ visible_rows(u) = Picked(ns, J) /\ Len(visible_rows(t)) \in Nat
      BY <2>4, <2>5, <3>1, <3>2, TreeRows
    <3>4. PICK N \in Nat : N = Len(ns) /\ DOMAIN ns = 1..N
      BY <3>1
    <3>5. PICK rows : rows = visible_rows(t)
      OBVIOUS
    <3>6. PICK c \in Nat : c = t.cursor /\ c + 1 \in 1..Len(rows)
      BY <2>5, <2>7, <3>3, <3>5 DEF InList0
    <3>7. PICK k \in 1..N : k \in I /\ rows[c + 1] = ns[k] /\ Count(I, k) = c + 1
      <4>1. \A m \in 1..Len(rows) : \E k \in 1..Len(ns) : k \in I /\ rows[m] = ns[k] /\ Count(I, k) = m
        BY <3>1, <3>3, <3>5, PickedFacts
      <4> QED  BY <3>4, <3>6, <4>1
    <3>8. ns[k].path = p
      <4>1. selected(t) = rows[c + 1]
        <5>1. t.cursor < Len(visible_rows(t))
          BY <2>5, <2>7 DEF InList0
        <5> QED  BY <3>5, <3>6, <5>1 DEF selected
      <4> QED  BY <1>1, <3>7, <4>1
    <3>9. ASSUME NEW j \in 1..k, j \in I PROVE j \in J
      <4>1. j \in 1..N
        BY <3>4
      <4>2. ASSUME NEW m \in Range(ns), IsStrictPrefix(m.path, ns[j].path) PROVE m.path \in e
        <5>1. m.path \in t.expanded
          BY <3>1, <3>2, <3>9, <4>2 DEF OpenPlaces
        <5>2. m.path # p
          <6> SUFFICES ASSUME m.path = p PROVE FALSE
            OBVIOUS
          <6>1. IsStrictPrefix(ns[k].path, ns[j].path)
            BY <3>8, <4>2
          <6>2. t.content \in Contents /\ t.content # 0
            BY <2>5, <3>1, <3>4, <4>1, LibraryAssumption DEF Nodes, Contents
          <6>3. ns = Library[t.content].tree
            BY <3>1, <6>2 DEF Nodes
          <6>4. \A a, b \in DOMAIN ns : IsStrictPrefix(ns[a].path, ns[b].path) => a < b
            BY <6>2, <6>3, ListingAssumption DEF Contents
          <6>5. k < j
            BY <3>4, <4>1, <6>1, <6>4
          <6> QED  BY <6>5
        <5> QED  BY <2>1, <5>1, <5>2
      <4> QED  BY <2>4, <3>1, <3>2, <3>4, <4>1, <4>2 DEF OpenPlaces
    <3>10. c + 1 <= Count(J, N)
      <4>1. I \cap 1..k \subseteq J \cap 1..N
        BY <3>4, <3>9
      <4>2. k \in Nat
        OBVIOUS
      <4>3. Count(I, k) <= Count(J, N)
        BY <4>1, <4>2, CountMore
      <4> QED  BY <3>7, <4>3
    <3>11. PICK new : new = visible_rows(u)
      OBVIOUS
    <3>12. Len(new) = Count(J, N) /\ Len(new) \in Nat
      <4>1. new \in Seq(Range(ns)) /\ Len(new) = Count(J, Len(ns))
        BY <3>1, <3>3, <3>11, PickedFacts
      <4> QED  BY <3>4, <4>1
    <3>13. InList0(u.cursor, Len(visible_rows(u)))
      BY <2>4, <3>6, <3>10, <3>11, <3>12 DEF InList0
    <3> QED  BY <2>3, <2>4, <2>5, <3>13 DEF IsTree, TreeFine
  <2> QED  BY <2>6, <2>7
<1> QED  BY <1>2, <1>3

(***************************************************************************)
(* What the commands preserve.                                             *)
(***************************************************************************)
Known(e, i) == i = 0 \/ (i \in Images /\ e.img[i].st # "new")

(* 0 stands for no image. *)
LEMMA ImageIds == 0 \notin Images
BY LibraryAssumption DEF Images

(* An image the client has heard of is not one that is opened later. *)
NamesKnown(s) ==
  /\ Known(s.engine, s.client.active) /\ Known(s.engine, s.disk.active) /\ Known(s.engine, s.app.active)
  /\ Known(s.engine, s.app.nvar.key[1])
  /\ \A i \in DOMAIN s.app.reg.images : i # 0 /\ Known(s.engine, i)

Sources(f) == {f.from, f.qfrom, f.info[3], f.value[3]}

Here(s) == <<s.app.active, s.engine.img[s.app.active].content>>

(* What the forms view would show, also while another view is up. *)
FormsCurrent(s) == s.app.active # 0 /\ ~s.note.forms => Sources(s.app.forms) \subseteq {Nowhere, Here(s)}

PaneOf(s) ==
  LET i == s.app.nvar.key[1]
  IN  i # 0 /\ Live(s, i) /\ ~s.note.pane => s.engine.img[i].content = s.app.nvar.content

Base(s) == IsState(s) /\ NamesKnown(s) /\ FormsCurrent(s) /\ PaneOf(s)

Agree(s) == s.app.active = s.client.active
TreeOK(s) == ~s.note.upload => s.app.tree.of = s.app.active
Saved(s) == ~s.note.unsaved => s.disk = s.client

Good(s) == Base(s) /\ Agree(s) /\ TreeOK(s) /\ Saved(s)

(***************************************************************************)
(* A state with one part changed.                                          *)
(***************************************************************************)
Are(s, e, c, d, a, n) ==
  /\ DOMAIN s = StateFields /\ s.engine = e /\ s.client = c /\ s.disk = d /\ s.app = a /\ s.note = n

(* The fields of a state after each of the changes. *)
LEMMA Parts ==
  ASSUME NEW s, IsState(s), NEW x
  PROVE  /\ Are(SetEngine(s, x), x, s.client, s.disk, s.app, s.note)
         /\ Are(SetApp(s, x), s.engine, s.client, s.disk, x, s.note)
         /\ Are(Noted(s, x), s.engine, s.client, s.disk, s.app, x)
         /\ Are([s EXCEPT !.disk = x], s.engine, s.client, x, s.app, s.note)
         /\ Are(SetSession(s, x), s.engine, [s.client EXCEPT !.sess = x], s.disk, s.app, s.note)
BY DEF IsState, SetEngine, SetApp, Noted, SetSession, Are, StateFields

AppIs(a, active, loaded, view, focus, tree, reg, forms, nvar) ==
  /\ DOMAIN a = AppFields /\ a.active = active /\ a.loaded = loaded /\ a.view = view /\ a.focus = focus
  /\ a.tree = tree /\ a.reg = reg /\ a.forms = forms /\ a.nvar = nvar

(* The fields of the app after each of the changes to one of them. *)
LEMMA AppParts ==
  ASSUME NEW a, AppOK(a), NEW x
  PROVE  /\ AppIs([a EXCEPT !.tree = x], a.active, a.loaded, a.view, a.focus, x, a.reg, a.forms, a.nvar)
         /\ AppIs([a EXCEPT !.forms = x], a.active, a.loaded, a.view, a.focus, a.tree, a.reg, x, a.nvar)
         /\ AppIs([a EXCEPT !.nvar = x], a.active, a.loaded, a.view, a.focus, a.tree, a.reg, a.forms, x)
         /\ AppIs([a EXCEPT !.reg = x], a.active, a.loaded, a.view, a.focus, a.tree, x, a.forms, a.nvar)
         /\ AppIs([a EXCEPT !.view = x], a.active, a.loaded, x, a.focus, a.tree, a.reg, a.forms, a.nvar)
         /\ AppIs([a EXCEPT !.focus = x], a.active, a.loaded, a.view, x, a.tree, a.reg, a.forms, a.nvar)
         /\ AppIs([a EXCEPT !.loaded = x], a.active, x, a.view, a.focus, a.tree, a.reg, a.forms, a.nvar)
         /\ AppIs([a EXCEPT !.active = x], x, a.loaded, a.view, a.focus, a.tree, a.reg, a.forms, a.nvar)
<1>1. DOMAIN a = AppFields
  BY DEF AppOK
<1> QED  BY ONLY <1>1 DEF AppFields, AppIs

(***************************************************************************)
(* Changes that keep a state good.                                         *)
(***************************************************************************)
(* Another state of which only the number of failed calls may differ. *)
Alike(s, t) ==
  /\ IsState(t) /\ t.engine = s.engine /\ t.client = s.client /\ t.disk = s.disk /\ t.app = s.app
  /\ t.note.unsaved = s.note.unsaved /\ t.note.upload = s.note.upload
  /\ t.note.forms = s.note.forms /\ t.note.pane = s.note.pane

(* Nothing that is preserved depends on that number. *)
LEMMA AlikeGood ==
  ASSUME NEW s, NEW t, Alike(s, t)
  PROVE  /\ Base(s) => Base(t)
         /\ Agree(s) => Agree(t)
         /\ TreeOK(s) => TreeOK(t)
         /\ Saved(s) => Saved(t)
         /\ Good(s) => Good(t)
BY DEF Alike, Base, NamesKnown, FormsCurrent, Here, PaneOf, Live, Agree, TreeOK, Saved, Good

(* A call that fails for an outside reason has no value. *)
LEMMA FaultErr ==
  ASSUME NEW s, NEW r \in Fault(s)
  PROVE  r.err = "error"
<1>1. PICK t : r \in Err(t)
  BY DEF Fault
<1> QED  BY <1>1 DEF Err

(* A call that fails changes nothing. *)
LEMMA FaultAlike ==
  ASSUME NEW s, IsState(s), NEW r \in Fault(s)
  PROVE  r.err = "error" /\ Alike(s, r.s)
<1>0. s.note.faults < MaxFaults
  BY DEF Fault
<1>1. r = [s |-> Noted(s, [s.note EXCEPT !.faults = @ + 1]), err |-> "error", val |-> 0]
  BY DEF Fault, Err
<1>2. PICK n : n = [s.note EXCEPT !.faults = @ + 1]
  OBVIOUS
<1>3. IsNote(n) /\ n.unsaved = s.note.unsaved /\ n.upload = s.note.upload /\ n.forms = s.note.forms /\ n.pane = s.note.pane
  <2>1. DOMAIN n = DOMAIN s.note /\ n.faults = s.note.faults + 1
    BY <1>2 DEF IsState, IsNote
  <2>2. n.faults \in 0..MaxFaults
    BY <1>0, <2>1, LibraryAssumption DEF IsState, IsNote
  <2>3. n.unsaved = s.note.unsaved /\ n.upload = s.note.upload /\ n.forms = s.note.forms /\ n.pane = s.note.pane
    BY <1>2 DEF IsState, IsNote
  <2> QED  BY <2>1, <2>2, <2>3 DEF IsState, IsNote
<1>4. Are(Noted(s, n), s.engine, s.client, s.disk, s.app, n)
  BY Parts
<1> QED  BY <1>1, <1>2, <1>3, <1>4 DEF Alike, IsState, Are

(* A call that reads has the content of a live image, or failed. *)
LEMMA FetchOutcome ==
  ASSUME NEW s, IsState(s), NEW i, NEW r \in fetch(s, i)
  PROVE  \/ r.err = "error" /\ Alike(s, r.s)
         \/ r.err = "no" /\ r.s = s /\ Live(s, i) /\ r.val = s.engine.img[i].content
<1>1. r \in Fault(s) \/ r \in Err(s) \/ (Live(s, i) /\ r \in Ok(s, s.engine.img[i].content))
  BY DEF fetch
<1>2. Alike(s, s)
  BY DEF Alike
<1> QED  BY <1>1, <1>2, FaultAlike DEF Err, Ok

(* Forms of the active image, or what was shown already. *)
LEMMA FormsSet ==
  ASSUME NEW s, Good(s), NEW f, FormsOK(f),
         Sources(f) \subseteq Sources(s.app.forms) \cup {Nowhere, Here(s)}
  PROVE  Good(SetForms(s, f))
<1>1. IsState(s) /\ AppOK(s.app)
  BY DEF Good, Base, IsState
<1>2. PICK a : a = [s.app EXCEPT !.forms = f]
  OBVIOUS
<1>3. AppIs(a, s.app.active, s.app.loaded, s.app.view, s.app.focus, s.app.tree, s.app.reg, f, s.app.nvar)
  BY <1>1, <1>2, AppParts
<1>4. PICK t : t = SetForms(s, f)
  OBVIOUS
<1>5. Are(t, s.engine, s.client, s.disk, a, s.note)
  BY <1>1, <1>2, <1>4, Parts DEF SetForms
<1>6. AppOK(a)
  BY <1>1, <1>3 DEF AppOK, AppIs
<1>7. IsState(t)
  BY <1>1, <1>5, <1>6 DEF IsState, Are
<1>8. NamesKnown(t) /\ PaneOf(t) /\ Agree(t) /\ TreeOK(t) /\ Saved(t)
  BY <1>3, <1>5 DEF Good, Base, NamesKnown, PaneOf, Live, Agree, TreeOK, Saved, Are, AppIs
<1>9. FormsCurrent(t)
  BY <1>3, <1>5 DEF Good, Base, FormsCurrent, Here, Are, AppIs
<1> QED  BY <1>4, <1>7, <1>8, <1>9 DEF Good, Base

NoteIs(n, unsaved, upload, forms, pane) ==
  IsNote(n) /\ n.unsaved = unsaved /\ n.upload = upload /\ n.forms = forms /\ n.pane = pane

(* A state of which only the history differs. *)
Noting(s, t, unsaved, upload, forms, pane) ==
  Are(t, s.engine, s.client, s.disk, s.app, t.note) /\ NoteIs(t.note, unsaved, upload, forms, pane)

(* The state after a change of the history. *)
LEMMA Notes ==
  ASSUME NEW s, IsState(s), NEW b
  PROVE  /\ Noting(s, FormsNoted(s, b), s.note.unsaved, s.note.upload, b, s.note.pane)
         /\ Noting(s, PaneNoted(s, b), s.note.unsaved, s.note.upload, s.note.forms, b)
         /\ Noting(s, UploadNoted(s, b), s.note.unsaved, b, s.note.forms, s.note.pane)
         /\ Noting(s, Unsaved(s, b), b, s.note.upload, s.note.forms, s.note.pane)
         /\ Noting(s, Stale(s), s.note.unsaved, s.note.upload, TRUE, TRUE)
<1>1. ASSUME NEW m
      PROVE  Are(Noted(s, m), s.engine, s.client, s.disk, s.app, m)
  BY Parts
<1>2. ASSUME NEW n, IsNote(n), NEW x
      PROVE  /\ NoteIs([n EXCEPT !.forms = x], n.unsaved, n.upload, x, n.pane)
             /\ NoteIs([n EXCEPT !.pane = x], n.unsaved, n.upload, n.forms, x)
             /\ NoteIs([n EXCEPT !.upload = x], n.unsaved, x, n.forms, n.pane)
             /\ NoteIs([n EXCEPT !.unsaved = x], x, n.upload, n.forms, n.pane)
             /\ NoteIs([n EXCEPT !.forms = x, !.pane = x], n.unsaved, n.upload, x, x)
  BY <1>2 DEF NoteIs, IsNote
<1>3. IsNote(s.note)
  BY DEF IsState
<1>4. Noting(s, FormsNoted(s, b), s.note.unsaved, s.note.upload, b, s.note.pane)
  <2>1. PICK m : m = [s.note EXCEPT !.forms = b]
    OBVIOUS
  <2>2. NoteIs(m, s.note.unsaved, s.note.upload, b, s.note.pane)
    BY <1>2, <1>3, <2>1
  <2>3. Are(FormsNoted(s, b), s.engine, s.client, s.disk, s.app, m)
    BY <1>1, <2>1, Zenon DEF FormsNoted
  <2> QED  BY <2>2, <2>3, Zenon DEF Noting, Are
<1>5. Noting(s, PaneNoted(s, b), s.note.unsaved, s.note.upload, s.note.forms, b)
  <2>1. PICK m : m = [s.note EXCEPT !.pane = b]
    OBVIOUS
  <2>2. NoteIs(m, s.note.unsaved, s.note.upload, s.note.forms, b)
    BY <1>2, <1>3, <2>1
  <2>3. Are(PaneNoted(s, b), s.engine, s.client, s.disk, s.app, m)
    BY <1>1, <2>1, Zenon DEF PaneNoted
  <2> QED  BY <2>2, <2>3, Zenon DEF Noting, Are
<1>6. Noting(s, UploadNoted(s, b), s.note.unsaved, b, s.note.forms, s.note.pane)
  <2>1. PICK m : m = [s.note EXCEPT !.upload = b]
    OBVIOUS
  <2>2. NoteIs(m, s.note.unsaved, b, s.note.forms, s.note.pane)
    BY <1>2, <1>3, <2>1
  <2>3. Are(UploadNoted(s, b), s.engine, s.client, s.disk, s.app, m)
    BY <1>1, <2>1, Zenon DEF UploadNoted
  <2> QED  BY <2>2, <2>3, Zenon DEF Noting, Are
<1>7. Noting(s, Unsaved(s, b), b, s.note.upload, s.note.forms, s.note.pane)
  <2>1. PICK m : m = [s.note EXCEPT !.unsaved = b]
    OBVIOUS
  <2>2. NoteIs(m, b, s.note.upload, s.note.forms, s.note.pane)
    BY <1>2, <1>3, <2>1
  <2>3. Are(Unsaved(s, b), s.engine, s.client, s.disk, s.app, m)
    BY <1>1, <2>1, Zenon DEF Unsaved
  <2> QED  BY <2>2, <2>3, Zenon DEF Noting, Are
<1>8. Noting(s, Stale(s), s.note.unsaved, s.note.upload, TRUE, TRUE)
  <2>1. PICK x : x = TRUE
    OBVIOUS
  <2>2. NoteIs([s.note EXCEPT !.forms = x, !.pane = x], s.note.unsaved, s.note.upload, x, x)
    BY <1>2, <1>3
  <2>3. PICK m : m = [s.note EXCEPT !.forms = x, !.pane = x]
    OBVIOUS
  <2>4. Are(Stale(s), s.engine, s.client, s.disk, s.app, m)
    BY <1>1, <2>1, <2>3, Zenon DEF Stale
  <2> QED  BY <2>1, <2>2, <2>3, <2>4, Zenon DEF Noting, Are
<1> QED  BY <1>4, <1>5, <1>6, <1>7, <1>8

(* Forms fetched anew, of the active image. *)
LEMMA FormsReset ==
  ASSUME NEW s, Good(s), NEW f, FormsOK(f), s.app.active # 0,
         Sources(f) \subseteq {Nowhere, Here(s)}
  PROVE  Good(FormsNoted(SetForms(s, f), FALSE))
<1>1. PICK t : t = SetForms(s, f)
  OBVIOUS
<1>2. Good(t)
  BY <1>1, FormsSet
<1>3. t.app.forms = f /\ t.engine = s.engine /\ t.app.active = s.app.active
  <2>1. PICK a : a = [s.app EXCEPT !.forms = f]
    OBVIOUS
  <2>2. a.forms = f /\ a.active = s.app.active
    BY <2>1, AppParts DEF Good, Base, IsState, AppIs
  <2>3. Are(t, s.engine, s.client, s.disk, a, s.note)
    BY <1>1, <2>1, Parts DEF SetForms, Good, Base
  <2> QED  BY <2>2, <2>3 DEF Are
<1>4. PICK u : u = FormsNoted(t, FALSE)
  OBVIOUS
<1>5. Noting(t, u, t.note.unsaved, t.note.upload, FALSE, t.note.pane)
  BY <1>2, <1>4, Notes DEF Good, Base
<1>6. IsState(u)
  BY <1>2, <1>5 DEF Good, Base, IsState, Noting, NoteIs, Are
<1>7. NamesKnown(u) /\ PaneOf(u) /\ Agree(u) /\ TreeOK(u) /\ Saved(u)
  BY <1>2, <1>5 DEF Good, Base, NamesKnown, PaneOf, Live, Agree, TreeOK, Saved, Noting, NoteIs, Are
<1>8. FormsCurrent(u)
  BY <1>3, <1>5 DEF FormsCurrent, Here, Noting, NoteIs, Are
<1> QED  BY <1>1, <1>4, <1>6, <1>7, <1>8 DEF Good, Base

(* Changes of the app that are about neither forms, pane nor active image. *)
LEMMA AppSet ==
  ASSUME NEW s, Base(s), NEW a, AppOK(a), a.active = s.app.active, a.forms = s.app.forms, a.nvar = s.app.nvar,
         \A i \in DOMAIN a.reg.images : i # 0 /\ Known(s.engine, i)
  PROVE  /\ Base(SetApp(s, a))
         /\ Agree(s) => Agree(SetApp(s, a))
         /\ Saved(s) => Saved(SetApp(s, a))
         /\ a.tree.of = s.app.tree.of /\ TreeOK(s) => TreeOK(SetApp(s, a))
<1>1. PICK t : t = SetApp(s, a)
  OBVIOUS
<1>2. Are(t, s.engine, s.client, s.disk, a, s.note)
  BY <1>1, Parts DEF Base
<1>3. IsState(t)
  BY <1>2 DEF Base, IsState, Are
<1>4. NamesKnown(t) /\ FormsCurrent(t) /\ PaneOf(t)
  BY <1>2 DEF Base, NamesKnown, FormsCurrent, Here, PaneOf, Live, Are
<1> QED  BY <1>1, <1>2, <1>3, <1>4 DEF Base, Agree, Saved, TreeOK, Are

(* Changes of the engine that leave the images the client knows, or close them. *)
LEMMA EngineSet ==
  ASSUME NEW s, Base(s), NEW e, EngineOK(e),
         \A i \in Images : s.engine.img[i].st # "new" =>
            e.img[i].st # "new" /\ (e.img[i].st = "live" => e.img[i] = s.engine.img[i])
  PROVE  /\ IsState(SetEngine(s, e)) /\ NamesKnown(SetEngine(s, e)) /\ PaneOf(SetEngine(s, e))
         /\ (s.app.active # 0 => e.img[s.app.active] = s.engine.img[s.app.active]) => Base(SetEngine(s, e))
         /\ Agree(s) => Agree(SetEngine(s, e))
         /\ Saved(s) => Saved(SetEngine(s, e))
         /\ TreeOK(s) => TreeOK(SetEngine(s, e))
<1>1. PICK t : t = SetEngine(s, e)
  OBVIOUS
<1>2. Are(t, e, s.client, s.disk, s.app, s.note)
  BY <1>1, Parts DEF Base
<1>3. IsState(t)
  BY <1>2 DEF Base, IsState, Are
<1>4. NamesKnown(t)
  BY <1>2 DEF Base, NamesKnown, Known, Are
<1>5. PaneOf(t)
  BY <1>2 DEF Base, NamesKnown, Known, PaneOf, Live, Are
<1>6. (s.app.active # 0 => e.img[s.app.active] = s.engine.img[s.app.active]) => FormsCurrent(t)
  BY <1>2 DEF Base, FormsCurrent, Here, Are
<1> QED  BY <1>1, <1>2, <1>3, <1>4, <1>5, <1>6 DEF Base, Agree, Saved, TreeOK, Are

(* Changes of the images that the history records. *)
LEMMA EngineStale ==
  ASSUME NEW s, Good(s), NEW e, EngineOK(e),
         \A i \in Images : s.engine.img[i].st # "new" => e.img[i].st # "new"
  PROVE  Good(Stale(SetEngine(s, e)))
<1>1. PICK t : t = SetEngine(s, e)
  OBVIOUS
<1>2. Are(t, e, s.client, s.disk, s.app, s.note)
  BY <1>1, Parts DEF Good, Base
<1>3. IsState(t)
  BY <1>2 DEF Good, Base, IsState, Are
<1>4. PICK u : u = Stale(t)
  OBVIOUS
<1>5. Noting(t, u, s.note.unsaved, s.note.upload, TRUE, TRUE)
  BY <1>2, <1>3, <1>4, Notes DEF Are
<1>6. IsState(u)
  BY <1>2, <1>3, <1>5 DEF IsState, Noting, NoteIs, Are
<1>7. NamesKnown(u)
  BY <1>2, <1>5 DEF Good, Base, NamesKnown, Known, Noting, Are
<1>8. FormsCurrent(u) /\ PaneOf(u)
  BY <1>5 DEF FormsCurrent, PaneOf, Noting, NoteIs
<1> QED  BY <1>1, <1>2, <1>4, <1>5, <1>6, <1>7, <1>8 DEF Good, Base, Agree, Saved, TreeOK, Noting, NoteIs, Are

(***************************************************************************)
(* Session and state file.                                                 *)
(***************************************************************************)
(* What is written is what the client has, and a failure is remembered. *)
LEMMA WriteState ==
  ASSUME NEW s, Base(s), NEW r \in write_state(s)
  PROVE  /\ Base(r.s) /\ Saved(r.s) /\ r.s.engine = s.engine /\ r.s.app = s.app /\ r.s.client = s.client
         /\ r.s.note.upload = s.note.upload /\ r.s.note.forms = s.note.forms
         /\ r.err \in {"no", "error"}
<1>1. PICK d : d = [s EXCEPT !.disk = s.client]
  OBVIOUS
<1>2. Are(d, s.engine, s.client, s.client, s.app, s.note)
  BY <1>1, Parts DEF Base
<1>3. Base(d)
  BY <1>2 DEF Base, IsState, NamesKnown, FormsCurrent, Here, PaneOf, Live, Are
<1>4. PICK n : n = IF r.err = "no" THEN Unsaved(d, FALSE) ELSE Unsaved(s, TRUE)
  OBVIOUS
<1>5. CASE r \in Ok(n, 0) /\ r.err = "no"
  <2>1. Noting(d, n, FALSE, d.note.upload, d.note.forms, d.note.pane)
    BY <1>3, <1>4, <1>5, Notes DEF Base
  <2>2. IsState(n)
    BY <1>3, <2>1 DEF Base, IsState, Noting, NoteIs, Are
  <2>3. Base(n) /\ Saved(n)
    BY <1>2, <1>3, <2>1, <2>2 DEF Base, NamesKnown, FormsCurrent, Here, PaneOf, Live, Noting, NoteIs, Are, Saved
  <2>4. r.s = n
    BY <1>5 DEF Ok
  <2> QED  BY <1>2, <1>5, <2>1, <2>3, <2>4 DEF Noting, NoteIs, Are
<1>6. CASE r \in Fault(n) /\ r.err # "no"
  <2>1. Noting(s, n, TRUE, s.note.upload, s.note.forms, s.note.pane)
    BY <1>4, <1>6, Notes DEF Base
  <2>2. IsState(n)
    BY <2>1 DEF Base, IsState, Noting, NoteIs, Are
  <2>3. Base(n) /\ Saved(n)
    BY <2>1, <2>2 DEF Base, NamesKnown, FormsCurrent, Here, PaneOf, Live, Noting, NoteIs, Are, Saved
  <2>4. r.err = "error" /\ Alike(n, r.s)
    BY <1>6, <2>2, FaultAlike
  <2>5. Base(r.s) /\ Saved(r.s)
    BY <2>3, <2>4, AlikeGood
  <2> QED  BY <2>1, <2>4, <2>5 DEF Noting, NoteIs, Are, Alike
<1>7. r \in Ok(Unsaved(d, FALSE), 0) \/ r \in Fault(Unsaved(s, TRUE))
  BY <1>1 DEF write_state
<1>8. r \in Ok(Unsaved(d, FALSE), 0) => r.err = "no"
  BY DEF Ok
<1>9. r \in Fault(Unsaved(s, TRUE)) => r.err # "no"
  BY FaultErr
<1> QED  BY <1>4, <1>5, <1>6, <1>7, <1>8, <1>9

(* An id that is given is one that was not given before. *)
LEMMA NewImage ==
  ASSUME NEW f, DOMAIN f \in {Images, Sessions}, NEW i \in LeastNew(f)
  PROVE  i \in DOMAIN f /\ f[i].st = "new"
<1>1. PICK A : A = {j \in DOMAIN f : f[j].st = "new"}
  OBVIOUS
<1>2. A \subseteq Nat
  BY <1>1, LibraryAssumption DEF Images, Sessions
<1>3. A # {} /\ i = CHOOSE j \in A : \A k \in A : j <= k
  BY <1>1 DEF LeastNew
<1>4. i \in A
  BY <1>2, <1>3, FirstOf
<1> QED  BY <1>1, <1>4

(* A session is created and changes no image. *)
LEMMA SessionCreated ==
  ASSUME NEW s, Good(s), NEW r \in session_create(s)
  PROVE  /\ Good(r.s) /\ r.s.engine.img = s.engine.img /\ r.err \in {"no", "error"}
         /\ r.err = "no" => r.val \in Sessions
<1>1. IsState(s)
  BY DEF Good, Base
<1>2. CASE r \in Fault(s)
  BY <1>1, <1>2, FaultAlike, AlikeGood DEF Alike
<1>3. CASE r \notin Fault(s)
  <2>1. PICK n \in LeastNew(s.engine.sess) :
            r \in Ok(SetEngine(s, [s.engine EXCEPT !.sess = [@ EXCEPT ![n] = [st |-> "live"]]]), n)
    BY <1>3 DEF session_create
  <2>2. PICK x : x = [s.engine.sess EXCEPT ![n] = [st |-> "live"]]
    OBVIOUS
  <2>3. PICK e : e = [s.engine EXCEPT !.sess = x]
    OBVIOUS
  <2>4. EngineOK(e) /\ e.img = s.engine.img
    <3>1. EngineOK(s.engine)
      BY <1>1 DEF IsState
    <3>2. DOMAIN x = Sessions
      BY <2>2, <3>1 DEF EngineOK
    <3>3. DOMAIN e = DOMAIN s.engine /\ e.sess = x /\ e.img = s.engine.img /\ e.snap = s.engine.snap /\ e.arts = s.engine.arts
      BY <2>3, <3>1 DEF EngineOK
    <3> QED  BY <3>1, <3>2, <3>3 DEF EngineOK
  <2>5. Good(SetEngine(s, e))
    BY <2>4, EngineSet DEF Good
  <2>6. r.s = SetEngine(s, e) /\ r.err = "no" /\ r.val = n
    BY <2>1, <2>2, <2>3 DEF Ok
  <2>8. n \in Sessions
    <3>1. DOMAIN s.engine.sess = Sessions
      BY <1>1 DEF IsState, EngineOK
    <3> QED  BY <2>1, <3>1, NewImage
  <2>7. r.s.engine = e
    <3>1. Are(SetEngine(s, e), e, s.client, s.disk, s.app, s.note)
      BY <1>1, Parts
    <3> QED  BY <2>6, <3>1 DEF Are
  <2> QED  BY <2>4, <2>5, <2>6, <2>7, <2>8
<1> QED  BY <1>2, <1>3

(* The session of the client is neither shown nor does it name an image. *)
LEMMA SessionSet ==
  ASSUME NEW s, Good(s), NEW n \in 0..MaxSessions
  PROVE  /\ Base(SetSession(s, n)) /\ Agree(SetSession(s, n)) /\ TreeOK(SetSession(s, n))
         /\ SetSession(s, n).engine = s.engine
<1>1. PICK t : t = SetSession(s, n)
  OBVIOUS
<1>2. PICK c : c = [s.client EXCEPT !.sess = n]
  OBVIOUS
<1>3. IsClient(c) /\ c.active = s.client.active
  BY <1>2 DEF Good, Base, IsState, IsClient
<1>4. Are(t, s.engine, c, s.disk, s.app, s.note)
  BY <1>1, <1>2, Parts DEF Good, Base
<1>5. Base(t) /\ Agree(t) /\ TreeOK(t)
  BY <1>3, <1>4 DEF Good, Base, IsState, NamesKnown, FormsCurrent, Here, PaneOf, Live, Are, Agree, TreeOK
<1> QED  BY <1>1, <1>4, <1>5 DEF Are

(* After a session was created it is in the state file, or that is remembered. *)
LEMMA SessionPersisted ==
  ASSUME NEW s, Good(s), NEW r \in create_and_persist_session(s)
  PROVE  Good(r.s) /\ r.s.engine.img = s.engine.img /\ r.err \in {"no", "error"}
<1>1. PICK q \in session_create(s) : IF q.err = "no" THEN r \in write_state(SetSession(q.s, q.val)) ELSE r = q
  BY DEF create_and_persist_session, Then
<1>2. Good(q.s) /\ q.s.engine.img = s.engine.img /\ q.err \in {"no", "error"}
  BY <1>1, SessionCreated
<1>3. CASE q.err = "no"
  <2>0. q.val \in 0..MaxSessions
    BY <1>1, <1>3, SessionCreated, LibraryAssumption DEF Sessions
  <2>1. PICK t : t = SetSession(q.s, q.val)
    OBVIOUS
  <2>2. Base(t) /\ Agree(t) /\ TreeOK(t) /\ t.engine = q.s.engine
    BY <1>2, <2>0, <2>1, SessionSet
  <2>3. r \in write_state(t)
    BY <1>1, <1>3, <2>1
  <2>4. /\ Base(r.s) /\ Saved(r.s) /\ r.s.engine = t.engine /\ r.s.app = t.app /\ r.s.client = t.client
        /\ r.s.note.upload = t.note.upload /\ r.err \in {"no", "error"}
    BY <2>2, <2>3, WriteState
  <2> QED  BY <1>2, <2>2, <2>4 DEF Good, Agree, TreeOK
<1> QED  BY <1>1, <1>2, <1>3

(* ensure_session likewise. *)
LEMMA SessionEnsured ==
  ASSUME NEW s, Good(s), NEW r \in ensure_session(s)
  PROVE  Good(r.s) /\ r.s.engine.img = s.engine.img /\ r.err \in {"no", "error"}
BY SessionPersisted DEF ensure_session, Ok

(* A session that is gone is forgotten, and that is not in the file yet. *)
LEMMA SessionForgotten ==
  ASSUME NEW s, Good(s)
  PROVE  Good(Unsaved(SetSession(s, 0), TRUE)) /\ Unsaved(SetSession(s, 0), TRUE).engine = s.engine
<1>1. PICK t : t = SetSession(s, 0)
  OBVIOUS
<1>2. Base(t) /\ Agree(t) /\ TreeOK(t) /\ t.engine = s.engine
  BY <1>1, SessionSet, LibraryAssumption
<1>3. PICK u : u = Unsaved(t, TRUE)
  OBVIOUS
<1>4. Noting(t, u, TRUE, t.note.upload, t.note.forms, t.note.pane)
  BY <1>2, <1>3, Notes DEF Base
<1>5. IsState(u)
  BY <1>2, <1>4 DEF Base, IsState, Noting, NoteIs, Are
<1>6. Good(u)
  BY <1>2, <1>4, <1>5 DEF Good, Base, NamesKnown, FormsCurrent, Here, PaneOf, Live, Noting, NoteIs, Are, Agree, TreeOK, Saved
<1> QED  BY <1>1, <1>2, <1>3, <1>4, <1>6 DEF Noting, Are

(***************************************************************************)
(* Calls that change the engine.                                           *)
(***************************************************************************)
(* An outcome of opening an image: a new one, and live. *)
OpenedOK(s, r) ==
  /\ Good(r.s)
  /\ r.err = "no" => r.val \in Images /\ s.engine.img[r.val].st = "new" /\ r.s.engine.img[r.val].st = "live"

(* The image that is opened is none the client has heard of. *)
LEMMA ImageOpened ==
  ASSUME NEW s, Good(s), NEW write, NEW upload, NEW r \in image_open(s, write, upload)
  PROVE  OpenedOK(s, r)
<1>1. IsState(s) /\ EngineOK(s.engine)
  BY DEF Good, Base, IsState
<1>2. CASE r \in Fault(s)
  BY <1>1, <1>2, FaultAlike, AlikeGood DEF OpenedOK
<1>3. CASE r \in Gone(s)
  BY <1>3 DEF Gone, OpenedOK
<1>4. CASE r \notin Fault(s) /\ r \notin Gone(s)
  <2>1. PICK i \in LeastNew(s.engine.img) :
            r \in Ok(SetImage(s, i, [st |-> "live", sess |-> s.client.sess, write |-> write,
                                     content |-> File, upload |-> upload]), i)
    BY <1>4 DEF image_open
  <2>2. i \in Images /\ s.engine.img[i].st = "new"
    BY <1>1, <2>1, NewImage DEF EngineOK
  <2>3. PICK m : m = [st |-> "live", sess |-> s.client.sess, write |-> write, content |-> File, upload |-> upload]
    OBVIOUS
  <2>4. IsImage(m) /\ m.st = "live"
    BY <2>3, LibraryAssumption DEF IsImage, Contents
  <2>5. PICK x : x = [s.engine.img EXCEPT ![i] = m]
    OBVIOUS
  <2>6. DOMAIN x = Images /\ x[i] = m /\ \A j \in Images : j # i => x[j] = s.engine.img[j]
    BY <1>1, <2>2, <2>5 DEF EngineOK
  <2>7. PICK e : e = [s.engine EXCEPT !.img = x]
    OBVIOUS
  <2>8. /\ e.img = x /\ e.snap = s.engine.snap /\ DOMAIN e = DOMAIN s.engine
        /\ e.sess = s.engine.sess /\ e.arts = s.engine.arts
    BY <1>1, <2>7 DEF EngineOK
  <2>9. EngineOK(e)
    BY <1>1, <2>2, <2>4, <2>6, <2>8 DEF EngineOK
  <2>10. \A j \in Images : s.engine.img[j].st # "new" => e.img[j] = s.engine.img[j]
    BY <2>2, <2>6, <2>8
  <2>11. s.app.active # 0 => e.img[s.app.active] = s.engine.img[s.app.active]
    BY <2>10 DEF Good, Base, NamesKnown, Known
  <2>12. Good(SetEngine(s, e))
    BY <2>9, <2>10, <2>11, EngineSet DEF Good
  <2>13. r.s = SetEngine(s, e) /\ r.val = i
    BY <2>1, <2>3, <2>5, <2>7 DEF Ok, SetImage
  <2>14. Are(SetEngine(s, e), e, s.client, s.disk, s.app, s.note)
    BY <1>1, Parts
  <2> QED  BY <2>2, <2>4, <2>6, <2>8, <2>12, <2>13, <2>14 DEF OpenedOK, Are
<1> QED  BY <1>2, <1>3, <1>4

(* Also when a new session had to be created for it. *)
LEMMA OpenedInSession ==
  ASSUME NEW s, Good(s), NEW write, NEW upload, NEW r \in open_in_session(s, write, upload)
  PROVE  OpenedOK(s, r)
<1> DEFINE Retried(p) == UNION {IF o.err = "no" THEN image_open(o.s, write, upload) ELSE {o}
                                 : o \in create_and_persist_session(Unsaved(SetSession(p.s, 0), TRUE))}
           Tried(q) == UNION {IF p.err = "no_session" THEN Retried(p) ELSE {p} : p \in image_open(q.s, write, upload)}
<1>0. open_in_session(s, write, upload) = UNION {IF q.err = "no" THEN Tried(q) ELSE {q} : q \in ensure_session(s)}
  BY DEF open_in_session, in_session, Then
<1>1. PICK q \in ensure_session(s) : IF q.err = "no" THEN r \in Tried(q) ELSE r = q
  <2> HIDE DEF Tried
  <2> QED  BY <1>0
<1>2. Good(q.s) /\ q.s.engine.img = s.engine.img
  BY <1>1, SessionEnsured
<1>3. CASE q.err # "no"
  BY <1>1, <1>2, <1>3 DEF OpenedOK
<1>4. CASE q.err = "no"
  <2>1. PICK p \in image_open(q.s, write, upload) : IF p.err = "no_session" THEN r \in Retried(p) ELSE r = p
    <3> HIDE DEF Retried
    <3> QED  BY <1>1, <1>4
  <2>2. OpenedOK(q.s, p)
    BY <1>2, <2>1, ImageOpened
  <2>3. CASE p.err # "no_session"
    BY <1>2, <2>1, <2>2, <2>3 DEF OpenedOK
  <2>4. CASE p.err = "no_session"
    <3>1. p.s = q.s
      <4>1. p \notin Fault(q.s)
        BY <2>4, FaultErr
      <4>2. p \in Gone(q.s) \/ \E t, i : p \in Ok(t, i)
        BY <2>1, <4>1 DEF image_open
      <4> QED  BY <2>4, <4>2 DEF Gone, Ok
    <3>2. PICK t : t = Unsaved(SetSession(p.s, 0), TRUE)
      OBVIOUS
    <3>3. Good(t) /\ t.engine.img = s.engine.img
      BY <1>2, <3>1, <3>2, SessionForgotten
    <3>4. PICK o \in create_and_persist_session(t) : IF o.err = "no" THEN r \in image_open(o.s, write, upload) ELSE r = o
      BY <2>1, <2>4, <3>2
    <3>5. Good(o.s) /\ o.s.engine.img = s.engine.img
      BY <3>3, <3>4, SessionPersisted
    <3> QED  BY <3>4, <3>5, ImageOpened DEF OpenedOK
  <2> QED  BY <2>3, <2>4
<1> QED  BY <1>3, <1>4

(* Reopening an upload is refused, else it is an opening. *)
LEMMA ReopenedInSession ==
  ASSUME NEW s, Good(s), NEW im, NEW r \in reopen_in_session(s, im)
  PROVE  OpenedOK(s, r)
<1>1. CASE im.upload
  <2> DEFINE Retried(p) == UNION {IF o.err = "no" THEN Err(o.s) ELSE {o}
                                   : o \in create_and_persist_session(Unsaved(SetSession(p.s, 0), TRUE))}
             Tried(q) == UNION {IF p.err = "no_session" THEN Retried(p) ELSE {p} : p \in Err(q.s)}
  <2>0. reopen_in_session(s, im) = UNION {IF q.err = "no" THEN Tried(q) ELSE {q} : q \in ensure_session(s)}
    BY <1>1 DEF reopen_in_session, in_session, Then
  <2> HIDE DEF Retried
  <2>1. PICK q \in ensure_session(s) : IF q.err = "no" THEN r \in Tried(q) ELSE r = q
    <3> HIDE DEF Tried
    <3> QED  BY <2>0
  <2>2. Good(q.s)
    BY <2>1, SessionEnsured
  <2> QED  BY <2>1, <2>2 DEF Err, OpenedOK
<1>2. CASE ~im.upload
  <2>1. reopen_in_session(s, im) = open_in_session(s, TRUE, FALSE)
    BY <1>2 DEF reopen_in_session, open_in_session, in_session, Then
  <2> QED  BY <2>1, OpenedInSession
<1> QED  BY <1>1, <1>2

(* A change of the artifacts or snapshots leaves the images. *)
LEMMA ImagesLeft ==
  ASSUME NEW s, Good(s), NEW e, EngineOK(e), e.img = s.engine.img
  PROVE  Good(SetEngine(s, e))
BY EngineSet DEF Good

(* An artifact is no image. *)
LEMMA ArtifactImported ==
  ASSUME NEW s, Good(s), NEW r \in artifact_import(s)
  PROVE  Good(r.s)
<1>1. IsState(s) /\ EngineOK(s.engine)
  BY DEF Good, Base, IsState
<1>2. CASE r \in Fault(s)
  BY <1>1, <1>2, FaultAlike, AlikeGood
<1>3. CASE r \in Gone(s)
  BY <1>3 DEF Gone
<1>4. CASE r \in Ok(SetEngine(s, [s.engine EXCEPT !.arts = @ + 1]), 0)
  <2>1. PICK e : e = [s.engine EXCEPT !.arts = @ + 1]
    OBVIOUS
  <2>2. EngineOK(e) /\ e.img = s.engine.img
    BY <1>1, <2>1 DEF EngineOK
  <2>3. r.s = SetEngine(s, e)
    BY <1>4, <2>1 DEF Ok
  <2> QED  BY <2>2, <2>3, ImagesLeft
<1> QED  BY <1>2, <1>3, <1>4 DEF artifact_import

(* Also when a new session had to be created for it. *)
LEMMA ImportedInSession ==
  ASSUME NEW s, Good(s), NEW r \in import_in_session(s)
  PROVE  Good(r.s)
<1> DEFINE Retried(p) == UNION {IF o.err = "no" THEN artifact_import(o.s) ELSE {o}
                                 : o \in create_and_persist_session(Unsaved(SetSession(p.s, 0), TRUE))}
           Tried(q) == UNION {IF p.err = "no_session" THEN Retried(p) ELSE {p} : p \in artifact_import(q.s)}
<1>1. import_in_session(s) = UNION {IF q.err = "no" THEN Tried(q) ELSE {q} : q \in ensure_session(s)}
  BY DEF import_in_session, in_session, Then
<1>2. PICK q \in ensure_session(s) : IF q.err = "no" THEN r \in Tried(q) ELSE r = q
  <2> HIDE DEF Tried
  <2> QED  BY <1>1
<1>3. Good(q.s)
  BY <1>2, SessionEnsured
<1>4. CASE q.err = "no"
  <2>1. PICK p \in artifact_import(q.s) : IF p.err = "no_session" THEN r \in Retried(p) ELSE r = p
    <3> HIDE DEF Retried
    <3> QED  BY <1>2, <1>4
  <2>2. Good(p.s)
    BY <1>3, <2>1, ArtifactImported
  <2>3. CASE p.err = "no_session"
    <3>1. PICK t : t = Unsaved(SetSession(p.s, 0), TRUE)
      OBVIOUS
    <3>2. Good(t)
      BY <2>2, <3>1, SessionForgotten
    <3>3. PICK o \in create_and_persist_session(t) : IF o.err = "no" THEN r \in artifact_import(o.s) ELSE r = o
      BY <2>1, <2>3, <3>1
    <3>4. Good(o.s)
      BY <3>2, <3>3, SessionPersisted
    <3> QED  BY <3>3, <3>4, ArtifactImported
  <2> QED  BY <2>1, <2>2, <2>3
<1> QED  BY <1>2, <1>3, <1>4

(* What is left of the engine when an image is closed. *)
LEMMA DroppedEngine ==
  ASSUME NEW s, Good(s), NEW i \in Images
  PROVE  \E e : /\ Dropped(s, i) = SetEngine(s, e) /\ EngineOK(e) /\ e.img[i].st = "gone"
                /\ \A j \in Images : j # i => e.img[j] = s.engine.img[j]
<1>1. EngineOK(s.engine)
  BY DEF Good, Base, IsState
<1>2. PICK x : x = [s.engine.img EXCEPT ![i] = Closed]
  OBVIOUS
<1>3. PICK y : y = [s.engine.snap EXCEPT ![i] = 0]
  OBVIOUS
<1>4. PICK e : e = [s.engine EXCEPT !.img = x, !.snap = y]
  OBVIOUS
<1>5. IsImage(Closed) /\ Closed.st = "gone"
  BY DEF IsImage, Closed, NoImage
<1>6. DOMAIN x = Images /\ x[i] = Closed /\ \A j \in Images : j # i => x[j] = s.engine.img[j]
  BY <1>1, <1>2 DEF EngineOK
<1>7. DOMAIN y = Images /\ \A j \in Images : y[j] \in Contents \cup {0}
  BY <1>1, <1>3 DEF EngineOK
<1>8. /\ DOMAIN e = {"sess", "img", "snap", "arts"} /\ e.img = x /\ e.snap = y
      /\ e.sess = s.engine.sess /\ e.arts = s.engine.arts
  BY <1>1, <1>4 DEF EngineOK
<1>9. EngineOK(e)
  BY <1>1, <1>5, <1>6, <1>7, <1>8 DEF EngineOK
<1>10. Dropped(s, i) = SetEngine(s, e)
  BY <1>2, <1>3, <1>4 DEF Dropped
<1> QED  BY <1>5, <1>6, <1>8, <1>9, <1>10

(* Closing another image than the active one. *)
LEMMA OtherDropped ==
  ASSUME NEW s, Good(s), NEW i \in Images, i # s.app.active
  PROVE  Good(Dropped(s, i))
<1>1. PICK e : /\ Dropped(s, i) = SetEngine(s, e) /\ EngineOK(e) /\ e.img[i].st = "gone"
               /\ \A j \in Images : j # i => e.img[j] = s.engine.img[j]
  BY DroppedEngine
<1>2. s.app.active # 0 => e.img[s.app.active] = s.engine.img[s.app.active]
  BY <1>1 DEF Good, Base, NamesKnown, Known
<1>3. \A j \in Images : s.engine.img[j].st # "new" => e.img[j].st # "new" /\ (e.img[j].st = "live" => e.img[j] = s.engine.img[j])
  BY <1>1
<1> QED  BY <1>1, <1>2, <1>3, EngineSet DEF Good

(* Another content of an image, and the history says so. *)
LEMMA ContentSet ==
  ASSUME NEW s, Good(s), NEW i \in Images, NEW c \in Contents, s.engine.img[i].st = "live"
  PROVE  Good(Stale(SetContent(s, i, c)))
<1>1. EngineOK(s.engine)
  BY DEF Good, Base, IsState
<1>2. PICK m : m = [s.engine.img[i] EXCEPT !.content = c]
  OBVIOUS
<1>3. IsImage(m) /\ m.st = "live"
  BY <1>1, <1>2 DEF EngineOK, IsImage
<1>4. PICK x : x = [s.engine.img EXCEPT ![i] = m]
  OBVIOUS
<1>5. DOMAIN x = Images /\ x[i] = m /\ \A j \in Images : j # i => x[j] = s.engine.img[j]
  BY <1>1, <1>4 DEF EngineOK
<1>6. PICK e : e = [s.engine EXCEPT !.img = x]
  OBVIOUS
<1>7. /\ DOMAIN e = {"sess", "img", "snap", "arts"} /\ e.img = x /\ e.snap = s.engine.snap
      /\ e.sess = s.engine.sess /\ e.arts = s.engine.arts
  BY <1>1, <1>6 DEF EngineOK
<1>8. EngineOK(e)
  BY <1>1, <1>3, <1>5, <1>7 DEF EngineOK
<1>9. \A j \in Images : s.engine.img[j].st # "new" => e.img[j].st # "new"
  BY <1>3, <1>5, <1>7
<1>10. SetContent(s, i, c) = SetEngine(s, e)
  BY <1>2, <1>4, <1>6 DEF SetContent, SetImage
<1> QED  BY <1>8, <1>9, <1>10, EngineStale

(* An edit of an image the client knows. *)
LEMMA Edited ==
  ASSUME NEW s, Good(s), NEW i, Known(s.engine, i), NEW gated, NEW r \in edit(s, i, gated)
  PROVE  Good(r.s)
<1>1. CASE r \in Err(s)
  BY <1>1 DEF Err
<1>2. CASE r \notin Err(s)
  <2>1. Live(s, i)
    BY <1>2 DEF edit
  <2>2. i \in Images /\ s.engine.img[i].st = "live"
    BY <2>1 DEF Live, Known
  <2>3. PICK c \in Contents : r \in Ok(Stale(SetContent(s, i, c)), c) \cup Fault(Stale(SetContent(s, i, c)))
    BY <1>2 DEF edit
  <2>4. PICK t : t = Stale(SetContent(s, i, c))
    OBVIOUS
  <2>5. Good(t)
    BY <2>2, <2>4, ContentSet
  <2>6. CASE r \in Ok(t, c)
    BY <2>5, <2>6 DEF Ok
  <2>7. CASE r \in Fault(t)
    BY <2>5, <2>7, FaultAlike, AlikeGood DEF Good, Base
  <2> QED  BY <2>3, <2>4, <2>6, <2>7
<1> QED  BY <1>1, <1>2

(***************************************************************************)
(* What is fetched and shown.                                              *)
(***************************************************************************)
(* A change of the app leaves the rest of the state. *)
LEMMA AppSetParts ==
  ASSUME NEW s, IsState(s), NEW a
  PROVE  Are(SetApp(s, a), s.engine, s.client, s.disk, a, s.note)
BY Parts

(* The registry lists images the engine has given. *)
LEMMA RegistryFetched ==
  ASSUME NEW s, Base(s), NEW r \in refresh_registry(s)
  PROVE  /\ Base(r.s) /\ r.s.client = s.client /\ r.s.engine = s.engine /\ r.s.app.active = s.app.active
         /\ r.s.app.forms = s.app.forms /\ r.s.app.nvar = s.app.nvar /\ r.s.app.view = s.app.view
         /\ r.s.note.forms = s.note.forms /\ r.s.note.pane = s.note.pane
         /\ Agree(s) => Agree(r.s)
         /\ Saved(s) => Saved(r.s)
         /\ TreeOK(s) => TreeOK(r.s)
<1> DEFINE own == {i \in Images : Live(s, i) /\ s.engine.img[i].sess = s.client.sess}
           reg == [images |-> [i \in own |-> [write |-> s.engine.img[i].write, upload |-> s.engine.img[i].upload]],
                   arts   |-> IF s.engine.sess[s.client.sess].st = "live" THEN s.engine.arts ELSE 0,
                   cursor |-> s.app.reg.cursor]
           kept == IF reg.cursor < Len(registry_selectable(reg)) THEN reg ELSE [reg EXCEPT !.cursor = 0]
<1>1. IsState(s) /\ AppOK(s.app)
  BY DEF Base, IsState
<1>2. r \in Err(s) \/ r \in Fault(s) \/ r \in Ok(SetApp(s, [s.app EXCEPT !.reg = kept]), 0)
  BY DEF refresh_registry
<1>3. CASE r \in Err(s)
  BY <1>3 DEF Err
<1>4. CASE r \in Fault(s)
  BY <1>1, <1>4, FaultAlike, AlikeGood DEF Alike
<1>5. CASE r \in Ok(SetApp(s, [s.app EXCEPT !.reg = kept]), 0)
  <2>1. PICK g : g = kept
    OBVIOUS
  <2>2. DOMAIN g = {"images", "arts", "cursor"} /\ DOMAIN g.images = own
    BY <2>1
  <2>3. \A i \in own : i # 0 /\ Known(s.engine, i)
    BY ImageIds DEF Live, Known
  <2>4. PICK a : a = [s.app EXCEPT !.reg = g]
    OBVIOUS
  <2>11. RegFine(g)
    <3>1. reg.arts \in Nat
      BY <1>1 DEF IsState, EngineOK
    <3>2. CASE reg.cursor < Len(registry_selectable(reg))
      <4>1. g = reg
        BY <2>1, <3>2
      <4> HIDE DEF reg
      <4> QED  BY <3>1, <3>2, <4>1 DEF RegFine, InList0
    <3>3. CASE ~(reg.cursor < Len(registry_selectable(reg)))
      <4>1. g = [reg EXCEPT !.cursor = 0]
        BY <2>1, <3>3
      <4>2. g.arts = reg.arts /\ g.cursor = 0
        BY <4>1
      <4> HIDE DEF reg
      <4> QED  BY <3>1, <4>2 DEF RegFine, InList0
    <3> QED  BY <3>2, <3>3
  <2> HIDE DEF own, kept
  <2>5. AppIs(a, s.app.active, s.app.loaded, s.app.view, s.app.focus, s.app.tree, g, s.app.forms, s.app.nvar)
    BY <1>1, <2>4, AppParts
  <2>6. AppOK(a)
    BY <1>1, <2>2, <2>5, <2>11 DEF AppOK, AppIs
  <2>7. r.s = SetApp(s, a)
    BY <1>5, <2>1, <2>4 DEF Ok
  <2>8. Are(r.s, s.engine, s.client, s.disk, a, s.note)
    BY <1>1, <2>7, AppSetParts
  <2>9. \A i \in DOMAIN a.reg.images : i # 0 /\ Known(s.engine, i)
    BY <2>2, <2>3, <2>5 DEF AppIs
  <2>10. a.active = s.app.active /\ a.forms = s.app.forms /\ a.nvar = s.app.nvar /\ a.tree = s.app.tree /\ a.view = s.app.view
    BY <2>5 DEF AppIs
  <2> QED  BY <2>6, <2>7, <2>8, <2>9, <2>10, AppSet DEF Are
<1> QED  BY <1>2, <1>3, <1>4, <1>5

(* Another tree of the active image, or the same image's tree. *)
LEMMA TreeSet ==
  ASSUME NEW s, Base(s), NEW t, IsTree(t)
  PROVE  /\ Base(SetTree(s, t))
         /\ Agree(s) => Agree(SetTree(s, t))
         /\ Saved(s) => Saved(SetTree(s, t))
         /\ t.of = s.app.tree.of /\ TreeOK(s) => TreeOK(SetTree(s, t))
         /\ t.of = s.app.active => TreeOK(SetTree(s, t))
         /\ \E a : /\ Are(SetTree(s, t), s.engine, s.client, s.disk, a, s.note)
                   /\ AppIs(a, s.app.active, s.app.loaded, s.app.view, s.app.focus, t, s.app.reg, s.app.forms, s.app.nvar)
<1>1. IsState(s) /\ AppOK(s.app)
  BY DEF Base, IsState
<1>2. PICK a : a = [s.app EXCEPT !.tree = t]
  OBVIOUS
<1>3. AppIs(a, s.app.active, s.app.loaded, s.app.view, s.app.focus, t, s.app.reg, s.app.forms, s.app.nvar)
  BY <1>1, <1>2, AppParts
<1>4. AppOK(a)
  BY <1>1, <1>3 DEF AppOK, AppIs
<1>5. SetTree(s, t) = SetApp(s, a)
  BY <1>2 DEF SetTree
<1>6. Are(SetApp(s, a), s.engine, s.client, s.disk, a, s.note)
  BY <1>1, AppSetParts
<1>7. /\ Base(SetApp(s, a))
      /\ Agree(s) => Agree(SetApp(s, a))
      /\ Saved(s) => Saved(SetApp(s, a))
      /\ a.tree.of = s.app.tree.of /\ TreeOK(s) => TreeOK(SetApp(s, a))
  BY <1>3, <1>4, AppSet DEF AppIs, Base, NamesKnown
<1>8. t.of = s.app.active => TreeOK(SetApp(s, a))
  BY <1>3, <1>6 DEF TreeOK, Are, AppIs
<1> QED  BY <1>3, <1>5, <1>6, <1>7, <1>8 DEF AppIs

(* refresh_tree leaves a tree of the active image, or the tree it found. *)
LEMMA TreeFetched ==
  ASSUME NEW s, Base(s), Agree(s), Saved(s), NEW r \in refresh_tree(s)
  PROVE  /\ Base(r.s) /\ Agree(r.s) /\ Saved(r.s) /\ r.err \in {"no", "error"}
         /\ TreeOK(s) => TreeOK(r.s)
         /\ r.err = "no" => r.s.app.tree.of = r.s.app.active
         /\ r.s.engine = s.engine
<1>1. IsState(s)
  BY DEF Base
<1>2. CASE r \in Err(s)
  BY <1>2 DEF Err
<1>3. CASE r \notin Err(s)
  <2> DEFINE Shown(q) ==
        LET old == s.app.tree
            new == build_tree(s.client.active, q.val)
            t   == [new EXCEPT !.cursor = old.cursor,
                               !.expanded = @ \cup {p \in old.expanded : \E n \in Range(Nodes(new)) : n.path = p}]
        IN  Followed(t, selected(old).path)
  <2>1. PICK q \in fetch(s, s.client.active) : IF q.err = "no" THEN r \in Ok(SetTree(q.s, Shown(q)), 0) ELSE r = q
    <3>1. refresh_tree(s) = UNION {IF q.err = "no" THEN Ok(SetTree(q.s, Shown(q)), 0) ELSE {q} : q \in fetch(s, s.client.active)}
      BY <1>3 DEF refresh_tree, Then, Followed
    <3> HIDE DEF Shown
    <3> QED  BY <3>1
  <2>2. PICK t : t = Shown(q)
    OBVIOUS
  <2>3. q.err = "no" => IsTree(t) /\ t.of = s.client.active
    <3> SUFFICES ASSUME q.err = "no" PROVE IsTree(t) /\ t.of = s.client.active
      OBVIOUS
    <3>1. q.val \in Contents
      BY <1>1, <2>1, FetchOutcome DEF Live, IsState, EngineOK, IsImage
    <3>2. PICK new : new = build_tree(s.client.active, q.val)
      OBVIOUS
    <3>3. PICK x, y : x = s.app.tree.cursor /\ y = new.expanded \cup {p \in s.app.tree.expanded : \E n \in Range(Nodes(new)) : n.path = p}
      BY Zenon
    <3>4. PICK u : u = [new EXCEPT !.cursor = x, !.expanded = y]
      OBVIOUS
    <3>5. t = Followed(u, selected(s.app.tree).path)
      BY <2>2, <3>2, <3>3, <3>4
    <3>6. /\ DOMAIN u = {"of", "content", "expanded", "cursor"} /\ u.content = q.val
          /\ u.cursor = x /\ u.of = s.client.active
      BY <3>2, <3>4 DEF build_tree
    <3>7. x \in Nat
      BY <1>1, <3>3 DEF IsState, AppOK, IsTree, TreeFine
    <3> HIDE DEF Shown
    <3> QED  BY <3>1, <3>5, <3>6, <3>7, TreeFollowed
  <2> HIDE DEF Shown
  <2>4. \/ q.err = "error" /\ Alike(s, q.s)
        \/ q.err = "no" /\ q.s = s
    BY <1>1, <2>1, FetchOutcome
  <2>5. CASE q.err = "error"
    BY <2>1, <2>4, <2>5, AlikeGood DEF Alike
  <2>6. CASE q.err = "no"
    <3>1. r.s = SetTree(s, t) /\ r.err = "no"
      BY <2>1, <2>2, <2>4, <2>6 DEF Ok
    <3>2. IsTree(t) /\ t.of = s.app.active
      BY <2>3, <2>6 DEF Agree
    <3>3. r.s.engine = s.engine /\ r.s.app.tree.of = r.s.app.active
      BY <3>1, <3>2, TreeSet DEF Are, AppIs
    <3> QED  BY <3>1, <3>2, <3>3, TreeSet
  <2> QED  BY <2>4, <2>5, <2>6
<1> QED  BY <1>2, <1>3

(* A state that differs in a flag of the history only. *)
LEMMA NotedBase ==
  ASSUME NEW s, Base(s), NEW t, NEW u, NEW l, NEW f, Noting(s, t, u, l, f, s.note.pane), ~f => ~s.note.forms
  PROVE  Base(t) /\ (Agree(s) => Agree(t))
<1>1. IsState(t)
  BY DEF Base, IsState, Noting, NoteIs, Are
<1> QED  BY <1>1 DEF Base, NamesKnown, FormsCurrent, Here, PaneOf, Live, Agree, Noting, NoteIs, Are

(* Errors of the write are ignored, and remembered. *)
LEMMA StatePersisted ==
  ASSUME NEW s, Base(s), NEW r \in persist_state_best_effort(s)
  PROVE  /\ Base(r.s) /\ Saved(r.s) /\ r.s.engine = s.engine /\ r.s.app = s.app /\ r.s.client = s.client
         /\ r.s.note.upload = s.note.upload /\ r.s.note.forms = s.note.forms
         /\ r.err = "no"
<1>1. PICK q \in write_state(s) : r \in Ok(q.s, 0)
  BY DEF persist_state_best_effort, After
<1>2. r.s = q.s /\ r.err = "no"
  BY <1>1 DEF Ok
<1> QED  BY <1>1, <1>2, WriteState

(* The two copies of the active image change together. *)
LEMMA ActiveParts ==
  ASSUME NEW s, IsState(s), NEW i
  PROVE  \E a, c : /\ Are(SetActive(s, i), s.engine, c, s.disk, a, s.note) /\ IsClient(c) /\ c.active = i
                   /\ c.sess = s.client.sess
                   /\ AppIs(a, i, s.app.loaded, s.app.view, s.app.focus, s.app.tree, s.app.reg, s.app.forms, s.app.nvar)
<1>1. PICK a : a = [s.app EXCEPT !.active = i]
  OBVIOUS
<1>2. AppIs(a, i, s.app.loaded, s.app.view, s.app.focus, s.app.tree, s.app.reg, s.app.forms, s.app.nvar)
  BY <1>1, AppParts DEF IsState
<1>3. PICK c : c = [s.client EXCEPT !.active = i]
  OBVIOUS
<1>4. IsClient(c) /\ c.active = i /\ c.sess = s.client.sess
  BY <1>3 DEF IsState, IsClient
<1>5. PICK t : t = [s EXCEPT !.app = a, !.client = c]
  OBVIOUS
<1>6. Are(t, s.engine, c, s.disk, a, s.note)
  BY <1>5 DEF IsState, StateFields, Are
<1>7. SetActive(s, i) = t
  BY <1>1, <1>3, <1>5 DEF SetActive
<1> QED  BY <1>2, <1>4, <1>6, <1>7

(* An image becomes the active one: the forms that are kept are its own,   *)
(* or none, or known to be another's.                                      *)
LEMMA ActiveSet ==
  ASSUME NEW s, Base(s), NEW i, Known(s.engine, i), s.app.view = "Forms" => i # 0,
         i = s.app.active \/ s.note.forms \/ i = 0 \/ Sources(s.app.forms) \subseteq {Nowhere}
  PROVE  /\ Base(SetActive(s, i)) /\ Agree(SetActive(s, i))
         /\ SetActive(s, i).engine = s.engine /\ SetActive(s, i).disk = s.disk /\ SetActive(s, i).note = s.note
         /\ SetActive(s, i).app.active = i /\ SetActive(s, i).app.tree = s.app.tree
         /\ IsClient(SetActive(s, i).client)
         /\ SetActive(s, i).client.active = i /\ SetActive(s, i).client.sess = s.client.sess
<1>1. PICK t : t = SetActive(s, i)
  OBVIOUS
<1>2. PICK a, c : /\ Are(t, s.engine, c, s.disk, a, s.note) /\ IsClient(c) /\ c.active = i /\ c.sess = s.client.sess
                  /\ AppIs(a, i, s.app.loaded, s.app.view, s.app.focus, s.app.tree, s.app.reg, s.app.forms, s.app.nvar)
  BY <1>1, ActiveParts DEF Base
<1>3. AppOK(a)
  BY <1>2 DEF Base, IsState, AppOK, AppIs
<1>4. IsState(t)
  BY <1>2, <1>3 DEF Base, IsState, Are
<1>5. NamesKnown(t) /\ PaneOf(t)
  BY <1>2 DEF Base, NamesKnown, PaneOf, Live, Are, AppIs
<1>6. FormsCurrent(t)
  BY <1>2 DEF Base, FormsCurrent, Here, Are, AppIs
<1> QED  BY <1>1, <1>2, <1>4, <1>5, <1>6 DEF Base, Agree, Are, AppIs

(* show: the image is the active one, and the tree is its tree. *)
LEMMA Shown ==
  ASSUME NEW s, Good(s), NEW i, NEW r \in show(s, i)
  PROVE  /\ Good(r.s) /\ r.s.engine = s.engine
         /\ r.err = "no" => r.s.app.active = i
<1> DEFINE At(q) == SetActive(FormsNoted(UploadNoted(SetTree(q.s, build_tree(i, q.val)), FALSE),
                                          s.note.forms \/ s.app.active # i), i)
<1>1. PICK q \in fetch(s, i) : IF q.err = "no" THEN r \in persist_state_best_effort(At(q)) ELSE r = q
  BY DEF show, Then
<1>2. \/ q.err = "error" /\ Alike(s, q.s)
      \/ q.err = "no" /\ q.s = s /\ Live(s, i)
  BY <1>1, FetchOutcome DEF Good, Base
<1>3. CASE q.err = "error"
  BY <1>1, <1>2, <1>3, AlikeGood DEF Alike
<1>4. CASE q.err = "no"
  <2>1. PICK v : v = build_tree(i, q.val)
    OBVIOUS
  <2>2. IsTree(v) /\ v.of = i
    <3>1. q.val \in Contents
      BY <1>1, <1>4, FetchOutcome DEF Good, Base, Live, IsState, EngineOK, IsImage
    <3> QED  BY <2>1, <3>1, TreeBuilt
  <2>3. PICK t : t = SetTree(s, v)
    OBVIOUS
  <2>4. Base(t) /\ Saved(t)
    BY <2>2, <2>3, TreeSet DEF Good
  <2>5. PICK a : /\ Are(t, s.engine, s.client, s.disk, a, s.note)
                 /\ AppIs(a, s.app.active, s.app.loaded, s.app.view, s.app.focus, v, s.app.reg, s.app.forms, s.app.nvar)
    BY <2>2, <2>3, TreeSet DEF Good
  <2>6. PICK u : u = UploadNoted(t, FALSE)
    OBVIOUS
  <2>7. Noting(t, u, t.note.unsaved, FALSE, t.note.forms, t.note.pane)
    BY <2>4, <2>6, Notes DEF Base
  <2>8. Base(u)
    BY <2>4, <2>7, NotedBase
  <2>9. PICK b : b = (s.note.forms \/ s.app.active # i)
    OBVIOUS
  <2>10. PICK w : w = FormsNoted(u, b)
    OBVIOUS
  <2>11. Noting(u, w, u.note.unsaved, u.note.upload, b, u.note.pane)
    BY <2>8, <2>10, Notes DEF Base
  <2>12. /\ u.engine = s.engine /\ u.app = a /\ (~b => ~u.note.forms)
         /\ w.engine = s.engine /\ w.app = a /\ w.note.forms = b
    <3>1. u.engine = s.engine /\ u.app = a /\ u.note.forms = s.note.forms
      BY <2>5, <2>7, Zenon DEF Noting, NoteIs, Are
    <3>2. w.engine = u.engine /\ w.app = u.app /\ w.note.forms = b
      BY <2>11, Zenon DEF Noting, NoteIs, Are
    <3>3. ~b => ~s.note.forms
      BY <2>9
    <3> QED  BY <3>1, <3>2, <3>3, Zenon
  <2>13. Base(w)
    BY <2>8, <2>11, <2>12, NotedBase
  <2>14. ~w.note.upload
    BY <2>7, <2>11 DEF Noting, NoteIs
  <2>15. i # 0 /\ Known(w.engine, i) /\ (i = w.app.active \/ w.note.forms)
    BY <1>2, <1>4, <2>5, <2>9, <2>12, ImageIds DEF Live, Known, AppIs
  <2>16. PICK x : x = SetActive(w, i)
    OBVIOUS
  <2>17. Base(x) /\ Agree(x) /\ x.engine = s.engine /\ x.app.active = i /\ x.app.tree = v
    BY <2>5, <2>12, <2>13, <2>15, <2>16, ActiveSet DEF AppIs
  <2>18. x = At(q)
    BY <1>2, <1>4, <2>1, <2>3, <2>6, <2>9, <2>10, <2>16
  <2>19. r \in persist_state_best_effort(x)
    BY <1>1, <1>4, <2>18
  <2>20. Base(r.s) /\ Saved(r.s) /\ r.s.engine = x.engine /\ r.s.app = x.app /\ r.s.client = x.client
    BY <2>17, <2>19, StatePersisted
  <2>21. Agree(r.s) /\ TreeOK(r.s)
    BY <2>2, <2>17, <2>20 DEF Agree, TreeOK
  <2> QED  BY <2>17, <2>20, <2>21 DEF Good
<1> QED  BY <1>2, <1>3, <1>4

(***************************************************************************)
(* The forms view.                                                         *)
(***************************************************************************)
ListKept(f, g) ==
  /\ g.forms = f.forms /\ g.edges = f.edges /\ g.flat = f.flat /\ g.expanded = f.expanded
  /\ g.cursor = f.cursor /\ g.focus = f.focus

QuestionsKept(f, g) == g.qfrom = f.qfrom /\ g.qkey = f.qkey /\ g.qcursor = f.qcursor

BrowsersKept(f, g) ==
  g.strings = f.strings /\ g.stores = f.stores /\ g.scursor = f.scursor /\ g.vcursor = f.vcursor

(* The rows depend on the forms, the mode and what is open. *)
LEMMA FormsRowsSame ==
  ASSUME NEW f, NEW g, g.forms = f.forms, g.edges = f.edges, g.flat = f.flat, g.expanded = f.expanded
  PROVE  forms_rows(g) = forms_rows(f)
BY Zenon DEF forms_rows

(* What is left alone stays as fine as it was. *)
LEMMA Kept ==
  ASSUME NEW f, NEW g
  PROVE  /\ ListKept(f, g) /\ ListFine(f) => ListFine(g)
         /\ QuestionsKept(f, g) /\ QuestionsFine(f) => QuestionsFine(g)
         /\ BrowsersKept(f, g) /\ BrowsersFine(f) => BrowsersFine(g)
<1>1. ASSUME ListKept(f, g), ListFine(f) PROVE ListFine(g)
  <2>1. forms_rows(g) = forms_rows(f)
    BY <1>1, FormsRowsSame DEF ListKept
  <2> QED  BY <1>1, <2>1 DEF ListFine, ListKept
<1>2. ASSUME QuestionsKept(f, g), QuestionsFine(f) PROVE QuestionsFine(g)
  BY <1>2 DEF QuestionsKept, QuestionsFine
<1>3. ASSUME BrowsersKept(f, g), BrowsersFine(f) PROVE BrowsersFine(g)
  BY <1>3 DEF BrowsersKept, BrowsersFine, StringCount, StoreCount
<1> QED  BY <1>1, <1>2, <1>3

(* The rows of a view are a list. *)
LEMMA RowsCounted ==
  ASSUME NEW f, IsList(f.forms), IsList(f.edges)
  PROVE  Len(forms_rows(f)) \in Nat /\ DOMAIN forms_rows(f) = 1..Len(forms_rows(f))
<1>1. PICK rows, T : rows = forms_rows(f) /\ rows \in Seq(T)
  BY FormsRowsAre
<1> QED  BY <1>1

(* A cursor on one of the rows. *)
LEMMA ListAt ==
  ASSUME NEW f, IsList(f.forms), IsList(f.edges), f.focus \in {"List", "Details"},
         NEW c \in Nat, InList0(c, Len(forms_rows(f))),
         NEW g, g.forms = f.forms, g.edges = f.edges, g.flat = f.flat, g.expanded = f.expanded, g.focus = f.focus,
         g.cursor = c
  PROVE  ListFine(g)
<1>1. forms_rows(g) = forms_rows(f)
  BY FormsRowsSame
<1> QED  BY <1>1 DEF ListFine

(* What is listed of a content. *)
LEMMA ContentListed ==
  ASSUME NEW c \in Contents
  PROVE  /\ IsList(Library[c].forms) /\ IsList(Library[c].edges)
         /\ Library[c].strings \in Nat /\ Library[c].stores \in Nat
BY ListingAssumption DEF Contents, IsList

(* What the forms view asks for is asked of the active image. *)
LEMMA FormsFetched ==
  ASSUME NEW s, Good(s), NEW r \in forms_fetch(s)
  PROVE  /\ Good(r.s) /\ r.err \in {"no", "error"}
         /\ r.err = "no" => /\ r.s = s /\ s.app.active # 0 /\ FormsImage(s) = s.app.active
                            /\ r.val \in Contents /\ <<FormsImage(s), r.val>> = Here(s)
<1>1. IsState(s) /\ EngineOK(s.engine) /\ Known(s.engine, s.app.active) /\ s.app.active = s.client.active
  BY DEF Good, Base, IsState, NamesKnown, Agree
<1>2. FormsImage(s) = s.app.active
  BY <1>1 DEF FormsImage
<1>3. CASE r \in Err(s)
  BY <1>3 DEF Err
<1>4. CASE r \notin Err(s)
  <2>1. r \in fetch(s, s.app.active) /\ s.app.active # 0
    BY <1>2, <1>4 DEF forms_fetch
  <2>2. \/ r.err = "error" /\ Alike(s, r.s)
        \/ r.err = "no" /\ r.s = s /\ Live(s, s.app.active) /\ r.val = s.engine.img[s.app.active].content
    BY <1>1, <2>1, FetchOutcome
  <2>3. r.err = "no" => r.val \in Contents
    BY <1>1, <2>1, <2>2 DEF Live, Known, EngineOK, IsImage
  <2>4. Good(r.s)
    BY <2>2, AlikeGood
  <2> QED  BY <1>2, <2>1, <2>2, <2>3, <2>4 DEF Here
<1> QED  BY <1>3, <1>4

(* refresh_forms: everything that is shown is of the active image. *)
LEMMA FormsRefreshed ==
  ASSUME NEW s, Good(s), NEW r \in refresh_forms(s)
  PROVE  Good(r.s) /\ r.err \in {"no", "error"}
         /\ (r.err = "no" => r.s.app.active # 0)
<1> DEFINE Fresh(q) == [NoForms EXCEPT !.from = <<FormsImage(s), q.val>>, !.forms = Library[q.val].forms,
                              !.edges = Library[q.val].edges,
                              !.expanded = all_row_keys(Library[q.val].forms, Library[q.val].edges), !.flat = s.app.forms.flat,
                              !.focus = s.app.forms.focus, !.qcursor = s.app.forms.qcursor]
           New(q) == FormsNoted(SetForms(q.s, Fresh(q)), FALSE)
           Second(p) == UNION {IF q.err = "no" THEN Ok(New(q), 0) ELSE {q} : q \in forms_fetch(p.s)}
<1>1. refresh_forms(s) = UNION {IF p.err = "no" THEN Second(p) ELSE {p} : p \in forms_fetch(s)}
  BY DEF refresh_forms, Then
<1>2. PICK p \in forms_fetch(s) : IF p.err = "no" THEN r \in Second(p) ELSE r = p
  <2> HIDE DEF Second
  <2> QED  BY <1>1
<1>3. CASE p.err # "no"
  BY <1>2, <1>3, FormsFetched
<1>4. CASE p.err = "no"
  <2>1. p.s = s
    BY <1>2, <1>4, FormsFetched
  <2>2. PICK q \in forms_fetch(s) : IF q.err = "no" THEN r \in Ok(New(q), 0) ELSE r = q
    <3> HIDE DEF New
    <3> QED  BY <1>2, <1>4, <2>1
  <2>3. CASE q.err # "no"
    BY <2>2, <2>3, FormsFetched
  <2>4. CASE q.err = "no"
    <3>1. q.s = s /\ s.app.active # 0 /\ q.val \in Contents /\ <<FormsImage(s), q.val>> = Here(s)
      BY <2>2, <2>4, FormsFetched
    <3>2. PICK f : f = Fresh(q)
      OBVIOUS
    <3>3. s.app.forms.qcursor \in Nat /\ s.app.forms.focus \in {"List", "Details"}
      BY DEF Good, Base, IsState, AppOK, FormsOK, ListFine
    <3>4. /\ DOMAIN f = DOMAIN NoForms /\ f.from = Here(s) /\ f.qfrom = Nowhere /\ f.qcursor = s.app.forms.qcursor
          /\ f.info = NoForms.info /\ f.value = NoForms.value
          /\ f.forms = Library[q.val].forms /\ f.edges = Library[q.val].edges /\ f.cursor = 0 /\ f.focus = s.app.forms.focus
          /\ f.qkey = NoKey /\ f.strings = Nowhere /\ f.stores = Nowhere /\ f.scursor = 0 /\ f.vcursor = 0
      BY <3>1, <3>2 DEF NoForms
    <3>5. FormsOK(f)
      <4> HIDE DEF Fresh, New, Second
      <4>1. ListFine(f)
        BY <3>1, <3>3, <3>4, ContentListed DEF ListFine, InList0
      <4>2. QuestionsFine(f) /\ BrowsersFine(f)
        BY <3>4 DEF QuestionsFine, BrowsersFine, InList0
      <4>3. OfAForm(f.info) /\ OfAForm(f.value)
        BY <3>4 DEF NoForms, OfAForm
      <4> QED  BY <3>3, <3>4, <4>1, <4>2, <4>3 DEF FormsOK, NoForms
    <3>6. Sources(f) \subseteq {Nowhere, Here(s)}
      BY <3>4 DEF Sources, NoForms
    <3>7. PICK t : t = FormsNoted(SetForms(s, f), FALSE)
      OBVIOUS
    <3>8. Good(t)
      BY <3>1, <3>5, <3>6, <3>7, FormsReset
    <3>9. r.s = t /\ r.err = "no"
      <4> HIDE DEF Fresh
      <4>1. New(q) = t
        BY <3>1, <3>2, <3>7, Zenon
      <4> HIDE DEF New
      <4> QED  BY <2>2, <2>4, <4>1 DEF Ok
    <3>10. t.app.active = s.app.active
      <4>1. PICK u : u = SetForms(s, f)
        OBVIOUS
      <4>2. PICK a : a = [s.app EXCEPT !.forms = f]
        OBVIOUS
      <4>3. a.active = s.app.active
        BY <4>2, AppParts DEF Good, Base, IsState, AppIs
      <4>4. Are(u, s.engine, s.client, s.disk, a, s.note)
        BY <4>1, <4>2, AppSetParts DEF Good, Base, SetForms
      <4>5. IsState(u)
        BY <4>1, <3>5, <3>6, FormsSet DEF Good, Base
      <4>6. t.app = u.app
        BY <3>7, <4>1, <4>5, Notes DEF Noting, Are
      <4> QED  BY <4>3, <4>4, <4>6 DEF Are
    <3> QED  BY <3>1, <3>8, <3>9, <3>10
  <2> QED  BY <2>3, <2>4
<1> QED  BY <1>3, <1>4

(* The cursor follows its form, or stays in the list. *)
LEMMA RowReselected ==
  ASSUME NEW g, IsList(g.forms), IsList(g.edges), g.cursor \in Nat, NEW key
  PROVE  \E c \in Nat : Reloaded(g, key) = [g EXCEPT !.cursor = c] /\ InList0(c, Len(forms_rows(g)))
<1>1. PICK rows : rows = forms_rows(g)
  OBVIOUS
<1>2. PICK n \in Nat : n = Len(rows) /\ DOMAIN rows = 1..n
  BY <1>1, RowsCounted
<1>3. PICK A : A = {i \in DOMAIN rows : key # NoKey /\ rows[i].kind = "form" /\ FormKey(rows[i]) = key}
  BY Zenon
<1>4. PICK at : at = FirstIn(A)
  OBVIOUS
<1>5. at \in -1..(n - 1)
  <2>1. A \subseteq 1..n
    BY <1>2, <1>3
  <2> QED  BY <1>4, <2>1, FoundAt
<1>6. Position(rows, LAMBDA row : key # NoKey /\ row.kind = "form" /\ FormKey(row) = key) = at
  BY <1>3, <1>4 DEF Position, FirstIn
<1>7. Reloaded(g, key) = [g EXCEPT !.cursor = IF at # -1 THEN at ELSE Clamp(g.cursor, n)]
  BY <1>1, <1>2, <1>6 DEF Reloaded, Reselected
<1>8. CASE at # -1
  <2>1. at \in Nat /\ InList0(at, n)
    BY <1>5, <1>8 DEF InList0
  <2> QED  BY <1>1, <1>2, <1>7, <1>8, <2>1
<1>9. CASE at = -1
  <2>1. Clamp(g.cursor, n) \in Nat /\ InList0(Clamp(g.cursor, n), n)
    BY Clamped
  <2> QED  BY <1>1, <1>2, <1>7, <1>9, <2>1
<1> QED  BY <1>8, <1>9

(* reload_forms likewise; the browsers of strings and stores are kept. *)
LEMMA FormsReloaded ==
  ASSUME NEW s, Good(s), NEW r \in reload_forms(s)
  PROVE  Good(r.s)
<1> DEFINE Fresh(q) == Reloaded([s.app.forms EXCEPT !.from = <<FormsImage(s), q.val>>,
                       !.forms = Library[q.val].forms, !.edges = Library[q.val].edges,
                       !.qkey = NoKey, !.qfrom = Nowhere, !.qcursor = 0,
                       !.info = NoForms.info, !.value = NoForms.value, !.vtarget = NoSet],
                   selected_form_key(s.app.forms))
           New(q) == FormsNoted(SetForms(q.s, Fresh(q)), FALSE)
           Second(p) == UNION {IF q.err = "no" THEN Ok(New(q), 0) ELSE {q} : q \in forms_fetch(p.s)}
<1>1. reload_forms(s) = UNION {IF p.err = "no" THEN Second(p) ELSE {p} : p \in forms_fetch(s)}
  BY DEF reload_forms, Then
<1>2. PICK p \in forms_fetch(s) : IF p.err = "no" THEN r \in Second(p) ELSE r = p
  <2> HIDE DEF Second
  <2> QED  BY <1>1
<1>3. CASE p.err # "no"
  BY <1>2, <1>3, FormsFetched
<1>4. CASE p.err = "no"
  <2>1. p.s = s
    BY <1>2, <1>4, FormsFetched
  <2>2. PICK q \in forms_fetch(s) : IF q.err = "no" THEN r \in Ok(New(q), 0) ELSE r = q
    <3> HIDE DEF New
    <3> QED  BY <1>2, <1>4, <2>1
  <2>3. CASE q.err # "no"
    BY <2>2, <2>3, FormsFetched
  <2>4. CASE q.err = "no"
    <3>1. q.s = s /\ s.app.active # 0 /\ q.val \in Contents /\ <<FormsImage(s), q.val>> = Here(s)
      BY <2>2, <2>4, FormsFetched
    <3>2. PICK g : g = [s.app.forms EXCEPT !.from = <<FormsImage(s), q.val>>,
                       !.forms = Library[q.val].forms, !.edges = Library[q.val].edges,
                       !.qkey = NoKey, !.qfrom = Nowhere, !.qcursor = 0,
                       !.info = NoForms.info, !.value = NoForms.value, !.vtarget = NoSet]
      OBVIOUS
    <3>3. FormsOK(s.app.forms)
      BY DEF Good, Base, IsState, AppOK
    <3>4. /\ DOMAIN g = DOMAIN s.app.forms /\ g.from = Here(s) /\ g.qfrom = Nowhere /\ g.qcursor = 0 /\ g.qkey = NoKey
          /\ g.info = NoForms.info /\ g.value = NoForms.value
          /\ g.forms = Library[q.val].forms /\ g.edges = Library[q.val].edges
          /\ g.cursor = s.app.forms.cursor /\ g.focus = s.app.forms.focus /\ BrowsersKept(s.app.forms, g)
      BY <3>1, <3>2, <3>3 DEF FormsOK, BrowsersKept
    <3>5. PICK f : f = Fresh(q)
      OBVIOUS
    <3>6. PICK key : key = selected_form_key(s.app.forms)
      OBVIOUS
    <3>7. f = Reloaded(g, key)
      BY <3>2, <3>5, <3>6
    <3> HIDE DEF Fresh, New, Second
    <3>8. FormsOK(f) /\ f.from = Here(s) /\ f.qfrom = Nowhere /\ f.info = NoForms.info /\ f.value = NoForms.value
      <4>1. IsList(g.forms) /\ IsList(g.edges) /\ g.cursor \in Nat /\ g.focus \in {"List", "Details"}
        BY <3>1, <3>3, <3>4, ContentListed DEF FormsOK, ListFine
      <4>2. PICK c \in Nat : f = [g EXCEPT !.cursor = c] /\ InList0(c, Len(forms_rows(g)))
        BY <3>7, <4>1, RowReselected
      <4>3. /\ DOMAIN f = DOMAIN g /\ f.from = g.from /\ f.qfrom = g.qfrom /\ f.qcursor = g.qcursor /\ f.qkey = g.qkey
            /\ f.info = g.info /\ f.value = g.value /\ f.cursor = c
            /\ f.forms = g.forms /\ f.edges = g.edges /\ f.flat = g.flat /\ f.expanded = g.expanded /\ f.focus = g.focus
            /\ BrowsersKept(g, f)
        BY <3>3, <3>4, <4>2 DEF FormsOK, BrowsersKept
      <4>4. ListFine(f)
        BY <4>1, <4>2, <4>3, ListAt
      <4>5. QuestionsFine(f)
        BY <3>4, <4>3 DEF QuestionsFine
      <4>6. BrowsersFine(f)
        <5>1. BrowsersKept(s.app.forms, f)
          BY <3>4, <4>3 DEF BrowsersKept
        <5>2. PICK h : h = s.app.forms
          OBVIOUS
        <5> QED  BY <3>3, <5>1, <5>2, Kept DEF FormsOK
      <4>7. OfAForm(f.info) /\ OfAForm(f.value)
        BY <3>4, <4>3 DEF NoForms, OfAForm
      <4>8. FormsOK(f)
        BY <3>3, <3>4, <4>3, <4>4, <4>5, <4>6, <4>7 DEF FormsOK
      <4> QED  BY <3>4, <4>3, <4>8
    <3>9. Sources(f) \subseteq {Nowhere, Here(s)}
      BY <3>8 DEF Sources, NoForms
    <3>10. PICK t : t = FormsNoted(SetForms(s, f), FALSE)
      OBVIOUS
    <3>11. Good(t)
      BY <3>1, <3>8, <3>9, <3>10, FormsReset
    <3>12. r.s = t
      <4> USE DEF New
      <4>1. New(q) = t
        BY <3>1, <3>5, <3>10, Zenon
      <4> HIDE DEF New
      <4> QED  BY <2>2, <2>4, <4>1 DEF Ok
    <3> QED  BY <3>11, <3>12
  <2> QED  BY <2>3, <2>4
<1> QED  BY <1>3, <1>4

(* The question under the cursor is one of a form. *)
LEMMA QuestionAsked ==
  ASSUME NEW f, FormsOK(f), NEW key, QuestionAt(f, key) # 0, NEW from
  PROVE  OfAForm(<<key, QuestionAt(f, key), from>>)
<1>1. key # NoKey /\ f.qkey = key /\ f.qcursor < Len(Asked(f.qfrom, f.qkey))
      /\ QuestionAt(f, key) = Asked(f.qfrom, f.qkey)[f.qcursor + 1]
  BY DEF QuestionAt
<1>2. f.qcursor \in Nat
  BY DEF FormsOK
<1>3. f.qfrom # Nowhere
  BY <1>1, <1>2 DEF Asked
<1>4. PICK c : c = f.qfrom[2]
  OBVIOUS
<1>5. c \in Contents /\ key \in DOMAIN Library[c].asks
  BY <1>1, <1>3, <1>4 DEF FormsOK
<1>6. PICK a : a = Library[c].asks[key]
  OBVIOUS
<1>7. a \in Seq(Nat \ {0})
  BY <1>5, <1>6, LibraryAssumption DEF Contents
<1>8. Asked(f.qfrom, f.qkey) = a
  BY <1>1, <1>3, <1>4, <1>6 DEF Asked
<1>9. f.qcursor + 1 \in DOMAIN a
  BY <1>1, <1>2, <1>7, <1>8
<1>10. QuestionAt(f, key) \in Range(a)
  BY <1>1, <1>8, <1>9 DEF Range
<1> QED  BY <1>5, <1>6, <1>10 DEF OfAForm

(* The questions of a form, of the active image. *)
LEMMA DetailsFetched ==
  ASSUME NEW s, Good(s), NEW key, NEW r \in DetailsOf(s, key)
  PROVE  Good(r.s)
<1> DEFINE Fresh(q) == [s.app.forms EXCEPT !.qkey = key, !.qfrom = <<FormsImage(s), q.val>>,
                                           !.qcursor = 0, !.info = NoForms.info]
           Answer(q) == IF key \notin DOMAIN Library[q.val].asks THEN Err(q.s) ELSE Ok(SetForms(q.s, Fresh(q)), 0)
<1>1. CASE r \in Ok(s, 0)
  BY <1>1 DEF Ok
<1>2. CASE r \notin Ok(s, 0)
  <2>1. DetailsOf(s, key) = UNION {IF q.err = "no" THEN Answer(q) ELSE {q} : q \in forms_fetch(s)}
    BY <1>2 DEF DetailsOf, Then
  <2>2. PICK q \in forms_fetch(s) : IF q.err = "no" THEN r \in Answer(q) ELSE r = q
    <3> HIDE DEF Answer
    <3> QED  BY <2>1
  <2>3. CASE q.err # "no"
    BY <2>2, <2>3, FormsFetched
  <2>4. CASE q.err = "no"
    <3>1. q.s = s /\ s.app.active # 0 /\ q.val \in Contents /\ <<FormsImage(s), q.val>> = Here(s)
      BY <2>2, <2>4, FormsFetched
    <3>2. CASE key \notin DOMAIN Library[q.val].asks
      BY <2>2, <2>4, <3>1, <3>2 DEF Err
    <3>3. CASE key \in DOMAIN Library[q.val].asks
      <4>1. PICK f : f = Fresh(q)
        OBVIOUS
      <4>2. FormsOK(s.app.forms)
        BY DEF Good, Base, IsState, AppOK
      <4>3. /\ DOMAIN f = DOMAIN s.app.forms /\ f.from = s.app.forms.from /\ f.qfrom = <<FormsImage(s), q.val>>
            /\ f.qkey = key /\ f.qcursor = 0
            /\ f.info = NoForms.info /\ f.value = s.app.forms.value
            /\ ListKept(s.app.forms, f) /\ BrowsersKept(s.app.forms, f)
        BY <4>1, <4>2 DEF FormsOK, ListKept, BrowsersKept
      <4>4. f.qfrom[2] = q.val /\ f.qfrom = Here(s)
        BY <3>1, <4>3
      <4>5. OfAForm(f.info)
        BY <4>3 DEF NoForms, OfAForm
      <4>6. FormsOK(f)
        <5> HIDE DEF Fresh, Answer
        <5>1. PICK h : h = s.app.forms
          OBVIOUS
        <5>2. ListFine(f) /\ BrowsersFine(f)
          BY <4>2, <4>3, <5>1, Kept DEF FormsOK
        <5>3. QuestionsFine(f)
          BY <4>3 DEF QuestionsFine, InList0
        <5> QED  BY <3>1, <3>3, <4>2, <4>3, <4>4, <4>5, <5>2, <5>3 DEF FormsOK
      <4>7. Sources(f) \subseteq Sources(s.app.forms) \cup {Nowhere, Here(s)}
        <5>1. f.info[3] = Nowhere
          BY <4>3 DEF NoForms
        <5>2. f.value[3] = s.app.forms.value[3]
          BY <4>3
        <5> HIDE DEF Fresh, Answer
        <5> QED  BY <4>3, <4>4, <5>1, <5>2 DEF Sources
      <4>8. r.s = SetForms(s, f)
        <5> HIDE DEF Fresh
        <5> QED  BY <2>2, <2>4, <3>1, <3>3, <4>1 DEF Ok
      <4> QED  BY <4>6, <4>7, <4>8, FormsSet
    <3> QED  BY <3>2, <3>3
  <2> QED  BY <2>3, <2>4
<1> QED  BY <1>1, <1>2

(* What is fetched for the question under the cursor is that question's.   *)
LEMMA InfoFetched ==
  ASSUME NEW s, Good(s), NEW key, NEW r \in InfoOf(s, key)
  PROVE  Good(r.s)
<1> DEFINE With(x) == [s.app.forms EXCEPT !.info = x]
           Answer(q) == Ok(SetForms(q.s, With(<<key, QuestionAt(s.app.forms, key), <<FormsImage(s), q.val>>>>)), 0)
<1>1. FormsOK(s.app.forms)
  BY DEF Good, Base, IsState, AppOK
<1>2. ASSUME NEW x, OfAForm(x), x[3] \in {Nowhere, Here(s)}
      PROVE  Good(SetForms(s, With(x)))
  <2>1. PICK f : f = With(x)
    OBVIOUS
  <2>2. /\ DOMAIN f = DOMAIN s.app.forms /\ f.from = s.app.forms.from /\ f.qfrom = s.app.forms.qfrom
        /\ f.qkey = s.app.forms.qkey /\ f.qcursor = s.app.forms.qcursor
        /\ f.info = x /\ f.value = s.app.forms.value
        /\ ListKept(s.app.forms, f) /\ QuestionsKept(s.app.forms, f) /\ BrowsersKept(s.app.forms, f)
    BY <1>1, <2>1 DEF FormsOK, ListKept, QuestionsKept, BrowsersKept
  <2>3. FormsOK(f)
    <3> HIDE DEF With, Answer
    <3>1. PICK h : h = s.app.forms
      OBVIOUS
    <3>2. ListFine(f) /\ QuestionsFine(f) /\ BrowsersFine(f)
      BY <1>1, <2>2, <3>1, Kept DEF FormsOK
    <3> QED  BY <1>1, <1>2, <2>2, <3>2 DEF FormsOK
  <2>4. Sources(f) \subseteq Sources(s.app.forms) \cup {Nowhere, Here(s)}
    BY <1>2, <2>2 DEF Sources
  <2> QED  BY <2>1, <2>3, <2>4, FormsSet
<1>3. CASE r \in Ok(s, 0)
  BY <1>3 DEF Ok
<1>4. CASE r \in Ok(SetForms(s, With(NoForms.info)), 0)
  <2>1. PICK x : x = NoForms.info
    OBVIOUS
  <2>2. OfAForm(x) /\ x[3] = Nowhere
    BY <2>1 DEF NoForms, OfAForm
  <2>3. Good(SetForms(s, With(x)))
    BY <1>2, <2>2
  <2> HIDE DEF With
  <2> QED  BY <1>4, <2>1, <2>3 DEF Ok
<1>5. CASE r \notin Ok(s, 0) /\ r \notin Ok(SetForms(s, With(NoForms.info)), 0)
  <2>1. QuestionAt(s.app.forms, key) # 0 /\ InfoOf(s, key) = UNION {IF q.err = "no" THEN Answer(q) ELSE {q} : q \in forms_fetch(s)}
    BY <1>5 DEF InfoOf, Then
  <2>2. PICK q \in forms_fetch(s) : IF q.err = "no" THEN r \in Answer(q) ELSE r = q
    <3> HIDE DEF Answer
    <3> QED  BY <2>1
  <2>3. CASE q.err # "no"
    BY <2>2, <2>3, FormsFetched
  <2>4. CASE q.err = "no"
    <3>1. q.s = s /\ <<FormsImage(s), q.val>> = Here(s)
      BY <2>2, <2>4, FormsFetched
    <3>2. PICK x : x = <<key, QuestionAt(s.app.forms, key), <<FormsImage(s), q.val>>>>
      OBVIOUS
    <3>3. OfAForm(x)
      BY <1>1, <2>1, <3>2, QuestionAsked
    <3>4. x[3] = Here(s)
      BY <3>1, <3>2
    <3>5. Good(SetForms(s, With(x)))
      BY <1>2, <3>3, <3>4
    <3> HIDE DEF With
    <3> QED  BY <2>2, <2>4, <3>1, <3>2, <3>5 DEF Ok
  <2> QED  BY <2>3, <2>4
<1> QED  BY <1>3, <1>4, <1>5

(* The current value likewise. *)
LEMMA ValueFetched ==
  ASSUME NEW s, Good(s), NEW key, NEW r \in CurrentValueOf(s, key)
  PROVE  Good(r.s)
<1> DEFINE With(x) == [s.app.forms EXCEPT !.value = x]
           Answer(q) == Ok(SetForms(q.s, With(<<key, QuestionAt(s.app.forms, key), <<FormsImage(s), q.val>>>>)), 0)
<1>1. FormsOK(s.app.forms)
  BY DEF Good, Base, IsState, AppOK
<1>2. ASSUME NEW x, OfAForm(x), x[3] \in {Nowhere, Here(s)}
      PROVE  Good(SetForms(s, With(x)))
  <2>1. PICK f : f = With(x)
    OBVIOUS
  <2>2. /\ DOMAIN f = DOMAIN s.app.forms /\ f.from = s.app.forms.from /\ f.qfrom = s.app.forms.qfrom
        /\ f.qkey = s.app.forms.qkey /\ f.qcursor = s.app.forms.qcursor
        /\ f.value = x /\ f.info = s.app.forms.info
        /\ ListKept(s.app.forms, f) /\ QuestionsKept(s.app.forms, f) /\ BrowsersKept(s.app.forms, f)
    BY <1>1, <2>1 DEF FormsOK, ListKept, QuestionsKept, BrowsersKept
  <2>3. FormsOK(f)
    <3> HIDE DEF With, Answer
    <3>1. PICK h : h = s.app.forms
      OBVIOUS
    <3>2. ListFine(f) /\ QuestionsFine(f) /\ BrowsersFine(f)
      BY <1>1, <2>2, <3>1, Kept DEF FormsOK
    <3> QED  BY <1>1, <1>2, <2>2, <3>2 DEF FormsOK
  <2>4. Sources(f) \subseteq Sources(s.app.forms) \cup {Nowhere, Here(s)}
    BY <1>2, <2>2 DEF Sources
  <2> QED  BY <2>1, <2>3, <2>4, FormsSet
<1>3. CASE r \in Ok(s, 0)
  BY <1>3 DEF Ok
<1>4. CASE r \in Ok(SetForms(s, With(NoForms.value)), 0)
  <2>1. PICK x : x = NoForms.value
    OBVIOUS
  <2>2. OfAForm(x) /\ x[3] = Nowhere
    BY <2>1 DEF NoForms, OfAForm
  <2>3. Good(SetForms(s, With(x)))
    BY <1>2, <2>2
  <2> HIDE DEF With
  <2> QED  BY <1>4, <2>1, <2>3 DEF Ok
<1>5. CASE r \notin Ok(s, 0) /\ r \notin Ok(SetForms(s, With(NoForms.value)), 0)
  <2>1. QuestionAt(s.app.forms, key) # 0 /\ CurrentValueOf(s, key) = UNION {IF q.err = "no" THEN Answer(q) ELSE {q} : q \in forms_fetch(s)}
    BY <1>5 DEF CurrentValueOf, Then
  <2>2. PICK q \in forms_fetch(s) : IF q.err = "no" THEN r \in Answer(q) ELSE r = q
    <3> HIDE DEF Answer
    <3> QED  BY <2>1
  <2>3. CASE q.err # "no"
    BY <2>2, <2>3, FormsFetched
  <2>4. CASE q.err = "no"
    <3>1. q.s = s /\ <<FormsImage(s), q.val>> = Here(s)
      BY <2>2, <2>4, FormsFetched
    <3>2. PICK x : x = <<key, QuestionAt(s.app.forms, key), <<FormsImage(s), q.val>>>>
      OBVIOUS
    <3>3. OfAForm(x)
      BY <1>1, <2>1, <3>2, QuestionAsked
    <3>4. x[3] = Here(s)
      BY <3>1, <3>2
    <3>5. Good(SetForms(s, With(x)))
      BY <1>2, <3>3, <3>4
    <3> HIDE DEF With
    <3> QED  BY <2>2, <2>4, <3>1, <3>2, <3>5 DEF Ok
  <2> QED  BY <2>3, <2>4
<1> QED  BY <1>3, <1>4, <1>5

(* Both are fetched after the cursor has moved. *)
LEMMA QuestionFetched ==
  ASSUME NEW s, Good(s), NEW r \in refresh_question(s)
  PROVE  Good(r.s)
<1>1. PICK q \in InfoOf(s, selected_form_key(s.app.forms)) : r \in CurrentValueOf(q.s, selected_form_key(q.s.app.forms))
  BY DEF refresh_question, After, refresh_question_info_if_needed, refresh_current_value_if_needed
<1>2. PICK key : key = selected_form_key(s.app.forms)
  OBVIOUS
<1>3. Good(q.s)
  BY <1>1, <1>2, InfoFetched
<1>4. PICK k : k = selected_form_key(q.s.app.forms)
  OBVIOUS
<1> QED  BY <1>1, <1>3, <1>4, ValueFetched

(* refresh_form_details_if_needed, its error ignored. *)
LEMMA Detailed ==
  ASSUME NEW s, Good(s), NEW r \in details(s)
  PROVE  Good(r.s) /\ r.err = "no"
<1>1. PICK key : key = selected_form_key(s.app.forms)
  OBVIOUS
<1>2. PICK q \in DetailsOf(s, key) : r \in Ok(q.s, 0)
  BY <1>1 DEF details, After, refresh_form_details_if_needed
<1>3. Good(q.s)
  BY <1>2, DetailsFetched
<1> QED  BY <1>2, <1>3 DEF Ok

(* Changes of the forms view that are about neither forms nor questions. *)
LEMMA FormsMoved ==
  ASSUME NEW s, Good(s), NEW f, DOMAIN f = DOMAIN s.app.forms, f.from = s.app.forms.from,
         f.qfrom = s.app.forms.qfrom, f.qkey = s.app.forms.qkey, f.qcursor \in Nat,
         f.info = s.app.forms.info, f.value = s.app.forms.value, ListFine(f), QuestionsFine(f), BrowsersFine(f)
  PROVE  Good(SetForms(s, f))
<1>1. FormsOK(s.app.forms)
  BY DEF Good, Base, IsState, AppOK
<1>2. FormsOK(f)
  BY <1>1 DEF FormsOK
<1>3. Sources(f) \subseteq Sources(s.app.forms)
  BY DEF Sources
<1> QED  BY <1>2, <1>3, FormsSet

(* The strings browser. *)
LEMMA StringsFetched ==
  ASSUME NEW s, Good(s), NEW r \in refresh_strings(s)
  PROVE  Good(r.s)
<1> DEFINE Fresh(q) == [s.app.forms EXCEPT !.strings = <<FormsImage(s), q.val>>, !.scursor = 0]
<1>1. PICK q \in forms_fetch(s) : IF q.err = "no" THEN r \in Ok(SetForms(q.s, Fresh(q)), 0) ELSE r = q
  <2>1. refresh_strings(s) = UNION {IF q.err = "no" THEN Ok(SetForms(q.s, Fresh(q)), 0) ELSE {q} : q \in forms_fetch(s)}
    BY DEF refresh_strings, Then
  <2> HIDE DEF Fresh
  <2> QED  BY <2>1
<1>2. CASE q.err # "no"
  BY <1>1, <1>2, FormsFetched
<1>3. CASE q.err = "no"
  <2>1. q.s = s /\ q.val \in Contents
    BY <1>1, <1>3, FormsFetched
  <2>2. PICK f : f = Fresh(q)
    OBVIOUS
  <2>3. FormsOK(s.app.forms)
    BY DEF Good, Base, IsState, AppOK
  <2>4. /\ DOMAIN f = DOMAIN s.app.forms /\ f.from = s.app.forms.from /\ f.qfrom = s.app.forms.qfrom
        /\ f.qkey = s.app.forms.qkey /\ f.qcursor = s.app.forms.qcursor
        /\ f.info = s.app.forms.info /\ f.value = s.app.forms.value
        /\ f.strings = <<FormsImage(s), q.val>> /\ f.scursor = 0 /\ f.stores = s.app.forms.stores /\ f.vcursor = s.app.forms.vcursor
        /\ ListKept(s.app.forms, f) /\ QuestionsKept(s.app.forms, f)
    BY <2>2, <2>3 DEF FormsOK, ListKept, QuestionsKept
  <2>5. f.qcursor \in Nat
    BY <2>3, <2>4 DEF FormsOK
  <2>6. Good(SetForms(s, f))
    <3> HIDE DEF Fresh
    <3>1. PICK h : h = s.app.forms
      OBVIOUS
    <3>2. ListFine(f) /\ QuestionsFine(f)
      BY <2>3, <2>4, <3>1, Kept DEF FormsOK
    <3>3. BrowsersFine(f)
      BY <2>1, <2>3, <2>4 DEF FormsOK, BrowsersFine, StringCount, StoreCount, InList0
    <3> QED  BY <2>4, <2>5, <3>2, <3>3, FormsMoved
  <2> HIDE DEF Fresh
  <2> QED  BY <1>1, <1>3, <2>1, <2>2, <2>6 DEF Ok
<1> QED  BY <1>2, <1>3

(* The browser of variable stores. *)
LEMMA StoresFetched ==
  ASSUME NEW s, Good(s), NEW target, NEW r \in refresh_varstores(s, target)
  PROVE  Good(r.s)
<1> DEFINE Fresh(q) == [s.app.forms EXCEPT !.stores = <<FormsImage(s), q.val>>, !.vtarget = target, !.vcursor = 0]
<1>1. PICK q \in forms_fetch(s) : IF q.err = "no" THEN r \in Ok(SetForms(q.s, Fresh(q)), 0) ELSE r = q
  <2>1. refresh_varstores(s, target) = UNION {IF q.err = "no" THEN Ok(SetForms(q.s, Fresh(q)), 0) ELSE {q} : q \in forms_fetch(s)}
    BY DEF refresh_varstores, Then
  <2> HIDE DEF Fresh
  <2> QED  BY <2>1
<1>2. CASE q.err # "no"
  BY <1>1, <1>2, FormsFetched
<1>3. CASE q.err = "no"
  <2>1. q.s = s /\ q.val \in Contents
    BY <1>1, <1>3, FormsFetched
  <2>2. PICK f : f = Fresh(q)
    OBVIOUS
  <2>3. FormsOK(s.app.forms)
    BY DEF Good, Base, IsState, AppOK
  <2>4. /\ DOMAIN f = DOMAIN s.app.forms /\ f.from = s.app.forms.from /\ f.qfrom = s.app.forms.qfrom
        /\ f.qkey = s.app.forms.qkey /\ f.qcursor = s.app.forms.qcursor
        /\ f.info = s.app.forms.info /\ f.value = s.app.forms.value
        /\ f.stores = <<FormsImage(s), q.val>> /\ f.vcursor = 0 /\ f.strings = s.app.forms.strings /\ f.scursor = s.app.forms.scursor
        /\ ListKept(s.app.forms, f) /\ QuestionsKept(s.app.forms, f)
    BY <2>2, <2>3 DEF FormsOK, ListKept, QuestionsKept
  <2>5. f.qcursor \in Nat
    BY <2>3, <2>4 DEF FormsOK
  <2>6. Good(SetForms(s, f))
    <3> HIDE DEF Fresh
    <3>1. PICK h : h = s.app.forms
      OBVIOUS
    <3>2. ListFine(f) /\ QuestionsFine(f)
      BY <2>3, <2>4, <3>1, Kept DEF FormsOK
    <3>3. BrowsersFine(f)
      BY <2>1, <2>3, <2>4 DEF FormsOK, BrowsersFine, StringCount, StoreCount, InList0
    <3> QED  BY <2>4, <2>5, <3>2, <3>3, FormsMoved
  <2> HIDE DEF Fresh
  <2> QED  BY <1>1, <1>3, <2>1, <2>2, <2>6 DEF Ok
<1> QED  BY <1>2, <1>3

(***************************************************************************)
(* The NVRAM pane.                                                         *)
(***************************************************************************)
(* A pane that is of the image it names, as that image is now. *)
LEMMA PaneSet ==
  ASSUME NEW s, Good(s), NEW p, DOMAIN p = {"key", "content"}, Known(s.engine, p.key[1]),
         Live(s, p.key[1]) => s.engine.img[p.key[1]].content = p.content
  PROVE  Good(PaneNoted(SetPane(s, p), FALSE))
<1>1. IsState(s) /\ AppOK(s.app)
  BY DEF Good, Base, IsState
<1>2. PICK a : a = [s.app EXCEPT !.nvar = p]
  OBVIOUS
<1>3. AppIs(a, s.app.active, s.app.loaded, s.app.view, s.app.focus, s.app.tree, s.app.reg, s.app.forms, p)
  BY <1>1, <1>2, AppParts
<1>4. AppOK(a)
  BY <1>1, <1>3 DEF AppOK, AppIs
<1>5. PICK t : t = SetPane(s, p)
  OBVIOUS
<1>6. Are(t, s.engine, s.client, s.disk, a, s.note)
  BY <1>1, <1>2, <1>5, AppSetParts DEF SetPane
<1>7. IsState(t)
  BY <1>1, <1>4, <1>6 DEF IsState, Are
<1>8. PICK u : u = PaneNoted(t, FALSE)
  OBVIOUS
<1>9. Noting(t, u, t.note.unsaved, t.note.upload, t.note.forms, FALSE)
  BY <1>7, <1>8, Notes
<1>10. IsState(u)
  BY <1>7, <1>9 DEF IsState, Noting, NoteIs, Are
<1>11. u.engine = s.engine /\ u.client = s.client /\ u.disk = s.disk /\ u.app = a
  BY <1>6, <1>9 DEF Noting, Are
<1>12. u.note.unsaved = s.note.unsaved /\ u.note.upload = s.note.upload /\ u.note.forms = s.note.forms
  BY <1>6, <1>9 DEF Noting, NoteIs, Are
<1>13. NamesKnown(u) /\ FormsCurrent(u)
  BY <1>3, <1>11, <1>12 DEF Good, Base, NamesKnown, FormsCurrent, Here, AppIs
<1>14. PaneOf(u)
  BY <1>3, <1>11 DEF PaneOf, Live, AppIs
<1>15. Agree(u) /\ TreeOK(u) /\ Saved(u)
  BY <1>3, <1>11, <1>12 DEF Good, Agree, TreeOK, Saved, AppIs
<1> QED  BY <1>5, <1>8, <1>10, <1>13, <1>14, <1>15 DEF Good, Base

(* refresh_nvars_if_needed. *)
LEMMA PaneFetched ==
  ASSUME NEW s, Good(s), NEW r \in refresh_nvars_if_needed(s)
  PROVE  Good(r.s)
<1> DEFINE key == <<FormsImage(s), selected(s.app.tree).path>>
           Answer(q) == Ok(PaneNoted(SetPane(q.s, [key |-> key, content |-> q.val]), FALSE), 0)
<1>1. CASE r \in Ok(s, 0) \/ r \in Err(s)
  BY <1>1 DEF Ok, Err
<1>2. CASE r \in Ok(PaneNoted(SetPane(s, NoPane), FALSE), 0)
  <2>1. PICK p : p = NoPane
    OBVIOUS
  <2>2. DOMAIN p = {"key", "content"} /\ p.key[1] = 0
    BY <2>1 DEF NoPane
  <2>3. PICK t : t = PaneNoted(SetPane(s, p), FALSE)
    OBVIOUS
  <2>4. Good(t)
    BY <2>2, <2>3, PaneSet, ImageIds DEF Known, Live
  <2>5. r \in Ok(t, 0)
    BY <1>2, <2>1, <2>3, Zenon
  <2> QED  BY <2>4, <2>5 DEF Ok
<1>3. CASE ~(r \in Ok(s, 0) \/ r \in Err(s)) /\ r \notin Ok(PaneNoted(SetPane(s, NoPane), FALSE), 0)
  <2>1. refresh_nvars_if_needed(s) = UNION {IF q.err = "no" THEN Answer(q) ELSE {q} : q \in fetch(s, FormsImage(s))}
    BY <1>3 DEF refresh_nvars_if_needed, Then
  <2>2. PICK q \in fetch(s, FormsImage(s)) : IF q.err = "no" THEN r \in Answer(q) ELSE r = q
    <3> HIDE DEF Answer
    <3> QED  BY <2>1
  <2>3. PICK i : i = FormsImage(s)
    OBVIOUS
  <2>4. Known(s.engine, i)
    BY <2>3 DEF Good, Base, NamesKnown, FormsImage
  <2>5. \/ q.err = "error" /\ Alike(s, q.s)
        \/ q.err = "no" /\ q.s = s /\ Live(s, i) /\ q.val = s.engine.img[i].content
    BY <2>2, <2>3, FetchOutcome DEF Good, Base
  <2>6. CASE q.err = "error"
    BY <2>2, <2>5, <2>6, AlikeGood
  <2>7. CASE q.err = "no"
    <3>1. PICK p : p = [key |-> key, content |-> q.val]
      OBVIOUS
    <3>2. DOMAIN p = {"key", "content"} /\ p.key = key /\ p.content = q.val
      BY <3>1
    <3>3. p.key[1] = i
      BY <2>3, <3>2
    <3>4. PICK t : t = PaneNoted(SetPane(s, p), FALSE)
      OBVIOUS
    <3>5. Good(t)
      BY <2>4, <2>5, <2>7, <3>2, <3>3, <3>4, PaneSet
    <3>6. r \in Ok(t, 0)
      <4> HIDE DEF key
      <4>1. r \in Answer(q) /\ q.s = s
        BY <2>2, <2>5, <2>7
      <4> QED  BY <3>1, <3>4, <4>1, Zenon
    <3> QED  BY <3>5, <3>6 DEF Ok
  <2> QED  BY <2>5, <2>6, <2>7
<1> QED  BY <1>1, <1>2, <1>3

(***************************************************************************)
(* Commands that choose the image.                                         *)
(***************************************************************************)
(* image_loaded is only drawn. *)
LEMMA LoadedGood ==
  ASSUME NEW s, Base(s)
  PROVE  /\ Base(Loaded(s))
         /\ Agree(s) => Agree(Loaded(s))
         /\ Saved(s) => Saved(Loaded(s))
         /\ TreeOK(s) => TreeOK(Loaded(s))
         /\ Loaded(s).engine = s.engine /\ Loaded(s).client = s.client /\ Loaded(s).note = s.note
<1>1. IsState(s) /\ AppOK(s.app)
  BY DEF Base, IsState
<1>2. PICK b : b = TRUE
  OBVIOUS
<1>3. PICK a : a = [s.app EXCEPT !.loaded = b]
  OBVIOUS
<1>4. AppIs(a, s.app.active, b, s.app.view, s.app.focus, s.app.tree, s.app.reg, s.app.forms, s.app.nvar)
  BY <1>1, <1>3, AppParts
<1>5. AppOK(a)
  BY <1>1, <1>4 DEF AppOK, AppIs
<1>6. Loaded(s) = SetApp(s, a)
  BY <1>2, <1>3, Zenon DEF Loaded
<1>7. Are(SetApp(s, a), s.engine, s.client, s.disk, a, s.note)
  BY <1>1, AppSetParts
<1>8. /\ Base(SetApp(s, a))
      /\ Agree(s) => Agree(SetApp(s, a))
      /\ Saved(s) => Saved(SetApp(s, a))
      /\ a.tree.of = s.app.tree.of /\ TreeOK(s) => TreeOK(SetApp(s, a))
  BY <1>4, <1>5, AppSet DEF AppIs, Base, NamesKnown
<1> QED  BY <1>4, <1>6, <1>7, <1>8 DEF Are, AppIs

(* The registry is fetched last, its error ignored. *)
LEMMA Listed ==
  ASSUME NEW s, Good(s), NEW r \in UNION {Ok(p.s, 0) : p \in refresh_registry(s)}
  PROVE  Good(r.s)
<1>1. PICK p \in refresh_registry(s) : r \in Ok(p.s, 0)
  OBVIOUS
<1>2. Good(p.s)
  BY <1>1, RegistryFetched DEF Good
<1> QED  BY <1>1, <1>2 DEF Ok

(* open. *)
LEMMA OpenCommand ==
  ASSUME NEW s, Good(s), NEW write, NEW r \in cmd_open(s, write)
  PROVE  Good(r.s)
<1> DEFINE Finally(t) == UNION {Ok(p.s, 0) : p \in refresh_registry(t)}
           Showing(o) == UNION {IF q.err = "no" THEN Finally(q.s) ELSE {q} : q \in show(Loaded(o.s), o.val)}
<1>1. cmd_open(s, write) = UNION {IF o.err = "no" THEN Showing(o) ELSE {o} : o \in open_in_session(s, write, FALSE)}
  BY Zenon DEF cmd_open, Then, After
<1>2. PICK up : up = FALSE
  OBVIOUS
<1>3. PICK o \in open_in_session(s, write, up) : IF o.err = "no" THEN r \in Showing(o) ELSE r = o
  <2> HIDE DEF Showing
  <2>1. open_in_session(s, write, up) = open_in_session(s, write, FALSE)
    BY <1>2, Zenon
  <2> QED  BY <1>1, <2>1
<1>4. OpenedOK(s, o)
  BY <1>3, OpenedInSession
<1>5. CASE o.err # "no"
  BY <1>3, <1>4, <1>5 DEF OpenedOK
<1>6. CASE o.err = "no"
  <2>1. PICK t : t = Loaded(o.s)
    OBVIOUS
  <2>2. Good(t) /\ t.engine = o.s.engine
    BY <1>4, <2>1, LoadedGood DEF Good, OpenedOK
  <2>3. Known(t.engine, o.val)
    BY <1>4, <1>6, <2>2 DEF Known, OpenedOK
  <2>4. PICK q \in show(t, o.val) : IF q.err = "no" THEN r \in Finally(q.s) ELSE r = q
    <3> HIDE DEF Finally
    <3> QED  BY <1>3, <1>6, <2>1
  <2>5. Good(q.s)
    BY <2>2, <2>3, <2>4, Shown
  <2>6. CASE q.err = "no"
    BY <2>4, <2>5, <2>6, Listed
  <2> QED  BY <2>4, <2>5, <2>6
<1> QED  BY <1>5, <1>6

(* switch. *)
LEMMA SwitchCommand ==
  ASSUME NEW s, Good(s), NEW i, NEW r \in cmd_switch(s, i)
  PROVE  Good(r.s)
<1> DEFINE Finally(t) == IF t.app.view = "Forms" THEN refresh_forms(t) ELSE Ok(t, 0)
           Listing(t) == UNION {Finally(p.s) : p \in refresh_registry(t)}
           Showing(o) == UNION {IF q.err = "no" THEN Listing(Loaded(q.s)) ELSE {q} : q \in show(o.s, i)}
<1>1. cmd_switch(s, i) = UNION {IF o.err = "no" THEN Showing(o) ELSE {o} : o \in ensure_session(s)}
  BY DEF cmd_switch, Then, After
<1>2. PICK o \in ensure_session(s) : IF o.err = "no" THEN r \in Showing(o) ELSE r = o
  <2> HIDE DEF Showing
  <2> QED  BY <1>1
<1>3. Good(o.s) /\ o.s.engine.img = s.engine.img
  BY <1>2, SessionEnsured
<1>4. CASE o.err # "no"
  BY <1>2, <1>3, <1>4
<1>5. CASE o.err = "no"
  <2>1. PICK q \in show(o.s, i) : IF q.err = "no" THEN r \in Listing(Loaded(q.s)) ELSE r = q
    <3> HIDE DEF Listing
    <3> QED  BY <1>2, <1>5
  <2>2. Good(q.s)
    BY <1>3, <2>1, Shown DEF Known
  <2>3. CASE q.err = "no"
    <3>1. PICK t : t = Loaded(q.s)
      OBVIOUS
    <3>2. Good(t)
      BY <2>2, <3>1, LoadedGood DEF Good
    <3>3. PICK p \in refresh_registry(t) : r \in Finally(p.s)
      <4> HIDE DEF Finally
      <4> QED  BY <2>1, <2>3, <3>1
    <3>4. Good(p.s)
      BY <3>2, <3>3, RegistryFetched DEF Good
    <3> QED  BY <3>3, <3>4, FormsRefreshed DEF Ok
  <2> QED  BY <2>1, <2>2, <2>3
<1> QED  BY <1>4, <1>5

(* import. *)
LEMMA ImportCommand ==
  ASSUME NEW s, Good(s), NEW r \in cmd_import(s)
  PROVE  Good(r.s)
<1> DEFINE Finally(t) == UNION {Ok(p.s, 0) : p \in refresh_registry(t)}
<1>1. PICK o \in import_in_session(s) : IF o.err = "no" THEN r \in Finally(o.s) ELSE r = o
  <2>1. cmd_import(s) = UNION {IF o.err = "no" THEN Finally(o.s) ELSE {o} : o \in import_in_session(s)}
    BY DEF cmd_import, Then, After
  <2> HIDE DEF Finally
  <2> QED  BY <2>1
<1>2. Good(o.s)
  BY <1>1, ImportedInSession
<1>3. CASE o.err = "no"
  BY <1>1, <1>2, <1>3, Listed
<1> QED  BY <1>1, <1>2, <1>3

(* upload: between the persisted state and the listing the tree is still   *)
(* the former image's, which only a failure leaves behind.                 *)
LEMMA UploadCommand ==
  ASSUME NEW s, Good(s), NEW write, NEW r \in cmd_upload(s, write)
  PROVE  Good(r.s)
<1> DEFINE Marked(o) == [s |-> UploadNoted(o.s, o.err # "no"), err |-> o.err, val |-> o.val]
           Tree(t) == refresh_tree(SetTree(Loaded(t), [t.app.tree EXCEPT !.cursor = 0]))
           Listing(t) == UNION {IF o.err = "no" THEN refresh_registry(o.s) ELSE {o} : o \in {Marked(m) : m \in Tree(t)}}
           Active(o) == SetActive(FormsNoted(o.s, TRUE), o.val)
           Persisting(o) == UNION {IF q.err = "no" THEN Listing(q.s) ELSE {q} : q \in persist_state_best_effort(Active(o))}
<1>1. cmd_upload(s, write) = UNION {IF o.err = "no" THEN Persisting(o) ELSE {o} : o \in open_in_session(s, write, TRUE)}
  BY Zenon DEF cmd_upload, Then
<1>2. PICK up : up = TRUE
  OBVIOUS
<1>3. PICK o \in open_in_session(s, write, up) : IF o.err = "no" THEN r \in Persisting(o) ELSE r = o
  <2> HIDE DEF Persisting
  <2>1. open_in_session(s, write, up) = open_in_session(s, write, TRUE)
    BY <1>2, Zenon
  <2> QED  BY <1>1, <2>1
<1>4. OpenedOK(s, o)
  BY <1>3, OpenedInSession
<1>5. CASE o.err # "no"
  BY <1>3, <1>4, <1>5 DEF OpenedOK
<1>6. CASE o.err = "no"
  <2>1. Good(o.s) /\ Known(o.s.engine, o.val) /\ o.val # 0
    BY <1>4, <1>6, LibraryAssumption DEF Known, OpenedOK, Images
  <2>2. PICK t : t = FormsNoted(o.s, up)
    OBVIOUS
  <2>3. Noting(o.s, t, o.s.note.unsaved, o.s.note.upload, up, o.s.note.pane)
    BY <2>1, <2>2, Notes DEF Good, Base
  <2>4. Base(t) /\ t.note.forms /\ t.engine = o.s.engine
    <3>1. Base(t)
      BY <1>2, <2>1, <2>3, NotedBase DEF Good
    <3>2. t.note.forms /\ t.engine = o.s.engine
      BY <1>2, <2>3, Zenon DEF Noting, NoteIs, Are
    <3> QED  BY <3>1, <3>2
  <2>5. PICK x : x = SetActive(t, o.val)
    OBVIOUS
  <2>6. Base(x) /\ Agree(x)
    BY <2>1, <2>4, <2>5, ActiveSet
  <2>7. PICK q \in persist_state_best_effort(x) : IF q.err = "no" THEN r \in Listing(q.s) ELSE r = q
    <3> HIDE DEF Listing
    <3>1. x = Active(o)
      BY <1>2, <2>2, <2>5, Zenon
    <3> HIDE DEF Active
    <3> QED  BY <1>3, <1>6, <3>1
  <2>8. Base(q.s) /\ Saved(q.s) /\ Agree(q.s) /\ q.err = "no"
    BY <2>6, <2>7, StatePersisted DEF Agree
  <2>9. PICK l : l = Loaded(q.s)
    OBVIOUS
  <2>10. Base(l) /\ Saved(l) /\ Agree(l)
    BY <2>8, <2>9, LoadedGood
  <2>11. PICK v : v = [q.s.app.tree EXCEPT !.cursor = 0]
    OBVIOUS
  <2>12. IsTree(v)
    <3>1. IsTree(q.s.app.tree)
      BY <2>8 DEF Base, IsState, AppOK
    <3>2. /\ DOMAIN v = {"of", "content", "expanded", "cursor"} /\ v.content = q.s.app.tree.content
          /\ v.cursor = 0
      BY <2>11, <3>1 DEF IsTree
    <3>3. v.content \in Contents \cup {0}
      BY <3>1, <3>2 DEF IsTree, TreeFine
    <3> QED  BY <3>2, <3>3, TreeAtTop
  <2>13. PICK y : y = SetTree(l, v)
    OBVIOUS
  <2>14. Base(y) /\ Saved(y) /\ Agree(y)
    BY <2>10, <2>12, <2>13, TreeSet
  <2>15. PICK m \in refresh_tree(y) : IF m.err = "no" THEN r \in refresh_registry(Marked(m).s) ELSE r = Marked(m)
    <3>1. \A z : Marked(z).err = z.err
      OBVIOUS
    <3> HIDE DEF Marked
    <3> QED  BY <2>7, <2>8, <2>9, <2>11, <2>13, <3>1
  <2>16. Base(m.s) /\ Agree(m.s) /\ Saved(m.s) /\ (m.err = "no" => m.s.app.tree.of = m.s.app.active)
    BY <2>14, <2>15, TreeFetched
  <2>17. PICK b : b = (m.err # "no")
    OBVIOUS
  <2>18. PICK w : w = UploadNoted(m.s, b)
    OBVIOUS
  <2>19. Noting(m.s, w, m.s.note.unsaved, b, m.s.note.forms, m.s.note.pane)
    BY <2>16, <2>18, Notes DEF Base
  <2>20. Base(w) /\ Agree(w)
    BY <2>16, <2>19, NotedBase
  <2>21. Saved(w)
    BY <2>16, <2>19 DEF Saved, Noting, NoteIs, Are
  <2>22. TreeOK(w)
    <3>1. w.note.upload = b /\ w.app = m.s.app
      BY <2>19, Zenon DEF Noting, NoteIs, Are
    <3>2. CASE m.err # "no"
      BY <2>17, <3>1, <3>2 DEF TreeOK
    <3>3. CASE m.err = "no"
      BY <2>16, <3>1, <3>3 DEF TreeOK
    <3> QED  BY <3>2, <3>3
  <2>23. Good(w)
    BY <2>20, <2>21, <2>22 DEF Good
  <2>24. Marked(m).s = w
    BY <2>17, <2>18, Zenon
  <2> HIDE DEF Marked
  <2>25. CASE m.err = "no"
    BY <2>15, <2>23, <2>24, <2>25, RegistryFetched DEF Good
  <2> QED  BY <2>15, <2>23, <2>24, <2>25
<1> QED  BY <1>5, <1>6

(* Closing another image than the active one, or failing to. *)
LEMMA ImageClosed ==
  ASSUME NEW s, Good(s), NEW i \in Images, i # s.app.active, NEW r \in image_close(s, i)
  PROVE  Good(r.s)
<1>1. CASE r \in Err(s)
  BY <1>1 DEF Err
<1>2. CASE r \in Fault(s)
  BY <1>2, FaultAlike, AlikeGood DEF Good, Base
<1>3. CASE r \in Ok(Dropped(s, i), 0)
  <2>1. PICK t : t = Dropped(s, i)
    OBVIOUS
  <2>2. Good(t)
    BY <2>1, OtherDropped
  <2> QED  BY <1>3, <2>1, <2>2 DEF Ok
<1> QED  BY <1>1, <1>2, <1>3 DEF image_close

(* Nothing is active, and nothing of the former image is shown as its own. *)
LEMMA ClearedBase ==
  ASSUME NEW s, IsState(s), NamesKnown(s), PaneOf(s)
  PROVE  LET t == Cleared(s) IN Base(t) /\ Agree(t) /\ t.app.tree.of = t.app.active
<1>1. PICK t : t = SetActive(s, 0)
  OBVIOUS
<1>2. PICK a, c : /\ Are(t, s.engine, c, s.disk, a, s.note) /\ IsClient(c) /\ c.active = 0
                  /\ AppIs(a, 0, s.app.loaded, s.app.view, s.app.focus, s.app.tree, s.app.reg, s.app.forms, s.app.nvar)
  BY <1>1, ActiveParts
<1>3. PICK b : b = FALSE
  OBVIOUS
<1>4. PICK x : x = [a EXCEPT !.tree = NoTree, !.loaded = b, !.view = "Image"]
  OBVIOUS
<1>5. AppIs(x, 0, b, "Image", s.app.focus, NoTree, s.app.reg, s.app.forms, s.app.nvar)
  BY <1>2, <1>4 DEF AppIs, AppFields
<1>6. AppOK(x)
  BY <1>5, NoTreeFine DEF IsState, AppOK, AppIs
<1>7. PICK u : u = [t EXCEPT !.app = x]
  OBVIOUS
<1>8. Are(u, s.engine, c, s.disk, x, s.note)
  BY <1>2, <1>7 DEF Are, StateFields
<1>9. IsState(u)
  BY <1>2, <1>6, <1>8 DEF IsState, Are
<1>10. NamesKnown(u) /\ FormsCurrent(u) /\ PaneOf(u)
  BY <1>2, <1>5, <1>8 DEF NamesKnown, Known, FormsCurrent, PaneOf, Live, Are, AppIs
<1>11. Cleared(s) = u
  <2>1. t.app = a
    BY <1>2 DEF Are
  <2> QED  BY <1>1, <1>3, <1>4, <1>7, <2>1, Zenon DEF Cleared, SetApp
<1>12. Base(u) /\ Agree(u) /\ u.app.tree.of = u.app.active
  BY <1>2, <1>5, <1>8, <1>9, <1>10 DEF Base, Agree, NoTree, Are, AppIs
<1> QED  BY <1>11, <1>12

(* close: the active image is forgotten with its tree, any other one is    *)
(* only closed.                                                            *)
LEMMA CloseCommand ==
  ASSUME NEW s, Good(s), NEW i \in Images, NEW r \in cmd_close(s, i)
  PROVE  Good(r.s)
<1> DEFINE Finally(t) == UNION {Ok(p.s, 0) : p \in refresh_registry(t)}
           Forgotten(o) == IF s.app.active = i THEN persist_state_best_effort(UploadNoted(Cleared(o.s), FALSE)) ELSE Ok(o.s, 0)
           Rest(o) == UNION {IF q.err = "no" THEN Finally(q.s) ELSE {q} : q \in Forgotten(o)}
<1>1. cmd_close(s, i) = UNION {IF o.err = "no" THEN Rest(o) ELSE {o} : o \in image_close(s, i)}
  BY Zenon DEF cmd_close, Then, After
<1>2. PICK o \in image_close(s, i) : IF o.err = "no" THEN r \in Rest(o) ELSE r = o
  <2> HIDE DEF Rest
  <2> QED  BY <1>1
<1>3. CASE o.err # "no"
  <2>1. o \in Err(s) \/ o \in Fault(s)
    BY <1>2, <1>3 DEF image_close, Ok
  <2>2. Good(o.s)
    BY <2>1, FaultAlike, AlikeGood DEF Good, Base, Err
  <2> QED  BY <1>2, <1>3, <2>2
<1>4. CASE o.err = "no"
  <2>1. PICK q \in Forgotten(o) : IF q.err = "no" THEN r \in Finally(q.s) ELSE r = q
    <3> HIDE DEF Finally, Forgotten
    <3> QED  BY <1>2, <1>4
  <2>2. Good(q.s)
    <3>1. CASE s.app.active # i
      <4>1. Good(o.s)
        BY <1>2, <3>1, ImageClosed
      <4>2. q \in Ok(o.s, 0)
        BY <2>1, <3>1
      <4> QED  BY <4>1, <4>2 DEF Ok
    <3>2. CASE s.app.active = i
      <4>1. o.s = Dropped(s, i)
        <5>1. o \in Ok(Dropped(s, i), 0)
          BY <1>2, <1>4, FaultErr DEF image_close, Err
        <5> QED  BY <5>1 DEF Ok
      <4>2. PICK e : /\ Dropped(s, i) = SetEngine(s, e) /\ EngineOK(e) /\ e.img[i].st = "gone"
                     /\ \A j \in Images : j # i => e.img[j] = s.engine.img[j]
        BY DroppedEngine
      <4>3. PICK d : d = SetEngine(s, e)
        OBVIOUS
      <4>4. IsState(d) /\ NamesKnown(d) /\ PaneOf(d)
        BY <4>2, <4>3, EngineSet DEF Good
      <4>5. PICK t : t = Cleared(d)
        OBVIOUS
      <4>6. Base(t) /\ Agree(t) /\ t.app.tree.of = t.app.active
        BY <4>4, <4>5, ClearedBase
      <4>7. PICK u : u = UploadNoted(t, FALSE)
        OBVIOUS
      <4>8. Noting(t, u, t.note.unsaved, FALSE, t.note.forms, t.note.pane)
        BY <4>6, <4>7, Notes DEF Base
      <4>9. Base(u) /\ Agree(u) /\ u.app = t.app
        BY <4>6, <4>8, NotedBase DEF Noting, Are
      <4>10. q \in persist_state_best_effort(u)
        <5>1. u = UploadNoted(Cleared(o.s), FALSE)
          BY <4>1, <4>2, <4>3, <4>5, <4>7, Zenon
        <5> QED  BY <2>1, <3>2, <5>1, Zenon
      <4>11. Base(q.s) /\ Saved(q.s) /\ q.s.app = u.app /\ q.s.client = u.client
        BY <4>9, <4>10, StatePersisted
      <4> QED  BY <4>6, <4>9, <4>11 DEF Good, Agree, TreeOK
    <3> QED  BY <3>1, <3>2
  <2>3. CASE q.err = "no"
    BY <2>1, <2>2, <2>3, Listed
  <2> QED  BY <2>1, <2>2, <2>3
<1> QED  BY <1>3, <1>4

(* reopen: the old image is closed when the new one is the active one. *)
LEMMA ReopenCommand ==
  ASSUME NEW s, Good(s), NEW want \in BOOLEAN, NEW r \in reopen(s, want)
  PROVE  Good(r.s)
<1> DEFINE i == reopen_target(s)
           im == s.app.reg.images[i]
           Finally(t) == IF t.app.view = "Forms" THEN refresh_forms(t) ELSE Ok(t, 0)
           Listing(t) == UNION {Finally(p.s) : p \in refresh_registry(t)}
           Closing(t) == UNION {Listing(p.s) : p \in image_close(t, i)}
           Showing(o) == UNION {IF q.err = "no" THEN Closing(q.s) ELSE {q} : q \in show(o.s, o.val)}
           Opening == UNION {IF o.err = "no" THEN Showing(o) ELSE {o} : o \in reopen_in_session(s, im)}
<1>1. CASE r \in Err(s) \/ r \in Ok(s, 0)
  BY <1>1 DEF Err, Ok
<1>2. CASE ~(r \in Err(s) \/ r \in Ok(s, 0))
  <2>1. i \in DOMAIN s.app.reg.images
    BY <1>2, Zenon DEF reopen
  <2>2. reopen_plan(want, im.write) \in {"OpenWrite", "AlreadyWrite", "AlreadyRead", "RefuseUnsavedWrite"}
    BY DEF reopen_plan
  <2>3. reopen(s, want) = CASE reopen_plan(want, im.write) = "RefuseUnsavedWrite" -> Err(s)
                            [] reopen_plan(want, im.write) \in {"AlreadyWrite", "AlreadyRead"} -> Ok(s, 0)
                            [] reopen_plan(want, im.write) = "OpenWrite" -> Opening
    BY <2>1, Zenon DEF reopen, Then, After
  <2>4. r \in Opening
    <3> HIDE DEF i, im, Opening
    <3> QED  BY <1>2, <2>2, <2>3
  <2>5. i \in Images /\ s.engine.img[i].st # "new"
    BY <2>1 DEF Good, Base, NamesKnown, Known
  <2>6. PICK k : k = i
    OBVIOUS
  <2>7. PICK m : m = im
    OBVIOUS
  <2> HIDE DEF i, im
  <2>8. PICK o \in reopen_in_session(s, m) : IF o.err = "no" THEN r \in Showing(o) ELSE r = o
    <3> HIDE DEF Showing
    <3> QED  BY <2>4, <2>7
  <2>9. OpenedOK(s, o)
    BY <2>8, ReopenedInSession
  <2>10. CASE o.err # "no"
    BY <2>8, <2>9, <2>10 DEF OpenedOK
  <2>11. CASE o.err = "no"
    <3>1. PICK q \in show(o.s, o.val) : IF q.err = "no" THEN r \in Closing(q.s) ELSE r = q
      <4> HIDE DEF Closing
      <4> QED  BY <2>8, <2>11
    <3>2. Good(o.s) /\ Known(o.s.engine, o.val) /\ k # o.val
      BY <2>5, <2>6, <2>9, <2>11 DEF OpenedOK, Known
    <3>3. Good(q.s) /\ (q.err = "no" => q.s.app.active = o.val)
      BY <3>1, <3>2, Shown
    <3>4. CASE q.err = "no"
      <4>1. PICK p \in image_close(q.s, k) : r \in Listing(p.s)
        <5> HIDE DEF Listing
        <5> QED  BY <2>6, <3>1, <3>4
      <4>2. Good(p.s)
        BY <2>5, <2>6, <3>2, <3>3, <3>4, <4>1, ImageClosed
      <4>3. PICK n \in refresh_registry(p.s) : r \in Finally(n.s)
        <5> HIDE DEF Finally
        <5> QED  BY <4>1
      <4>4. Good(n.s)
        BY <4>2, <4>3, RegistryFetched DEF Good
      <4> QED  BY <4>3, <4>4, FormsRefreshed DEF Ok
    <3> QED  BY <3>1, <3>3, <3>4
  <2> QED  BY <2>10, <2>11
<1> QED  BY <1>1, <1>2

(***************************************************************************)
(* Commands on nodes, snapshots and variables.                             *)
(***************************************************************************)
(* Both refreshes, of a good state. *)
LEMMA Refreshed ==
  ASSUME NEW s, Good(s)
  PROVE  /\ \A r \in refresh_tree(s) : Good(r.s)
         /\ \A r \in refresh_registry(s) : Good(r.s)
BY TreeFetched, RegistryFetched DEF Good

(* A read of the image commands go to. *)
LEMMA ActiveFetched ==
  ASSUME NEW s, Good(s), NEW r \in fetch(s, s.client.active)
  PROVE  /\ Good(r.s) /\ r.err \in {"no", "error"}
         /\ r.err = "no" => /\ r.s = s /\ Live(s, s.client.active) /\ s.client.active \in Images
                            /\ r.val = s.engine.img[s.client.active].content /\ r.val \in Contents
<1>1. PICK i : i = s.client.active
  OBVIOUS
<1>2. IsState(s) /\ EngineOK(s.engine) /\ Known(s.engine, i)
  BY <1>1 DEF Good, Base, IsState, NamesKnown
<1>3. \/ r.err = "error" /\ Alike(s, r.s)
      \/ r.err = "no" /\ r.s = s /\ Live(s, i) /\ r.val = s.engine.img[i].content
  BY <1>1, <1>2, FetchOutcome
<1>4. Live(s, i) => i \in Images /\ s.engine.img[i].content \in Contents
  BY <1>2 DEF Live, Known, EngineOK, IsImage
<1> QED  BY <1>1, <1>3, <1>4, AlikeGood

(* snapshot. *)
LEMMA SnapshotCommand ==
  ASSUME NEW s, Good(s), NEW r \in cmd_snapshot(s)
  PROVE  Good(r.s)
<1> DEFINE Taken(q) == [s.engine EXCEPT !.snap = [@ EXCEPT ![s.client.active] = q.val]]
<1>1. PICK q \in fetch(s, s.client.active) : IF q.err = "no" THEN r \in Ok(SetEngine(q.s, Taken(q)), 0) ELSE r = q
  <2>1. cmd_snapshot(s) = UNION {IF q.err = "no" THEN Ok(SetEngine(q.s, Taken(q)), 0) ELSE {q} : q \in fetch(s, s.client.active)}
    BY DEF cmd_snapshot, Then
  <2> HIDE DEF Taken
  <2> QED  BY <2>1
<1>2. CASE q.err # "no"
  BY <1>1, <1>2, ActiveFetched
<1>3. CASE q.err = "no"
  <2>1. q.s = s /\ s.client.active \in Images /\ q.val \in Contents
    BY <1>1, <1>3, ActiveFetched
  <2>2. EngineOK(s.engine)
    BY DEF Good, Base, IsState
  <2>3. PICK y : y = [s.engine.snap EXCEPT ![s.client.active] = q.val]
    OBVIOUS
  <2>4. DOMAIN y = Images /\ \A j \in Images : y[j] \in Contents \cup {0}
    BY <2>1, <2>2, <2>3 DEF EngineOK
  <2>5. PICK e : e = [s.engine EXCEPT !.snap = y]
    OBVIOUS
  <2>6. /\ DOMAIN e = {"sess", "img", "snap", "arts"} /\ e.img = s.engine.img /\ e.snap = y
        /\ e.sess = s.engine.sess /\ e.arts = s.engine.arts
    BY <2>2, <2>5 DEF EngineOK
  <2>7. EngineOK(e)
    BY <2>2, <2>4, <2>6 DEF EngineOK
  <2>8. Good(SetEngine(s, e))
    BY <2>6, <2>7, ImagesLeft
  <2>9. Taken(q) = e
    BY <2>3, <2>5
  <2> HIDE DEF Taken
  <2> QED  BY <1>1, <1>3, <2>1, <2>8, <2>9 DEF Ok
<1> QED  BY <1>2, <1>3

(* restore: an edit, after which tree and registry are fetched. *)
LEMMA RestoreCommand ==
  ASSUME NEW s, Good(s), NEW r \in cmd_restore(s)
  PROVE  Good(r.s)
<1> DEFINE i == s.client.active
           Restored == IF Live(s, i) /\ s.engine.snap[i] # 0
                       THEN Fault(s) \cup Ok(Stale(SetContent(s, i, s.engine.snap[i])), 0) ELSE Err(s)
           Listing(t) == UNION {IF q.err = "no" THEN refresh_registry(q.s) ELSE {q} : q \in refresh_tree(t)}
<1>1. cmd_restore(s) = UNION {IF o.err = "no" THEN Listing(o.s) ELSE {o} : o \in Restored}
  BY DEF cmd_restore, Then
<1>2. PICK o \in Restored : IF o.err = "no" THEN r \in Listing(o.s) ELSE r = o
  <2> HIDE DEF Listing, Restored
  <2> QED  BY <1>1
<1>3. Good(o.s)
  <2>1. CASE o \in Err(s) \/ o \in Fault(s)
    BY <2>1, FaultAlike, AlikeGood DEF Good, Base, Err
  <2>2. CASE ~(o \in Err(s) \/ o \in Fault(s))
    <3>1. Live(s, i) /\ s.engine.snap[i] # 0 /\ o \in Ok(Stale(SetContent(s, i, s.engine.snap[i])), 0)
      BY <1>2, <2>2
    <3>2. EngineOK(s.engine) /\ Known(s.engine, i)
      BY DEF Good, Base, IsState, NamesKnown
    <3>3. i \in Images /\ s.engine.img[i].st = "live"
      BY <3>1, <3>2 DEF Live, Known
    <3>4. PICK c : c = s.engine.snap[i]
      OBVIOUS
    <3>5. c \in Contents
      BY <3>1, <3>2, <3>3, <3>4 DEF EngineOK
    <3>6. PICK k : k = i
      OBVIOUS
    <3>7. PICK t : t = Stale(SetContent(s, k, c))
      OBVIOUS
    <3>8. Good(t)
      BY <3>3, <3>5, <3>6, <3>7, ContentSet
    <3> QED  BY <3>1, <3>4, <3>6, <3>7, <3>8 DEF Ok
  <2> QED  BY <2>1, <2>2
<1>4. CASE o.err = "no"
  <2>1. PICK q \in refresh_tree(o.s) : IF q.err = "no" THEN r \in refresh_registry(q.s) ELSE r = q
    BY <1>2, <1>4
  <2> QED  BY <1>3, <2>1, Refreshed
<1> QED  BY <1>2, <1>3, <1>4

(* extract. *)
LEMMA ExtractCommand ==
  ASSUME NEW s, Good(s), NEW r \in cmd_extract(s)
  PROVE  Good(r.s)
<1> DEFINE Finally(t) == UNION {Ok(p.s, 0) : p \in refresh_registry(t)}
           More == [s.engine EXCEPT !.arts = IF @ < MaxArtifacts THEN @ + 1 ELSE @]
<1>1. PICK q \in fetch(s, s.client.active) : IF q.err = "no" THEN r \in Finally(SetEngine(q.s, More)) ELSE r = q
  <2>1. cmd_extract(s) = UNION {IF q.err = "no" THEN Finally(SetEngine(q.s, More)) ELSE {q} : q \in fetch(s, s.client.active)}
    BY DEF cmd_extract, Then, After
  <2> HIDE DEF Finally, More
  <2> QED  BY <2>1
<1>2. CASE q.err # "no"
  BY <1>1, <1>2, ActiveFetched
<1>3. CASE q.err = "no"
  <2>1. q.s = s
    BY <1>1, <1>3, ActiveFetched
  <2>2. PICK e : e = More
    OBVIOUS
  <2>3. EngineOK(e) /\ e.img = s.engine.img
    BY <2>2 DEF Good, Base, IsState, EngineOK
  <2>4. PICK t : t = SetEngine(s, e)
    OBVIOUS
  <2>5. Good(t)
    BY <2>3, <2>4, ImagesLeft
  <2>6. r \in Finally(t)
    <3> HIDE DEF Finally, More
    <3> QED  BY <1>1, <1>3, <2>1, <2>2, <2>4
  <2> QED  BY <2>5, <2>6, Listed
<1> QED  BY <1>2, <1>3

(* An edit of the image commands go to. *)
LEMMA ActiveEdited ==
  ASSUME NEW s, Good(s), NEW gated, NEW r \in edit(s, s.client.active, gated)
  PROVE  Good(r.s)
<1>1. PICK i : i = s.client.active
  OBVIOUS
<1>2. Known(s.engine, i)
  BY <1>1 DEF Good, Base, NamesKnown
<1> QED  BY <1>1, <1>2, Edited

(* insert, replace. *)
LEMMA InsertCommand ==
  ASSUME NEW s, Good(s), NEW r \in cmd_insert(s)
  PROVE  Good(r.s)
<1> DEFINE Trees(t) == UNION {Ok(p.s, 0) : p \in refresh_tree(t)}
           Rest(t) == UNION {Trees(q.s) : q \in refresh_registry(t)}
<1>1. PICK gated : gated = FALSE
  OBVIOUS
<1>2. PICK o \in edit(s, s.client.active, gated) : IF o.err = "no" THEN r \in Rest(o.s) ELSE r = o
  <2>1. cmd_insert(s) = UNION {IF o.err = "no" THEN Rest(o.s) ELSE {o} : o \in edit(s, s.client.active, gated)}
    BY <1>1, Zenon DEF cmd_insert, Then, After
  <2> HIDE DEF Rest
  <2> QED  BY <2>1
<1>3. Good(o.s)
  BY <1>2, ActiveEdited
<1>4. CASE o.err = "no"
  <2>1. PICK q \in refresh_registry(o.s) : r \in Trees(q.s)
    <3> HIDE DEF Trees
    <3> QED  BY <1>2, <1>4
  <2>2. Good(q.s)
    BY <1>3, <2>1, Refreshed
  <2>3. PICK p \in refresh_tree(q.s) : r \in Ok(p.s, 0)
    BY <2>1
  <2>4. Good(p.s)
    BY <2>2, <2>3, Refreshed
  <2> QED  BY <2>3, <2>4 DEF Ok
<1> QED  BY <1>2, <1>3, <1>4

(* remove. *)
LEMMA RemoveCommand ==
  ASSUME NEW s, Good(s), NEW r \in cmd_remove(s)
  PROVE  Good(r.s)
<1> DEFINE Trees(t) == UNION {Ok(p.s, 0) : p \in refresh_tree(t)}
<1>1. PICK gated : gated = FALSE
  OBVIOUS
<1>2. PICK o \in edit(s, s.client.active, gated) : IF o.err = "no" THEN r \in Trees(o.s) ELSE r = o
  <2>1. cmd_remove(s) = UNION {IF o.err = "no" THEN Trees(o.s) ELSE {o} : o \in edit(s, s.client.active, gated)}
    BY <1>1, Zenon DEF cmd_remove, Then, After
  <2> HIDE DEF Trees
  <2> QED  BY <2>1
<1>3. Good(o.s)
  BY <1>2, ActiveEdited
<1>4. CASE o.err = "no"
  <2>1. PICK p \in refresh_tree(o.s) : r \in Ok(p.s, 0)
    BY <1>2, <1>4
  <2>2. Good(p.s)
    BY <1>3, <2>1, Refreshed
  <2> QED  BY <2>1, <2>2 DEF Ok
<1> QED  BY <1>2, <1>3, <1>4

(* A tree of which only cursor and expansion change. *)
LEMMA TreeMoved ==
  ASSUME NEW s, Good(s), NEW t, IsTree(t), t.of = s.app.tree.of
  PROVE  Good(SetTree(s, t)) /\ SetTree(s, t).client = s.client /\ SetTree(s, t).engine = s.engine
BY TreeSet DEF Good, Are

(* nvar list. *)
LEMMA NvarListCommand ==
  ASSUME NEW s, Good(s), NEW p, HasNode(s.app.tree, p), NEW r \in cmd_nvar_list(s, p)
  PROVE  Good(r.s)
<1> DEFINE At == SetTree(s, goto_path(s.app.tree, p))
           Pane(q) == [key |-> <<q.s.client.active, p>>, content |-> q.val]
           Answer(q) == IF \E n \in Range(Library[q.val].tree) : n.path = p /\ n.nvar
                        THEN Ok(PaneNoted(SetPane(q.s, Pane(q)), FALSE), 0) ELSE Err(q.s)
<1>1. cmd_nvar_list(s, p) = UNION {IF q.err = "no" THEN Answer(q) ELSE {q} : q \in fetch(At, At.client.active)}
  BY Zenon DEF cmd_nvar_list, Then
<1>2. PICK t : t = At
  OBVIOUS
<1>3. Good(t)
  <2>1. PICK v : v = goto_path(s.app.tree, p)
    OBVIOUS
  <2>2. IsTree(s.app.tree)
    BY DEF Good, Base, IsState, AppOK
  <2>3. IsTree(v) /\ v.of = s.app.tree.of
    BY <2>1, <2>2, WentTo
  <2> QED  BY <1>2, <2>1, <2>3, TreeMoved
<1>4. PICK q \in fetch(t, t.client.active) : IF q.err = "no" THEN r \in Answer(q) ELSE r = q
  <2> HIDE DEF Answer, At
  <2> QED  BY <1>1, <1>2
<1> HIDE DEF At
<1>5. CASE q.err # "no"
  BY <1>3, <1>4, <1>5, ActiveFetched
<1>6. CASE q.err = "no"
  <2>1. /\ q.s = t /\ Live(t, t.client.active) /\ t.client.active \in Images
        /\ q.val = t.engine.img[t.client.active].content
    BY <1>3, <1>4, <1>6, ActiveFetched
  <2>2. PICK n : n = Pane(q)
    OBVIOUS
  <2>3. DOMAIN n = {"key", "content"} /\ n.key[1] = t.client.active /\ n.content = q.val
    BY <2>1, <2>2
  <2>4. PICK u : u = PaneNoted(SetPane(t, n), FALSE)
    OBVIOUS
  <2>5. Known(t.engine, n.key[1])
    BY <1>3, <2>3 DEF Good, Base, NamesKnown
  <2>6. Good(u)
    BY <1>3, <2>1, <2>3, <2>4, <2>5, PaneSet
  <2>7. r \in Ok(u, 0) \/ r \in Err(t)
    <3> HIDE DEF Pane
    <3>1. r \in Answer(q)
      BY <1>4, <1>6
    <3> QED  BY <2>1, <2>2, <2>4, <3>1, Zenon
  <2> QED  BY <1>3, <2>6, <2>7 DEF Ok, Err
<1> QED  BY <1>5, <1>6

(* nvar set: the pane is fetched anew, or names no image. *)
LEMMA NvarSetCommand ==
  ASSUME NEW s, Good(s), NEW r \in cmd_nvar_set(s)
  PROVE  Good(r.s)
<1> DEFINE Empty(t) == PaneNoted(SetPane(t, [t.app.nvar EXCEPT !.key = NoPane.key]), FALSE)
           Finally(t) == UNION {Ok(q.s, 0) : q \in refresh_nvars_if_needed(t)}
           Rest(t) == IF selected(Empty(t).app.tree).nvar THEN Finally(Empty(t)) ELSE Ok(Empty(t), 0)
<1>1. PICK gated : gated = TRUE
  OBVIOUS
<1>2. PICK o \in edit(s, s.client.active, gated) : IF o.err = "no" THEN r \in Rest(o.s) ELSE r = o
  <2>1. cmd_nvar_set(s) = UNION {IF o.err = "no" THEN Rest(o.s) ELSE {o} : o \in edit(s, s.client.active, gated)}
    BY <1>1, Zenon DEF cmd_nvar_set, Then, After
  <2> HIDE DEF Rest
  <2> QED  BY <2>1
<1>3. Good(o.s)
  BY <1>2, ActiveEdited
<1>4. CASE o.err = "no"
  <2>1. PICK n : n = [o.s.app.nvar EXCEPT !.key = NoPane.key]
    OBVIOUS
  <2>2. DOMAIN o.s.app.nvar = {"key", "content"}
    BY <1>3 DEF Good, Base, IsState, AppOK
  <2>3. DOMAIN n = {"key", "content"} /\ n.key[1] = 0
    BY <2>1, <2>2 DEF NoPane
  <2>4. PICK u : u = PaneNoted(SetPane(o.s, n), FALSE)
    OBVIOUS
  <2>5. Good(u)
    BY <1>3, <2>3, <2>4, PaneSet, ImageIds DEF Known, Live
  <2>6. Empty(o.s) = u
    BY <2>1, <2>4, Zenon
  <2>7. r \in Finally(u) \/ r \in Ok(u, 0)
    <3> HIDE DEF Empty, Finally
    <3> QED  BY <1>2, <1>4, <2>6
  <2>8. CASE r \in Finally(u)
    <3>1. PICK q \in refresh_nvars_if_needed(u) : r \in Ok(q.s, 0)
      BY <2>8
    <3>2. Good(q.s)
      BY <2>5, <3>1, PaneFetched
    <3> QED  BY <3>1, <3>2 DEF Ok
  <2> QED  BY <2>5, <2>7, <2>8 DEF Ok
<1> QED  BY <1>2, <1>3, <1>4

(* tse unhide. *)
LEMMA TseCommand ==
  ASSUME NEW s, Good(s), NEW r \in cmd_tse_unhide(s)
  PROVE  Good(r.s)
<1>1. PICK i : i = FormsImage(s)
  OBVIOUS
<1>2. Known(s.engine, i)
  BY <1>1 DEF Good, Base, NamesKnown, FormsImage
<1>3. PICK gated : gated = TRUE
  OBVIOUS
<1>4. r \in Err(s) \/ r \in edit(s, i, gated)
  BY <1>1, <1>3, Zenon DEF cmd_tse_unhide
<1> QED  BY <1>2, <1>4, Edited DEF Err

(***************************************************************************)
(* Commands of the forms view.                                             *)
(***************************************************************************)
(* The forms view is entered with an active image. *)
LEMMA ViewSet ==
  ASSUME NEW s, Good(s), NEW v \in {"Image", "Forms"}, v = "Forms" => s.app.active # 0
  PROVE  Good(SetView(s, v))
<1>1. IsState(s) /\ AppOK(s.app)
  BY DEF Good, Base, IsState
<1>2. PICK a : a = [s.app EXCEPT !.view = v]
  OBVIOUS
<1>3. AppIs(a, s.app.active, s.app.loaded, v, s.app.focus, s.app.tree, s.app.reg, s.app.forms, s.app.nvar)
  BY <1>1, <1>2, AppParts
<1>4. AppOK(a)
  BY <1>1, <1>3 DEF AppOK, AppIs
<1>5. SetView(s, v) = SetApp(s, a)
  BY <1>2 DEF SetView
<1>6. /\ Base(SetApp(s, a))
      /\ Agree(s) => Agree(SetApp(s, a))
      /\ Saved(s) => Saved(SetApp(s, a))
      /\ a.tree.of = s.app.tree.of /\ TreeOK(s) => TreeOK(SetApp(s, a))
  BY <1>3, <1>4, AppSet DEF AppIs, Good, Base, NamesKnown
<1> QED  BY <1>3, <1>5, <1>6 DEF AppIs, Good

(* forms. *)
LEMMA FormsViewCommand ==
  ASSUME NEW s, Good(s), NEW r \in cmd_forms(s)
  PROVE  Good(r.s)
<1>1. PICK q \in refresh_forms(s) : IF q.err = "no" THEN r \in Ok(SetView(q.s, "Forms"), 0) ELSE r = q
  BY DEF cmd_forms, Then
<1>2. Good(q.s) /\ (q.err = "no" => q.s.app.active # 0)
  BY <1>1, FormsRefreshed
<1>3. CASE q.err = "no"
  <2>1. PICK t : t = SetView(q.s, "Forms")
    OBVIOUS
  <2>2. Good(t)
    BY <1>2, <1>3, <2>1, ViewSet
  <2> QED  BY <1>1, <1>3, <2>1, <2>2 DEF Ok
<1> QED  BY <1>1, <1>2, <1>3

(* The list is reloaded and the questions are fetched. *)
LEMMA ReloadedDetailed ==
  ASSUME NEW s, Good(s), NEW r \in UNION {IF q.err = "no" THEN details(q.s) ELSE {q} : q \in reload_forms(s)}
  PROVE  Good(r.s)
<1>1. PICK q \in reload_forms(s) : IF q.err = "no" THEN r \in details(q.s) ELSE r = q
  OBVIOUS
<1>2. Good(q.s)
  BY <1>1, FormsReloaded
<1> QED  BY <1>1, <1>2, Detailed

(* hii visibility, hii unlock. *)
LEMMA FlipCommand ==
  ASSUME NEW s, Good(s), NEW r \in cmd_hii_flip(s)
  PROVE  Good(r.s)
<1> DEFINE Rest(t) == UNION {IF q.err = "no" THEN details(q.s) ELSE {q} : q \in reload_forms(t)}
<1>1. PICK gated : gated = TRUE
  OBVIOUS
<1>2. PICK o \in edit(s, s.client.active, gated) : IF o.err = "no" THEN r \in Rest(o.s) ELSE r = o
  <2>1. cmd_hii_flip(s) = UNION {IF o.err = "no" THEN Rest(o.s) ELSE {o} : o \in edit(s, s.client.active, gated)}
    BY <1>1, Zenon DEF cmd_hii_flip, Then
  <2> HIDE DEF Rest
  <2> QED  BY <2>1
<1>3. Good(o.s)
  BY <1>2, ActiveEdited
<1> QED  BY <1>2, <1>3, ReloadedDetailed


(* The questions of a form are a list. *)
LEMMA QuestionsCounted ==
  ASSUME NEW f, FormsOK(f), NEW rows, rows = Asked(f.qfrom, f.qkey)
  PROVE  Len(rows) \in Nat /\ DOMAIN rows = 1..Len(rows)
<1>1. CASE f.qfrom = Nowhere
  BY <1>1 DEF Asked
<1>2. CASE f.qfrom # Nowhere
  <2>1. rows \in Seq(Nat \ {0})
    BY <1>2, LibraryAssumption DEF FormsOK, Asked, Contents
  <2> QED  BY <2>1
<1> QED  BY <1>1, <1>2

(* The question that is looked for is one of them. *)
LEMMA FoundQuestion ==
  ASSUME NEW f, FormsOK(f), NEW qid, NEW rows, rows = Asked(f.qfrom, f.qkey),
         NEW at, at = FirstIn({i \in DOMAIN rows : rows[i] = qid}), at # -1
  PROVE  at \in 0..(Len(rows) - 1)
<1>1. PICK n \in Nat : n = Len(rows) /\ DOMAIN rows = 1..n
  BY QuestionsCounted
<1>2. PICK A : A = {i \in DOMAIN rows : rows[i] = qid}
  OBVIOUS
<1>3. A \subseteq 1..n /\ FirstIn(A) = at
  BY <1>1, <1>2
<1>4. at \in -1..(n - 1)
  BY <1>3, FoundAt
<1>5. at \in 0..(n - 1)
  BY <1>4
<1> QED  BY <1>1, <1>5

(* hii set-value: the cursor goes back to the question it was on. *)
LEMMA SetValueCommand ==
  ASSUME NEW s, Good(s), NEW r \in cmd_hii_set_value(s)
  PROVE  Good(r.s)
<1> DEFINE At(t, qid) == Position(Asked(t.app.forms.qfrom, t.app.forms.qkey), LAMBDA x : x = qid)
           Moved(t, qid) == SetForms(t, [t.app.forms EXCEPT !.qcursor = At(t, qid)])
           Finally(t) == UNION {Ok(n.s, 0) : n \in refresh_question(t)}
           Back(t, qid) == IF qid = 0 \/ At(t, qid) = -1 THEN Ok(t, 0) ELSE Finally(Moved(t, qid))
           Asking(t, qid) == UNION {IF p.err = "no" THEN Back(p.s, qid) ELSE {p} : p \in details(t)}
           Rest(t, qid) == UNION {IF q.err = "no" THEN Asking(q.s, qid) ELSE {q} : q \in reload_forms(t)}
<1>1. PICK gated : gated = TRUE
  OBVIOUS
<1>2. PICK o \in edit(s, s.client.active, gated) :
         IF o.err = "no" THEN r \in Rest(o.s, selected_question_id(o.s.app.forms)) ELSE r = o
  <2>1. cmd_hii_set_value(s) = UNION {IF o.err = "no" THEN Rest(o.s, selected_question_id(o.s.app.forms)) ELSE {o}
                                       : o \in edit(s, s.client.active, gated)}
    BY <1>1, Zenon DEF cmd_hii_set_value, Then, After
  <2> HIDE DEF Rest
  <2> QED  BY <2>1
<1>3. Good(o.s)
  BY <1>2, ActiveEdited
<1>4. CASE o.err = "no"
  <2>1. PICK qid : qid = selected_question_id(o.s.app.forms)
    OBVIOUS
  <2>2. PICK q \in reload_forms(o.s) : IF q.err = "no" THEN r \in Asking(q.s, qid) ELSE r = q
    <3> HIDE DEF Asking
    <3> QED  BY <1>2, <1>4, <2>1
  <2>3. Good(q.s)
    BY <1>3, <2>2, FormsReloaded
  <2>4. CASE q.err = "no"
    <3>1. PICK p \in details(q.s) : IF p.err = "no" THEN r \in Back(p.s, qid) ELSE r = p
      <4> HIDE DEF Back
      <4> QED  BY <2>2, <2>4
    <3>2. Good(p.s) /\ p.err = "no"
      BY <2>3, <3>1, Detailed
    <3>3. CASE r \in Ok(p.s, 0)
      BY <3>2, <3>3 DEF Ok
    <3>4. CASE r \notin Ok(p.s, 0)
      <4>1. At(p.s, qid) # -1 /\ r \in Finally(Moved(p.s, qid))
        <5> HIDE DEF At, Finally, Moved
        <5> QED  BY <3>1, <3>2, <3>4
      <4>2. FormsOK(p.s.app.forms)
        BY <3>2 DEF Good, Base, IsState, AppOK
      <4>3. PICK at : at = At(p.s, qid)
        OBVIOUS
      <4>4. PICK rows : rows = Asked(p.s.app.forms.qfrom, p.s.app.forms.qkey)
        OBVIOUS
      <4>5. at = FirstIn({i \in DOMAIN rows : rows[i] = qid})
        BY <4>3, <4>4 DEF Position, FirstIn
      <4>15. at # -1
        BY <4>1, <4>3
      <4> HIDE DEF At
      <4>6. at \in 0..(Len(rows) - 1)
        <5>1. PICK h : h = p.s.app.forms
          OBVIOUS
        <5> QED  BY <4>2, <4>4, <4>5, <4>15, <5>1, FoundQuestion
      <4>7. PICK f : f = [p.s.app.forms EXCEPT !.qcursor = at]
        OBVIOUS
      <4>8. /\ DOMAIN f = DOMAIN p.s.app.forms /\ f.from = p.s.app.forms.from /\ f.qfrom = p.s.app.forms.qfrom
            /\ f.qkey = p.s.app.forms.qkey /\ f.qcursor \in Nat
            /\ f.info = p.s.app.forms.info /\ f.value = p.s.app.forms.value
            /\ f.qcursor = at /\ ListKept(p.s.app.forms, f) /\ BrowsersKept(p.s.app.forms, f)
        <5>1. at \in Nat
          <6>1. PICK h : h = p.s.app.forms
            OBVIOUS
          <6>2. PICK n \in Nat : n = Len(rows)
            BY <4>2, <4>4, <6>1, QuestionsCounted
          <6> QED  BY <4>6, <6>2
        <5> QED  BY <4>2, <4>7, <5>1 DEF FormsOK, ListKept, BrowsersKept
      <4>9. PICK t : t = SetForms(p.s, f)
        OBVIOUS
      <4>10. Good(t)
        <5> HIDE DEF Back, Asking, Rest, Finally, Moved
        <5>1. PICK h : h = p.s.app.forms
          OBVIOUS
        <5>2. ListFine(f) /\ BrowsersFine(f)
          BY <4>2, <4>8, <5>1, Kept DEF FormsOK
        <5>3. QuestionsFine(f)
          <6>1. PICK n \in Nat : n = Len(rows)
            BY <4>2, <4>4, QuestionsCounted
          <6>2. Asked(f.qfrom, f.qkey) = rows
            BY <4>4, <4>8
          <6>3. InList0(at, n)
            BY <4>6, <6>1 DEF InList0
          <6> QED  BY <4>8, <6>1, <6>2, <6>3 DEF QuestionsFine
        <5> QED  BY <3>2, <4>8, <4>9, <5>2, <5>3, FormsMoved
      <4>11. t = Moved(p.s, qid)
        BY <4>3, <4>7, <4>9
      <4>12. r \in Finally(t)
        <5> HIDE DEF Finally, Moved
        <5> QED  BY <4>1, <4>11
      <4>13. PICK n \in refresh_question(t) : r \in Ok(n.s, 0)
        BY <4>12
      <4>14. Good(n.s)
        BY <4>10, <4>13, QuestionFetched
      <4> QED  BY <4>13, <4>14 DEF Ok
    <3> QED  BY <3>3, <3>4
  <2> QED  BY <2>2, <2>3, <2>4
<1> QED  BY <1>2, <1>3, <1>4

(* Tree, forms and questions are fetched anew. *)
LEMMA AllRefreshed ==
  ASSUME NEW s, Good(s), NEW r \in refresh_all(s)
  PROVE  Good(r.s)
<1> DEFINE Rest(t) == UNION {IF q.err = "no" THEN details(q.s) ELSE {q} : q \in reload_forms(t)}
<1>1. PICK o \in refresh_tree(s) : IF o.err = "no" THEN r \in Rest(o.s) ELSE r = o
  <2>1. refresh_all(s) = UNION {IF o.err = "no" THEN Rest(o.s) ELSE {o} : o \in refresh_tree(s)}
    BY DEF refresh_all, Then
  <2> HIDE DEF Rest
  <2> QED  BY <2>1
<1>2. Good(o.s)
  BY <1>1, Refreshed
<1> QED  BY <1>1, <1>2, ReloadedDetailed

(* hii formset add and the other additions. *)
LEMMA AddCommand ==
  ASSUME NEW s, Good(s), NEW r \in cmd_hii_add(s)
  PROVE  Good(r.s)
<1>1. PICK gated : gated = TRUE
  OBVIOUS
<1>2. PICK o \in edit(s, s.client.active, gated) : IF o.err = "no" THEN r \in refresh_all(o.s) ELSE r = o
  <2>1. cmd_hii_add(s) = UNION {IF o.err = "no" THEN refresh_all(o.s) ELSE {o} : o \in edit(s, s.client.active, gated)}
    BY <1>1, Zenon DEF cmd_hii_add, Then
  <2> QED  BY <2>1
<1>3. Good(o.s)
  BY <1>2, ActiveEdited
<1> QED  BY <1>2, <1>3, AllRefreshed

(* hii import: wherever it stops, the edits that were made are known. *)
LEMMA HiiImportCommand ==
  ASSUME NEW s, Good(s), NEW refs, NEW body, NEW r \in hii_import(s, refs, body)
  PROVE  Good(r.s)
<1> DEFINE Once(t, a) == UNION {IF q.err = "no" THEN Err(q.s) \cup Ok(q.s, 0) ELSE {q} : q \in fetch(t, a)}
           Twice(t) == UNION {IF p.err = "no" THEN Err(p.s) \cup Once(p.s, t.client.active) ELSE {p} : p \in fetch(t, t.client.active)}
           Checked(t) == IF refs THEN Twice(t) ELSE Ok(t, 0)
           Form(t) == UNION {IF p.err = "no" THEN Err(p.s) \cup edit(p.s, t.client.active, TRUE) ELSE {p} : p \in fetch(t, t.client.active)}
           Added(t) == IF body THEN Form(t) ELSE Ok(t, 0)
           Noticed(t) == UNION {Ok(p.s, 0) : p \in edit(t, t.client.active, TRUE)}
           Referred(t) == IF refs THEN Ok(t, 0) \cup Noticed(t) ELSE Ok(t, 0)
           Third(t) == UNION {IF p.err = "no" THEN refresh_all(p.s) ELSE {p} : p \in Referred(t)}
           Second(t) == UNION {IF p.err = "no" THEN Third(p.s) ELSE {p} : p \in Added(t)}
<1>2. hii_import(s, refs, body) = UNION {IF p.err = "no" THEN Second(p.s) ELSE {p} : p \in Checked(s)}
  BY DEF hii_import, Then, After
<1>1. ASSUME NEW t, Good(t), NEW p \in edit(t, t.client.active, TRUE) PROVE Good(p.s)
  <2>1. PICK gated : gated = TRUE
    OBVIOUS
  <2>2. edit(t, t.client.active, gated) = edit(t, t.client.active, TRUE)
    BY <2>1, Zenon
  <2> QED  BY <1>1, <2>2, ActiveEdited
<1>3. ASSUME NEW p \in Checked(s) PROVE Good(p.s)
  <2>1. CASE p \in Ok(s, 0)
    BY <2>1 DEF Ok
  <2>2. CASE p \notin Ok(s, 0)
    <3>1. PICK q \in fetch(s, s.client.active) : IF q.err = "no" THEN p \in Err(q.s) \cup Once(q.s, s.client.active) ELSE p = q
      <4>1. p \in Twice(s)
        BY <1>3, <2>2
      <4> HIDE DEF Once
      <4> QED  BY <4>1
    <3>2. Good(q.s) /\ (q.err = "no" => q.s = s)
      BY <3>1, ActiveFetched
    <3>3. CASE p \in Once(s, s.client.active)
      <4>1. PICK n \in fetch(s, s.client.active) : IF n.err = "no" THEN p \in Err(n.s) \cup Ok(n.s, 0) ELSE p = n
        BY <3>3
      <4>2. Good(n.s)
        BY <4>1, ActiveFetched
      <4> QED  BY <4>1, <4>2 DEF Err, Ok
    <3>4. CASE p \in Err(q.s)
      BY <3>2, <3>4 DEF Err
    <3> QED
      <4> HIDE DEF Once
      <4> QED  BY <3>1, <3>2, <3>3, <3>4
  <2> QED  BY <2>1, <2>2
<1>4. ASSUME NEW t, Good(t), NEW p \in Added(t) PROVE Good(p.s)
  <2>1. CASE p \in Ok(t, 0)
    BY <1>4, <2>1 DEF Ok
  <2>2. CASE p \notin Ok(t, 0)
    <3>1. PICK q \in fetch(t, t.client.active) : IF q.err = "no" THEN p \in Err(q.s) \cup edit(q.s, t.client.active, TRUE) ELSE p = q
      <4>1. p \in Form(t)
        BY <1>4, <2>2
      <4> QED  BY <4>1
    <3>2. Good(q.s) /\ (q.err = "no" => q.s = t)
      BY <1>4, <3>1, ActiveFetched
    <3>3. CASE p \in edit(t, t.client.active, TRUE)
      BY <1>1, <1>4, <3>3
    <3>4. CASE p \in Err(q.s)
      BY <3>2, <3>4 DEF Err
    <3> QED  BY <3>1, <3>2, <3>3, <3>4, Zenon
  <2> QED  BY <2>1, <2>2
<1>5. ASSUME NEW t, Good(t), NEW p \in Referred(t) PROVE Good(p.s)
  <2>1. CASE p \in Ok(t, 0)
    BY <1>5, <2>1 DEF Ok
  <2>2. CASE p \notin Ok(t, 0)
    <3>1. PICK q \in edit(t, t.client.active, TRUE) : p \in Ok(q.s, 0)
      <4>1. p \in Noticed(t)
        BY <1>5, <2>2
      <4> QED  BY <4>1
    <3>2. Good(q.s)
      BY <1>1, <1>5, <3>1
    <3> QED  BY <3>1, <3>2 DEF Ok
  <2> QED  BY <2>1, <2>2
<1> HIDE DEF Checked, Added, Referred
<1>6. PICK p \in Checked(s) : IF p.err = "no" THEN r \in Second(p.s) ELSE r = p
  <2> HIDE DEF Second
  <2> QED  BY <1>2
<1>7. Good(p.s)
  BY <1>3
<1>8. CASE p.err = "no"
  <2>1. PICK q \in Added(p.s) : IF q.err = "no" THEN r \in Third(q.s) ELSE r = q
    <3> HIDE DEF Third
    <3> QED  BY <1>6, <1>8
  <2>2. Good(q.s)
    BY <1>4, <1>7
  <2>3. CASE q.err = "no"
    <3>1. PICK n \in Referred(q.s) : IF n.err = "no" THEN r \in refresh_all(n.s) ELSE r = n
      BY <2>1, <2>3
    <3>2. Good(n.s)
      BY <1>5, <2>2
    <3> QED  BY <3>1, <3>2, AllRefreshed
  <2> QED  BY <2>1, <2>2, <2>3
<1> QED  BY <1>6, <1>7, <1>8

(***************************************************************************)
(* A new process.                                                          *)
(***************************************************************************)
(* What a new process knows is in the state file. *)
Starting(s) ==
  /\ Base(s) /\ Saved(s) /\ s.app.active = 0 /\ s.app.tree.of = 0 /\ s.app.view = "Image"
  /\ Sources(s.app.forms) \subseteq {Nowhere}

(* restore_session: the image of the state file is listed and active, or   *)
(* it is active nowhere.                                                   *)
LEMMA SessionRestored ==
  ASSUME NEW s, Starting(s), NEW r \in restore_session(s)
  PROVE  Good(r.s)
<1> DEFINE Found(t, q) == Loaded(SetTree(SetActive(q.s, t.client.active), build_tree(t.client.active, q.val)))
           Answer(t, q) == IF q.err = "no" THEN Ok(Found(t, q), 0) ELSE Ok(Unsaved(SetActive(q.s, 0), TRUE), 0)
           Rest(t) == IF t.client.active = 0 THEN Ok(t, 0) ELSE UNION {Answer(t, q) : q \in fetch(t, t.client.active)}
<1>1. restore_session(s) = UNION {Rest(o.s) : o \in refresh_registry(s)}
  BY Zenon DEF restore_session, After
<1>2. PICK o \in refresh_registry(s) : r \in Rest(o.s)
  <2> HIDE DEF Rest
  <2> QED  BY <1>1
<1>3. PICK t : t = o.s
  OBVIOUS
<1>4. /\ Base(t) /\ Saved(t) /\ t.client = s.client /\ t.app.active = 0 /\ t.app.view = "Image"
      /\ Sources(t.app.forms) \subseteq {Nowhere} /\ TreeOK(t)
  <2>1. TreeOK(s)
    BY DEF Starting, TreeOK
  <2> QED  BY <1>2, <1>3, <2>1, RegistryFetched DEF Starting
<1>5. CASE t.client.active = 0
  <2>1. Good(t)
    BY <1>4, <1>5 DEF Good, Agree
  <2>2. r \in Ok(t, 0)
    BY <1>2, <1>3, <1>5
  <2> QED  BY <2>1, <2>2 DEF Ok
<1>6. CASE t.client.active # 0
  <2>1. PICK i : i = t.client.active
    OBVIOUS
  <2>2. Known(t.engine, i) /\ IsClient(t.client)
    BY <1>4, <2>1 DEF Base, IsState, NamesKnown
  <2>3. PICK q \in fetch(t, i) : r \in Answer(t, q)
    <3> HIDE DEF Answer
    <3> QED  BY <1>2, <1>3, <1>6, <2>1
  <2>4. \/ q.err = "error" /\ Alike(t, q.s)
        \/ q.err = "no" /\ q.s = t /\ q.val \in Contents
    <3>1. \/ q.err = "error" /\ Alike(t, q.s)
          \/ q.err = "no" /\ q.s = t /\ Live(t, i) /\ q.val = t.engine.img[i].content
      BY <1>4, <2>3, FetchOutcome DEF Base
    <3> QED  BY <1>4, <3>1 DEF Base, IsState, EngineOK, IsImage, Live
  <2>5. CASE q.err = "error"
    <3>1. Base(q.s) /\ Saved(q.s) /\ q.s.app = t.app
      BY <1>4, <2>4, <2>5, AlikeGood DEF Alike
    <3>2. PICK x : x = SetActive(q.s, 0)
      OBVIOUS
    <3>3. Base(x) /\ Agree(x) /\ x.app.active = 0 /\ x.app.tree = t.app.tree /\ x.note = q.s.note
      BY <1>4, <3>1, <3>2, ActiveSet DEF Known
    <3>4. PICK u : u = Unsaved(x, TRUE)
      OBVIOUS
    <3>5. Noting(x, u, TRUE, x.note.upload, x.note.forms, x.note.pane)
      BY <3>3, <3>4, Notes DEF Base
    <3>6. Base(u) /\ Agree(u)
      BY <3>3, <3>5, NotedBase
    <3>7. Saved(u)
      BY <3>5 DEF Saved, Noting, NoteIs
    <3>8. TreeOK(u)
      <4>1. u.app = x.app /\ u.note.upload = x.note.upload
        BY <3>5, Zenon DEF Noting, NoteIs, Are
      <4>2. t.note.upload = q.s.note.upload
        BY <2>4, <2>5 DEF Alike
      <4> QED  BY <1>4, <3>3, <4>1, <4>2 DEF TreeOK
    <3>9. r \in Ok(u, 0)
      <4>1. Unsaved(SetActive(q.s, 0), TRUE) = u
        BY <3>2, <3>4, Zenon
      <4> QED  BY <2>3, <2>5, <4>1
    <3> QED  BY <3>6, <3>7, <3>8, <3>9 DEF Good, Ok
  <2>6. CASE q.err = "no"
    <3>1. PICK x : x = SetActive(t, i)
      OBVIOUS
    <3>2. /\ Base(x) /\ Agree(x) /\ x.app.active = i /\ x.disk = t.disk /\ x.note = t.note
          /\ IsClient(x.client) /\ x.client.active = i /\ x.client.sess = t.client.sess
      BY <1>4, <2>2, <3>1, ActiveSet
    <3>3. x.client = t.client
      BY <2>1, <2>2, <3>2 DEF IsClient
    <3>4. Saved(x)
      BY <1>4, <3>2, <3>3 DEF Saved
    <3>5. PICK v : v = build_tree(i, q.val)
      OBVIOUS
    <3>6. IsTree(v) /\ v.of = i
      BY <2>4, <2>6, <3>5, TreeBuilt
    <3>7. PICK y : y = SetTree(x, v)
      OBVIOUS
    <3>8. Good(y)
      BY <3>2, <3>4, <3>6, <3>7, TreeSet DEF Good
    <3>9. Good(Loaded(y))
      BY <3>8, LoadedGood DEF Good
    <3>10. r \in Ok(Loaded(y), 0)
      <4>1. Found(t, q) = Loaded(y)
        BY <2>1, <2>4, <2>6, <3>1, <3>5, <3>7
      <4> HIDE DEF Found
      <4> QED  BY <2>3, <2>6, <4>1
    <3> QED  BY <3>9, <3>10 DEF Ok
  <2> QED  BY <2>4, <2>5, <2>6
<1> QED  BY <1>5, <1>6

(***************************************************************************)
(* Every step.                                                             *)
(***************************************************************************)
(* The state after a step is the outcome of its command. *)
LEMMA Arrived ==
  ASSUME NEW t, Good(t),
         engine' = t.engine, client' = t.client, disk' = t.disk, app' = t.app, note' = t.note
  PROVE  Good(S)'
<1>1. PICK u : u = S'
  OBVIOUS
<1>2. Are(u, t.engine, t.client, t.disk, t.app, t.note)
  BY <1>1 DEF S, Are, StateFields
<1>3. IsState(u)
  BY <1>2 DEF Good, Base, IsState, Are
<1>4. Good(u)
  BY <1>2, <1>3 DEF Good, Base, NamesKnown, FormsCurrent, Here, PaneOf, Live, Agree, TreeOK, Saved, Are
<1> QED  BY <1>1, <1>4

To(t) == engine' = t.engine /\ client' = t.client /\ disk' = t.disk /\ app' = t.app /\ note' = t.note

(* The same, for a key that changes the app only. *)
LEMMA AppArrived ==
  ASSUME NEW s, s = S, IsState(s), NEW a, Good(SetApp(s, a)), OnlyApp(a)
  PROVE  Good(S)'
<1>1. PICK t : t = SetApp(s, a)
  OBVIOUS
<1>2. Are(t, s.engine, s.client, s.disk, a, s.note)
  BY <1>1, AppSetParts
<1>3. s.engine = engine /\ s.client = client /\ s.disk = disk /\ s.note = note
  BY DEF S
<1>4. engine' = t.engine /\ client' = t.client /\ disk' = t.disk /\ app' = t.app /\ note' = t.note
  BY <1>2, <1>3 DEF OnlyApp, Are
<1> QED  BY <1>1, <1>4, Arrived

(* An app that has only just started. *)
LEMMA NoAppFine == AppOK(NoApp)
<1>1. FormsOK(NoForms)
  <2>1. PICK f : f = NoForms
    OBVIOUS
  <2>2. /\ f.forms = <<>> /\ f.edges = <<>> /\ f.cursor = 0 /\ f.focus = "List" /\ f.qkey = NoKey /\ f.qfrom = Nowhere
        /\ f.qcursor = 0 /\ f.strings = Nowhere /\ f.stores = Nowhere /\ f.scursor = 0 /\ f.vcursor = 0
        /\ f.info = <<NoKey, 0, Nowhere>> /\ f.value = <<NoKey, 0, Nowhere>>
    BY <2>1 DEF NoForms
  <2>3. ListFine(f)
    BY <2>2 DEF ListFine, IsList, InList0
  <2>4. QuestionsFine(f) /\ BrowsersFine(f)
    BY <2>2 DEF QuestionsFine, BrowsersFine, InList0
  <2>5. OfAForm(f.info) /\ OfAForm(f.value)
    BY <2>2 DEF OfAForm
  <2>6. DOMAIN f = DOMAIN NoForms
    BY <2>1
  <2> QED  BY <2>1, <2>2, <2>3, <2>4, <2>5, <2>6 DEF FormsOK, NoForms
<1>2. PICK a : a = NoApp
  OBVIOUS
<1>3. /\ DOMAIN a = AppFields /\ a.tree = NoTree /\ a.forms = NoForms /\ a.nvar = NoPane
      /\ DOMAIN a.reg = {"images", "arts", "cursor"} /\ a.reg.arts = 0 /\ a.reg.cursor = 0
      /\ a.focus = "Tree" /\ a.view = "Image"
  BY <1>2 DEF NoApp, AppFields
<1>4. RegFine(a.reg)
  BY <1>3 DEF RegFine, InList0
<1> QED  BY <1>1, <1>2, <1>3, <1>4, NoTreeFine DEF AppOK, NoPane

(* Commands that open, choose and close images. *)
LEMMA SessionStep ==
  ASSUME Good(S), SessionCommands
  PROVE  Good(S)'
<1>1. PICK s : s = S
  OBVIOUS
<1>2. Good(s)
  BY <1>1
<1>3. CASE Open
  <2>1. PICK w \in BOOLEAN : \E r \in cmd_open(s, w) : To(r.s)
    BY <1>1, <1>3 DEF Open, Become, To
  <2>2. PICK r \in cmd_open(s, w) : To(r.s)
    BY <2>1
  <2>3. Good(r.s)
    BY <1>2, <2>2, OpenCommand
  <2> QED  BY <2>2, <2>3, Arrived DEF To
<1>4. CASE Upload
  <2>1. PICK w \in BOOLEAN : \E r \in cmd_upload(s, w) : To(r.s)
    BY <1>1, <1>4 DEF Upload, Become, To
  <2>2. PICK r \in cmd_upload(s, w) : To(r.s)
    BY <2>1
  <2>3. Good(r.s)
    BY <1>2, <2>2, UploadCommand
  <2> QED  BY <2>2, <2>3, Arrived DEF To
<1>5. CASE Import
  <2>1. PICK r \in cmd_import(s) : To(r.s)
    BY <1>1, <1>5 DEF Import, Become, To
  <2>2. Good(r.s)
    BY <1>2, <2>1, ImportCommand
  <2> QED  BY <2>1, <2>2, Arrived DEF To
<1>6. CASE Artifacts
  <2>1. PICK r \in ensure_session(s) : To(r.s)
    BY <1>1, <1>6 DEF Artifacts, Become, To
  <2>2. Good(r.s)
    BY <1>2, <2>1, SessionEnsured
  <2> QED  BY <2>1, <2>2, Arrived DEF To
<1>7. CASE Switch
  <2>1. PICK i \in Images : \E r \in cmd_switch(s, i) : To(r.s)
    BY <1>1, <1>7 DEF Switch, Become, To
  <2>2. PICK r \in cmd_switch(s, i) : To(r.s)
    BY <2>1
  <2>3. Good(r.s)
    BY <1>2, <2>2, SwitchCommand
  <2> QED  BY <2>2, <2>3, Arrived DEF To
<1>8. CASE Close
  <2>1. PICK i \in Images : \E r \in cmd_close(s, i) : To(r.s)
    BY <1>1, <1>8 DEF Close, Become, To
  <2>2. PICK r \in cmd_close(s, i) : To(r.s)
    BY <2>1
  <2>3. Good(r.s)
    BY <1>2, <2>1, <2>2, CloseCommand
  <2> QED  BY <2>2, <2>3, Arrived DEF To
<1>9. CASE Reopen
  <2>1. PICK w \in BOOLEAN : \E r \in reopen(s, w) : To(r.s)
    BY <1>1, <1>9 DEF Reopen, Become, To
  <2>2. PICK r \in reopen(s, w) : To(r.s)
    BY <2>1
  <2>3. Good(r.s)
    BY <1>2, <2>1, <2>2, ReopenCommand
  <2> QED  BY <2>2, <2>3, Arrived DEF To
<1>10. CASE Refresh
  <2>1. PICK r \in refresh_registry(s) : To(r.s)
    BY <1>1, <1>10 DEF Refresh, Become, To
  <2>2. Good(r.s)
    BY <1>2, <2>1, Refreshed
  <2> QED  BY <2>1, <2>2, Arrived DEF To
<1>11. CASE Start
  <2>1. PICK b : b = FALSE
    OBVIOUS
  <2>2. PICK n : n = [s.note EXCEPT !.forms = b, !.pane = b, !.upload = b]
    OBVIOUS
  <2>3. PICK t : t = [s EXCEPT !.app = NoApp, !.client = s.disk, !.note = n]
    OBVIOUS
  <2>4. [S EXCEPT !.app = NoApp, !.client = disk, !.note = [@ EXCEPT !.forms = FALSE, !.pane = FALSE, !.upload = FALSE]] = t
    <3>1. s.disk = disk
      BY <1>1 DEF S
    <3> QED  BY <1>1, <2>1, <2>2, <2>3, <3>1, Zenon
  <2>5. Are(t, s.engine, s.disk, s.disk, NoApp, n)
    BY <1>2, <2>3 DEF Good, Base, IsState, StateFields, Are
  <2>6. IsNote(n)
    BY <1>2, <2>2 DEF Good, Base, IsState, IsNote
  <2>7. Sources(NoForms) = {Nowhere}
    BY DEF NoForms, Sources
  <2>8. /\ DOMAIN NoApp = AppFields /\ NoApp.active = 0 /\ NoApp.view = "Image" /\ NoApp.tree = NoTree /\ NoApp.forms = NoForms
        /\ NoApp.nvar = NoPane /\ DOMAIN NoApp.reg = {"images", "arts", "cursor"} /\ NoApp.reg.images = <<>>
    BY DEF NoApp, AppFields
  <2>9. AppOK(NoApp)
    BY NoAppFine
  <2>10. IsState(t)
    BY <1>2, <2>5, <2>6, <2>9 DEF Good, Base, IsState, Are
  <2>11. NamesKnown(t)
    <3>1. NoApp.nvar.key[1] = 0
      BY <2>8 DEF NoPane
    <3>2. DOMAIN NoApp.reg.images = {}
      BY <2>8
    <3>3. Known(s.engine, s.disk.active)
      BY <1>2 DEF Good, Base, NamesKnown
    <3> QED  BY <2>5, <2>8, <3>1, <3>2, <3>3 DEF NamesKnown, Known, Are
  <2>12. FormsCurrent(t) /\ PaneOf(t) /\ Saved(t)
    BY <2>5, <2>8 DEF FormsCurrent, PaneOf, NoPane, Saved, Are
  <2>13. Starting(t)
    BY <2>5, <2>7, <2>8, <2>10, <2>11, <2>12 DEF Starting, Base, NoTree, Are
  <2>14. PICK r \in restore_session(t) : To(r.s)
    BY <1>11, <2>4 DEF Start, Become, To
  <2>15. Good(r.s)
    BY <2>13, <2>14, SessionRestored
  <2> QED  BY <2>14, <2>15, Arrived DEF To
<1> QED  BY <1>3, <1>4, <1>5, <1>6, <1>7, <1>8, <1>9, <1>10, <1>11 DEF SessionCommands

(* Commands on nodes, snapshots and variables. *)
LEMMA NodeStep ==
  ASSUME Good(S), NodeCommands
  PROVE  Good(S)'
<1>1. PICK s : s = S
  OBVIOUS
<1>2. Good(s)
  BY <1>1
<1>3. CASE Snapshot
  <2>1. PICK r \in cmd_snapshot(s) : To(r.s)
    BY <1>1, <1>3 DEF Snapshot, Become, To
  <2>2. Good(r.s)
    BY <1>2, <2>1, SnapshotCommand
  <2> QED  BY <2>1, <2>2, Arrived DEF To
<1>4. CASE Restore
  <2>1. PICK r \in cmd_restore(s) : To(r.s)
    BY <1>1, <1>4 DEF Restore, Become, To
  <2>2. Good(r.s)
    BY <1>2, <2>1, RestoreCommand
  <2> QED  BY <2>1, <2>2, Arrived DEF To
<1>5. CASE Extract
  <2>1. PICK r \in cmd_extract(s) : To(r.s)
    BY <1>1, <1>5 DEF Extract, Become, To
  <2>2. Good(r.s)
    BY <1>2, <2>1, ExtractCommand
  <2> QED  BY <2>1, <2>2, Arrived DEF To
<1>6. CASE InsertNode
  <2>1. PICK r \in cmd_insert(s) : To(r.s)
    BY <1>1, <1>6 DEF InsertNode, Become, To
  <2>2. Good(r.s)
    BY <1>2, <2>1, InsertCommand
  <2> QED  BY <2>1, <2>2, Arrived DEF To
<1>7. CASE RemoveNode
  <2>1. PICK r \in cmd_remove(s) : To(r.s)
    BY <1>1, <1>7 DEF RemoveNode, Become, To
  <2>2. Good(r.s)
    BY <1>2, <2>1, RemoveCommand
  <2> QED  BY <2>1, <2>2, Arrived DEF To
<1>8. CASE NvarSet
  <2>1. PICK r \in cmd_nvar_set(s) : To(r.s)
    BY <1>1, <1>8 DEF NvarSet, Become, To
  <2>2. Good(r.s)
    BY <1>2, <2>1, NvarSetCommand
  <2> QED  BY <2>1, <2>2, Arrived DEF To
<1>9. CASE TseUnhide
  <2>1. PICK r \in cmd_tse_unhide(s) : To(r.s)
    BY <1>1, <1>9 DEF TseUnhide, Become, To
  <2>2. Good(r.s)
    BY <1>2, <2>1, TseCommand
  <2> QED  BY <2>1, <2>2, Arrived DEF To
<1>10. CASE Save
  <2>1. PICK r \in fetch(s, s.client.active) : To(r.s)
    BY <1>1, <1>10 DEF Save, cmd_save, Become, To
  <2>2. Good(r.s)
    BY <1>2, <2>1, ActiveFetched
  <2> QED  BY <2>1, <2>2, Arrived DEF To
<1>11. CASE NvarList
  <2>1. PICK m \in Range(Nodes(app.tree)) : Become(cmd_nvar_list(S, m.path))
    BY <1>11 DEF NvarList
  <2>2. PICK p : p = m.path
    OBVIOUS
  <2>3. PICK r \in cmd_nvar_list(s, p) : To(r.s)
    BY <1>1, <2>1, <2>2 DEF Become, To
  <2>4. HasNode(s.app.tree, p)
    BY <1>1, <2>1, <2>2 DEF S, HasNode
  <2>5. Good(r.s)
    BY <1>2, <2>3, <2>4, NvarListCommand
  <2> QED  BY <2>3, <2>5, Arrived DEF To
<1> QED  BY <1>3, <1>4, <1>5, <1>6, <1>7, <1>8, <1>9, <1>10, <1>11 DEF NodeCommands

(* Commands of the forms view, and additions. *)
LEMMA FormsStep ==
  ASSUME Good(S), FormsCommands \/ AddCommands
  PROVE  Good(S)'
<1>1. PICK s : s = S
  OBVIOUS
<1>2. Good(s)
  BY <1>1
<1>3. CASE FormsCommand
  <2>1. PICK r \in cmd_forms(s) : To(r.s)
    BY <1>1, <1>3 DEF FormsCommand, Become, To
  <2>2. Good(r.s)
    BY <1>2, <2>1, FormsViewCommand
  <2> QED  BY <2>1, <2>2, Arrived DEF To
<1>4. CASE HiiFlip
  <2>1. PICK r \in cmd_hii_flip(s) : To(r.s)
    BY <1>1, <1>4 DEF HiiFlip, Become, To
  <2>2. Good(r.s)
    BY <1>2, <2>1, FlipCommand
  <2> QED  BY <2>1, <2>2, Arrived DEF To
<1>5. CASE HiiSetValue
  <2>1. PICK r \in cmd_hii_set_value(s) : To(r.s)
    BY <1>1, <1>5 DEF HiiSetValue, Become, To
  <2>2. Good(r.s)
    BY <1>2, <2>1, SetValueCommand
  <2> QED  BY <2>1, <2>2, Arrived DEF To
<1>6. CASE FormKeyCommand
  <2>1. PICK r \in cmd_hii_flip(s) : To(r.s)
    BY <1>1, <1>6 DEF FormKeyCommand, Become, To
  <2>2. Good(r.s)
    BY <1>2, <2>1, FlipCommand
  <2> QED  BY <2>1, <2>2, Arrived DEF To
<1>7. CASE HiiAdd
  <2>1. PICK r \in cmd_hii_add(s) : To(r.s)
    BY <1>1, <1>7 DEF HiiAdd, Become, To
  <2>2. Good(r.s)
    BY <1>2, <2>1, AddCommand
  <2> QED  BY <2>1, <2>2, Arrived DEF To
<1>8. CASE HiiImport
  <2>1. PICK refs \in BOOLEAN, body \in BOOLEAN : Become(hii_import(S, refs, body))
    BY <1>8 DEF HiiImport
  <2>2. PICK r \in hii_import(s, refs, body) : To(r.s)
    BY <1>1, <2>1 DEF Become, To
  <2>3. Good(r.s)
    BY <1>2, <2>2, HiiImportCommand
  <2> QED  BY <2>2, <2>3, Arrived DEF To
<1> QED  BY <1>3, <1>4, <1>5, <1>6, <1>7, <1>8 DEF FormsCommands, AddCommands

(* A change of focus or of a cursor in the registry. *)
LEMMA AppMoved ==
  ASSUME NEW s, Good(s), NEW a, AppOK(a), a.active = s.app.active, a.forms = s.app.forms, a.nvar = s.app.nvar,
         a.tree = s.app.tree, a.reg.images = s.app.reg.images
  PROVE  Good(SetApp(s, a))
BY AppSet DEF Good, Base, NamesKnown

(* The pane is fetched when its node is selected. *)
LEMMA PaneShown ==
  ASSUME NEW s, Good(s), NEW r \in UNION {Ok(q.s, 0) : q \in refresh_nvars_if_needed(s)}
  PROVE  Good(r.s)
<1>1. PICK q \in refresh_nvars_if_needed(s) : r \in Ok(q.s, 0)
  OBVIOUS
<1>2. Good(q.s)
  BY <1>1, PaneFetched
<1> QED  BY <1>1, <1>2 DEF Ok

(* The focus is only drawn. *)
LEMMA FocusSet ==
  ASSUME NEW s, Good(s), NEW to \in {"Registry", "Tree", "Details"}
  PROVE  Good(SetApp(s, [s.app EXCEPT !.focus = to]))
<1>1. AppOK(s.app)
  BY DEF Good, Base, IsState
<1>2. PICK a : a = [s.app EXCEPT !.focus = to]
  OBVIOUS
<1>3. AppIs(a, s.app.active, s.app.loaded, s.app.view, to, s.app.tree, s.app.reg, s.app.forms, s.app.nvar)
  BY <1>1, <1>2, AppParts
<1>4. AppOK(a)
  BY <1>1, <1>3 DEF AppOK, AppIs
<1> QED  BY <1>2, <1>3, <1>4, AppMoved DEF AppIs

(* The rows of the registry are a list. *)
LEMMA RegistryCounted ==
  ASSUME NEW g, g.arts \in Nat
  PROVE  Len(registry_selectable(g)) \in Nat
<1>1. PICK I : I = {i \in DOMAIN [j \in Images |-> j] : [j \in Images |-> j][i] \in DOMAIN g.images}
  OBVIOUS
<1>2. PICK own : own = Picked([j \in Images |-> j], I)
  OBVIOUS
<1>3. own \in Seq(Images)
  <2>1. PICK all : all = [j \in Images |-> j]
    OBVIOUS
  <2>2. all \in Seq(Images)
    BY <2>1, LibraryAssumption DEF Images
  <2> QED  BY <1>2, <2>1, <2>2, PickedRange
<1>4. PICK a : a = [k \in DOMAIN own |-> [kind |-> "image", id |-> own[k]]]
  OBVIOUS
<1>5. PICK b : b = [i \in 1..g.arts |-> [kind |-> "artifact", id |-> i]]
  OBVIOUS
<1>6. registry_selectable(g) = a \o b
  BY <1>1, <1>2, <1>4, <1>5 DEF registry_selectable, Keep
<1>7. PICK n \in Nat : DOMAIN own = 1..n
  BY <1>3
<1>8. PICK T : T = {a[k] : k \in 1..n} \cup {b[k] : k \in 1..g.arts}
  OBVIOUS
<1>9. a \in Seq(T)
  BY <1>4, <1>7, <1>8
<1>10. b \in Seq(T)
  <2>1. PICK m \in Nat : m = g.arts
    OBVIOUS
  <2>2. DOMAIN b = 1..m /\ b = [i \in 1..m |-> b[i]]
    BY <1>5, <2>1
  <2>3. \A i \in 1..m : b[i] \in T
    BY <1>8, <2>1
  <2> QED  BY <2>1, <2>2, <2>3
<1> QED  BY <1>6, <1>9, <1>10

(* Keys of the registry. *)
LEMMA RegistryStep ==
  ASSUME Good(S), RegistryKeys
  PROVE  Good(S)'
<1>1. PICK s : s = S
  OBVIOUS
<1>2. Good(s)
  BY <1>1
<1>3. IsState(s) /\ AppOK(s.app) /\ s.app = app
  BY <1>1, <1>2 DEF Good, Base, IsState, S
<1>4. CASE MoveInRegistry
  <2>1. PICK c \in 0..(Len(registry_selectable(app.reg)) - 1) : OnlyApp([app EXCEPT !.reg = [@ EXCEPT !.cursor = c]])
    BY <1>4 DEF MoveInRegistry
  <2>2. PICK g : g = [s.app.reg EXCEPT !.cursor = c]
    OBVIOUS
  <2>3. DOMAIN g = {"images", "arts", "cursor"} /\ g.images = s.app.reg.images /\ g.arts = s.app.reg.arts /\ g.cursor = c
    BY <1>3, <2>2 DEF AppOK
  <2>9. RegFine(g)
    <3>1. PICK o : o = s.app.reg
      OBVIOUS
    <3>2. o.arts \in Nat
      BY <1>3, <3>1 DEF AppOK, RegFine
    <3>3. PICK n \in Nat : n = Len(registry_selectable(o))
      BY <3>2, RegistryCounted
    <3>4. registry_selectable(g) = registry_selectable(o)
      BY <2>3, <3>1 DEF registry_selectable
    <3>5. c \in 0..(n - 1)
      BY <1>3, <3>1, <3>3
    <3> QED  BY <2>3, <3>1, <3>2, <3>3, <3>4, <3>5 DEF RegFine, InList0
  <2>4. PICK a : a = [s.app EXCEPT !.reg = g]
    OBVIOUS
  <2>5. AppIs(a, s.app.active, s.app.loaded, s.app.view, s.app.focus, s.app.tree, g, s.app.forms, s.app.nvar)
    BY <1>3, <2>4, AppParts
  <2>6. AppOK(a)
    BY <1>3, <2>3, <2>5, <2>9 DEF AppOK, AppIs
  <2>7. Good(SetApp(s, a))
    BY <1>2, <2>3, <2>5, <2>6, AppMoved DEF AppIs
  <2>8. OnlyApp(a)
    BY <1>3, <2>1, <2>2, <2>4
  <2> QED  BY <1>1, <1>3, <2>7, <2>8, AppArrived
<1>5. CASE FocusMove
  <2>1. PICK to \in {"Registry", "Tree", "Details"} : IF to = "Details"
                  THEN Become(After(refresh_nvars_if_needed(SetApp(S, [app EXCEPT !.focus = to])), LAMBDA r : Ok(r.s, 0)))
                  ELSE OnlyApp(SetApp(S, [app EXCEPT !.focus = to]).app)
    BY <1>5 DEF FocusMove
  <2>2. PICK a : a = [s.app EXCEPT !.focus = to]
    OBVIOUS
  <2>3. PICK t : t = SetApp(s, a)
    OBVIOUS
  <2>4. Good(t)
    BY <1>2, <2>2, <2>3, FocusSet
  <2>5. SetApp(S, [app EXCEPT !.focus = to]) = t /\ t.app = a
    <3>1. SetApp(S, [app EXCEPT !.focus = to]) = t
      BY <1>1, <1>3, <2>2, <2>3
    <3>2. t.app = a
      BY <1>3, <2>3, AppSetParts DEF Are
    <3> QED  BY <3>1, <3>2
  <2>6. CASE to = "Details"
    <3>1. PICK r \in UNION {Ok(q.s, 0) : q \in refresh_nvars_if_needed(t)} : To(r.s)
      BY <2>1, <2>5, <2>6 DEF Become, After, To
    <3>2. Good(r.s)
      BY <2>4, <3>1, PaneShown
    <3> QED  BY <3>1, <3>2, Arrived DEF To
  <2>7. CASE to # "Details"
    <3>1. OnlyApp(a)
      BY <2>1, <2>5, <2>7
    <3> QED  BY <1>1, <1>3, <2>3, <2>4, <3>1, AppArrived
  <2> QED  BY <2>6, <2>7
<1>6. CASE RegistryEnter
  <2>1. PICK i : i = current_registry_row(s).id
    OBVIOUS
  <2>2. PICK r \in UNION {Ok(SetApp(q.s, [q.s.app EXCEPT !.focus = "Tree"]), 0) : q \in cmd_switch(s, i)} : To(r.s)
    BY <1>1, <1>6, <2>1 DEF RegistryEnter, Become, After, To
  <2>3. PICK q \in cmd_switch(s, i) : r \in Ok(SetApp(q.s, [q.s.app EXCEPT !.focus = "Tree"]), 0)
    BY <2>2
  <2>4. Good(q.s)
    BY <1>2, <2>3, SwitchCommand
  <2>5. PICK t : t = SetApp(q.s, [q.s.app EXCEPT !.focus = "Tree"])
    OBVIOUS
  <2>6. Good(t)
    BY <2>4, <2>5, FocusSet
  <2>7. r.s = t
    BY <2>3, <2>5 DEF Ok
  <2> QED  BY <2>2, <2>6, <2>7, Arrived DEF To
<1> QED  BY <1>4, <1>5, <1>6 DEF RegistryKeys

(* Keys of the node tree. *)
LEMMA TreeStep ==
  ASSUME Good(S), TreeKeys
  PROVE  Good(S)'
<1>1. PICK s : s = S
  OBVIOUS
<1>2. Good(s)
  BY <1>1
<1>3. IsState(s) /\ AppOK(s.app) /\ s.app = app /\ IsTree(s.app.tree)
  BY <1>1, <1>2 DEF Good, Base, IsState, S, AppOK
<1>4. ASSUME NEW v, IsTree(v), v.of = s.app.tree.of, OnlyApp([app EXCEPT !.tree = v]) PROVE Good(S)'
  <2>1. PICK a : a = [s.app EXCEPT !.tree = v]
    OBVIOUS
  <2>2. SetTree(s, v) = SetApp(s, a)
    BY <2>1 DEF SetTree
  <2>3. Good(SetApp(s, a))
    BY <1>2, <1>4, <2>2, TreeMoved
  <2>4. OnlyApp(a)
    BY <1>3, <1>4, <2>1
  <2> QED  BY <1>1, <1>3, <2>3, <2>4, AppArrived
<1>5. CASE Goto
  <2>1. PICK m \in Range(Nodes(app.tree)) : OnlyApp([app EXCEPT !.tree = goto_path(@, m.path)])
    BY <1>5 DEF Goto
  <2>2. PICK p : p = m.path
    OBVIOUS
  <2>3. PICK v : v = goto_path(s.app.tree, p)
    OBVIOUS
  <2>4. IsTree(v) /\ v.of = s.app.tree.of
    <3>1. HasNode(s.app.tree, p)
      BY <1>3, <2>1, <2>2 DEF HasNode
    <3> QED  BY <1>3, <2>3, <3>1, WentTo
  <2>5. OnlyApp([app EXCEPT !.tree = v])
    BY <1>3, <2>1, <2>2, <2>3
  <2> QED  BY <1>4, <2>4, <2>5
<1>6. CASE ExpandNode
  <2>1. PICK e \in BOOLEAN : OnlyApp([app EXCEPT !.tree = set_expand_selected(@, e)])
    BY <1>6 DEF ExpandNode
  <2>2. PICK v : v = set_expand_selected(s.app.tree, e)
    OBVIOUS
  <2>3. IsTree(v) /\ v.of = s.app.tree.of
    BY <1>3, <2>2, ExpandedTree
  <2>4. OnlyApp([app EXCEPT !.tree = v])
    BY <1>3, <2>1, <2>2
  <2> QED  BY <1>4, <2>3, <2>4
<1>7. CASE MoveInTree
  <2>1. PICK c \in 0..(Len(visible_rows(app.tree)) - 1) :
          Become(After(refresh_nvars_if_needed(SetTree(S, [app.tree EXCEPT !.cursor = c])), LAMBDA r : Ok(r.s, 0)))
    BY <1>7 DEF MoveInTree, Moves
  <2>2. PICK v : v = [s.app.tree EXCEPT !.cursor = c]
    OBVIOUS
  <2>3. IsTree(v) /\ v.of = s.app.tree.of
    <3>1. PICK o : o = s.app.tree
      OBVIOUS
    <3>2. DOMAIN o = {"of", "content", "expanded", "cursor"} /\ o.content \in Contents \cup {0}
      BY <1>3, <3>1 DEF IsTree, TreeFine
    <3>3. c \in 0..(Len(visible_rows(o)) - 1)
      BY <1>3, <3>1
    <3> QED  BY <2>2, <3>1, <3>2, <3>3, TreeAt
  <2>4. PICK t : t = SetTree(s, v)
    OBVIOUS
  <2>5. Good(t)
    BY <1>2, <2>3, <2>4, TreeMoved
  <2>6. SetTree(S, [app.tree EXCEPT !.cursor = c]) = t
    BY <1>1, <1>3, <2>2, <2>4
  <2>7. PICK r \in UNION {Ok(q.s, 0) : q \in refresh_nvars_if_needed(t)} : To(r.s)
    BY <2>1, <2>6 DEF Become, After, To
  <2>8. Good(r.s)
    BY <2>5, <2>7, PaneShown
  <2> QED  BY <2>7, <2>8, Arrived DEF To
<1> QED  BY <1>5, <1>6, <1>7 DEF TreeKeys

(* What the keys of the forms view leave alone. *)
FormsAlike(f, g) ==
  /\ DOMAIN g = DOMAIN f /\ g.from = f.from /\ g.qfrom = f.qfrom /\ g.qkey = f.qkey /\ g.qcursor = f.qcursor
  /\ g.info = f.info /\ g.value = f.value

(* Expansion, mode, focus, the browsers and their cursors are such. *)
LEMMA FormsFields ==
  ASSUME NEW f, FormsOK(f), NEW x, NEW y
  PROVE  /\ FormsAlike(f, [f EXCEPT !.cursor = x]) /\ FormsAlike(f, [f EXCEPT !.flat = x])
         /\ FormsAlike(f, [f EXCEPT !.expanded = x]) /\ FormsAlike(f, [f EXCEPT !.focus = x])
         /\ FormsAlike(f, [f EXCEPT !.showS = x]) /\ FormsAlike(f, [f EXCEPT !.showV = x])
         /\ FormsAlike(f, [f EXCEPT !.scursor = x]) /\ FormsAlike(f, [f EXCEPT !.vcursor = x])
         /\ FormsAlike(f, [f EXCEPT !.filter = x, !.scursor = y])
BY DEF FormsOK, FormsAlike

(* The keys of the list leave the browsers alone, those of the browsers    *)
(* the list.                                                               *)
LEMMA OthersKept ==
  ASSUME NEW f, FormsOK(f), NEW x, NEW y
  PROVE  /\ BrowsersKept(f, [f EXCEPT !.cursor = x]) /\ BrowsersKept(f, [f EXCEPT !.flat = x])
         /\ BrowsersKept(f, [f EXCEPT !.expanded = x]) /\ BrowsersKept(f, [f EXCEPT !.focus = x])
         /\ BrowsersKept(f, [f EXCEPT !.showS = x]) /\ BrowsersKept(f, [f EXCEPT !.showV = x])
         /\ ListKept(f, [f EXCEPT !.showS = x]) /\ ListKept(f, [f EXCEPT !.showV = x])
         /\ ListKept(f, [f EXCEPT !.scursor = x]) /\ ListKept(f, [f EXCEPT !.vcursor = x])
         /\ ListKept(f, [f EXCEPT !.filter = x, !.scursor = y])
<1>1. /\ BrowsersKept(f, [f EXCEPT !.cursor = x]) /\ BrowsersKept(f, [f EXCEPT !.flat = x])
      /\ BrowsersKept(f, [f EXCEPT !.expanded = x]) /\ BrowsersKept(f, [f EXCEPT !.focus = x])
      /\ BrowsersKept(f, [f EXCEPT !.showS = x]) /\ BrowsersKept(f, [f EXCEPT !.showV = x])
  BY DEF FormsOK, BrowsersKept
<1>2. /\ ListKept(f, [f EXCEPT !.showS = x]) /\ ListKept(f, [f EXCEPT !.showV = x])
      /\ ListKept(f, [f EXCEPT !.scursor = x]) /\ ListKept(f, [f EXCEPT !.vcursor = x])
  BY DEF FormsOK, ListKept
<1>3. ListKept(f, [f EXCEPT !.filter = x, !.scursor = y])
  BY DEF FormsOK, ListKept
<1> QED  BY <1>1, <1>2, <1>3

(* And a cursor that is moved after that. *)
LEMMA ThenMoved ==
  ASSUME NEW f, FormsOK(f), NEW h, FormsAlike(f, h), BrowsersKept(f, h), NEW y
  PROVE  FormsAlike(f, [h EXCEPT !.cursor = y]) /\ BrowsersKept(f, [h EXCEPT !.cursor = y])
BY DEF FormsOK, FormsAlike, BrowsersKept

(* So they keep a good state good, if the cursors stay within the lists. *)
LEMMA FormsAlikeSet ==
  ASSUME NEW s, Good(s), NEW g, FormsAlike(s.app.forms, g), ListFine(g), BrowsersFine(g)
  PROVE  Good(SetForms(s, g))
<1>1. PICK f : f = s.app.forms
  OBVIOUS
<1>2. f.qcursor \in Nat /\ QuestionsFine(f)
  BY <1>1 DEF Good, Base, IsState, AppOK, FormsOK
<1>3. QuestionsFine(g)
  BY <1>1, <1>2, Kept DEF FormsAlike, QuestionsKept
<1> QED  BY <1>1, <1>2, <1>3, FormsMoved DEF FormsAlike

(* And nothing but the forms changes. *)
LEMMA FormsArrived ==
  ASSUME NEW s, s = S, Good(s), NEW g, FormsAlike(s.app.forms, g), ListFine(g), BrowsersFine(g), OnlyForms(g)
  PROVE  Good(S)'
<1>1. s.app = app
  BY DEF S
<1>2. PICK a : a = [s.app EXCEPT !.forms = g]
  OBVIOUS
<1>3. Good(SetApp(s, a))
  BY <1>2, FormsAlikeSet DEF SetForms
<1>4. OnlyApp(a)
  BY <1>1, <1>2 DEF OnlyForms
<1> QED  BY <1>3, <1>4, AppArrived DEF Good, Base

(* A cursor that moves is on one of the rows. *)
LEMMA MovesIn ==
  ASSUME NEW n \in Nat, NEW x, NEW c \in Moves(x, n)
  PROVE  c \in Nat /\ c \in 0..(n - 1) /\ InList0(c, n)
<1>1. c \in 0..(n - 1)
  BY DEF Moves
<1> QED  BY <1>1 DEF InList0

(* A list with another cursor, mode or expansion. *)
LEMMA ListMoved ==
  ASSUME NEW f, FormsOK(f), NEW h, FormsAlike(f, h), BrowsersKept(f, h),
         h.forms = f.forms, h.edges = f.edges, h.focus = f.focus,
         NEW c \in Nat, InList0(c, Len(forms_rows(h))), NEW g, g = [h EXCEPT !.cursor = c]
  PROVE  FormsAlike(f, g) /\ ListFine(g) /\ BrowsersFine(g)
<1>1. FormsAlike(f, g) /\ BrowsersKept(f, g)
  BY ThenMoved
<1>2. IsList(h.forms) /\ IsList(h.edges) /\ h.focus \in {"List", "Details"} /\ BrowsersFine(f)
  BY DEF FormsOK, ListFine
<1>3. /\ g.forms = h.forms /\ g.edges = h.edges /\ g.flat = h.flat /\ g.expanded = h.expanded /\ g.focus = h.focus
      /\ g.cursor = c
  BY DEF FormsOK, FormsAlike
<1>4. ListFine(g)
  BY <1>2, <1>3, ListAt
<1> QED  BY <1>1, <1>2, <1>4, Kept

(* The selected row is followed, or the one it was closed into. *)
LEMMA RowFollows ==
  ASSUME NEW h, IsList(h.forms), IsList(h.edges), h.cursor \in Nat, NEW row, NEW key
  PROVE  \E c \in Nat : WithRows(h, row, key) = [h EXCEPT !.cursor = c] /\ InList0(c, Len(forms_rows(h)))
<1>1. PICK rows : rows = forms_rows(h)
  OBVIOUS
<1>2. PICK n \in Nat : n = Len(rows) /\ DOMAIN rows = 1..n
  BY <1>1, RowsCounted
<1>3. PICK A : A = {i \in DOMAIN rows : key # <<>> /\ rows[i].kind = row.kind /\ FormKey(rows[i]) = FormKey(row)}
  BY Zenon
<1>4. PICK B : B = {i \in DOMAIN rows : IsRow(rows[i], key) /\ (rows[i].kind = "set" \/ ~h.flat)}
  BY Zenon
<1>5. PICK same, up : same = FirstIn(A) /\ up = FirstIn(B)
  OBVIOUS
<1>6. same \in -1..(n - 1) /\ up \in -1..(n - 1)
  <2>1. A \subseteq 1..n /\ B \subseteq 1..n
    BY <1>2, <1>3, <1>4
  <2> QED  BY <1>5, <2>1, FoundAt
<1>7. Position(rows, LAMBDA r : key # <<>> /\ r.kind = row.kind /\ FormKey(r) = FormKey(row)) = same
  BY <1>3, <1>5 DEF Position, FirstIn
<1>8. Position(rows, LAMBDA r : IsRow(r, key) /\ (r.kind = "set" \/ ~h.flat)) = up
  BY <1>4, <1>5 DEF Position, FirstIn
<1>9. PICK to : to = IF same # -1 THEN same ELSE IF up # -1 THEN up ELSE h.cursor
  OBVIOUS
<1>10. to \in Nat
  BY <1>6, <1>9
<1>11. WithRows(h, row, key) = [h EXCEPT !.cursor = Clamp(to, n)]
  BY <1>1, <1>2, <1>7, <1>8, <1>9 DEF WithRows, RowFollowed
<1>12. Clamp(to, n) \in Nat /\ InList0(Clamp(to, n), n)
  BY <1>10, Clamped
<1> QED  BY <1>1, <1>2, <1>11, <1>12

(* Opening and closing rows. *)
LEMMA ExpandedAlike ==
  ASSUME NEW f, FormsOK(f), NEW e, NEW g, g = forms_set_expanded(f, e)
  PROVE  FormsAlike(f, g) /\ ListFine(g) /\ BrowsersFine(g)
<1>1. PICK row : row = RowAt(f)
  OBVIOUS
<1>2. PICK key : key = ExpandKey(f, row)
  OBVIOUS
<1>3. PICK x : x = IF key = <<>> THEN f.expanded ELSE IF e THEN f.expanded \cup {key} ELSE f.expanded \ {key}
  OBVIOUS
<1>4. PICK h : h = [f EXCEPT !.expanded = x]
  OBVIOUS
<1>5. g = WithRows(h, row, key)
  BY <1>1, <1>2, <1>3, <1>4, Zenon DEF forms_set_expanded, SetRowExpanded, SetExpanded
<1>6. h.forms = f.forms /\ h.edges = f.edges /\ h.focus = f.focus /\ h.cursor = f.cursor
  BY <1>4 DEF FormsOK
<1>7. FormsAlike(f, h) /\ BrowsersKept(f, h)
  BY <1>4, FormsFields, OthersKept
<1>8. IsList(h.forms) /\ IsList(h.edges) /\ h.cursor \in Nat
  BY <1>6 DEF FormsOK, ListFine
<1>9. PICK c \in Nat : g = [h EXCEPT !.cursor = c] /\ InList0(c, Len(forms_rows(h)))
  BY <1>5, <1>8, RowFollows
<1> QED  BY <1>6, <1>7, <1>9, ListMoved

(* Keys of the forms list and its questions, and Tab. *)
LEMMA FormsKeyStep ==
  ASSUME Good(S), FormsKeys \/ switch_view
  PROVE  Good(S)'
<1>1. PICK s : s = S
  OBVIOUS
<1>2. Good(s)
  BY <1>1
<1>3. IsState(s) /\ AppOK(s.app) /\ s.app = app /\ FormsOK(s.app.forms)
  BY <1>1, <1>2 DEF Good, Base, IsState, S, AppOK
<1>4. ASSUME NEW g, FormsAlike(s.app.forms, g), ListFine(g), BrowsersFine(g), ListKey(g) PROVE Good(S)'
  <2>1. PICK t : t = SetForms(s, g)
    OBVIOUS
  <2>2. Good(t)
    BY <1>2, <1>4, <2>1, FormsAlikeSet
  <2>3. PICK r \in details(t) : To(r.s)
    BY <1>1, <1>4, <2>1 DEF ListKey, Become, To
  <2>4. Good(r.s)
    BY <2>2, <2>3, Detailed
  <2> QED  BY <2>3, <2>4, Arrived DEF To
<1>5. CASE MoveInForms
  <2>1. PICK c \in Moves(app.forms.cursor, Len(forms_rows(app.forms))) : ListKey([app.forms EXCEPT !.cursor = c])
    BY <1>5 DEF MoveInForms
  <2>2. PICK f : f = s.app.forms
    OBVIOUS
  <2>3. PICK g : g = [f EXCEPT !.cursor = c]
    OBVIOUS
  <2>4. FormsAlike(f, g) /\ ListFine(g) /\ BrowsersFine(g)
    <3>1. PICK n \in Nat : n = Len(forms_rows(f))
      BY <1>3, <2>2, RowsCounted DEF FormsOK, ListFine
    <3>2. c \in Nat /\ InList0(c, n)
      <4>1. PICK x : x = f.cursor
        OBVIOUS
      <4> QED  BY <1>3, <2>1, <2>2, <3>1, <4>1, MovesIn
    <3>3. FormsAlike(f, f) /\ BrowsersKept(f, f)
      BY DEF FormsAlike, BrowsersKept
    <3> QED  BY <1>3, <2>2, <2>3, <3>1, <3>2, <3>3, ListMoved
  <2>5. ListKey(g)
    BY <1>3, <2>1, <2>2, <2>3
  <2> QED  BY <1>4, <2>2, <2>4, <2>5
<1>6. CASE ExpandForm
  <2>1. PICK e : ListKey(forms_set_expanded(app.forms, e))
    BY <1>6 DEF ExpandForm
  <2>2. PICK g : g = forms_set_expanded(s.app.forms, e)
    OBVIOUS
  <2>3. FormsAlike(s.app.forms, g) /\ ListFine(g) /\ BrowsersFine(g)
    <3>1. PICK f : f = s.app.forms
      OBVIOUS
    <3> QED  BY <1>3, <2>2, <3>1, ExpandedAlike
  <2>4. ListKey(g)
    BY <1>3, <2>1, <2>2
  <2> QED  BY <1>4, <2>3, <2>4
<1>7. CASE ToggleFlat
  <2>1. PICK b : b = ~app.forms.flat
    OBVIOUS
  <2>2. ListKey(forms_sanitize_cursor([app.forms EXCEPT !.flat = ~@]))
    BY <1>7 DEF ToggleFlat
  <2>3. PICK f : f = s.app.forms
    OBVIOUS
  <2>4. PICK h : h = [f EXCEPT !.flat = b]
    OBVIOUS
  <2>5. PICK g : g = forms_sanitize_cursor(h)
    OBVIOUS
  <2>6. FormsAlike(f, g) /\ ListFine(g) /\ BrowsersFine(g)
    <3>1. h.forms = f.forms /\ h.edges = f.edges /\ h.focus = f.focus /\ h.cursor = f.cursor
      BY <1>3, <2>3, <2>4 DEF FormsOK
    <3>2. FormsAlike(f, h) /\ BrowsersKept(f, h)
      BY <1>3, <2>3, <2>4, FormsFields, OthersKept
    <3>3. IsList(h.forms) /\ IsList(h.edges) /\ h.cursor \in Nat
      BY <1>3, <2>3, <3>1 DEF FormsOK, ListFine
    <3>4. PICK n \in Nat : n = Len(forms_rows(h))
      BY <3>3, RowsCounted
    <3>5. PICK c \in Nat : c = Clamp(h.cursor, n) /\ InList0(c, n)
      BY <3>3, Clamped
    <3>6. g = [h EXCEPT !.cursor = c]
      BY <2>5, <3>4, <3>5 DEF forms_sanitize_cursor
    <3> QED  BY <1>3, <2>3, <3>1, <3>2, <3>4, <3>5, <3>6, ListMoved
  <2>7. ListKey(g)
    <3>1. [app.forms EXCEPT !.flat = ~@] = h
      BY <1>3, <2>1, <2>3, <2>4, Zenon
    <3> QED  BY <2>2, <2>5, <3>1, Zenon
  <2> QED  BY <1>4, <2>3, <2>6, <2>7
<1>8. CASE MoveInQuestions
  <2>1. PICK c \in Moves(app.forms.qcursor, Len(Asked(app.forms.qfrom, app.forms.qkey))) :
          Become(After(refresh_question(SetForms(S, [app.forms EXCEPT !.qcursor = c])), LAMBDA r : Ok(r.s, 0)))
    BY <1>8 DEF MoveInQuestions
  <2>2. PICK f : f = s.app.forms
    OBVIOUS
  <2>3. PICK rows : rows = Asked(f.qfrom, f.qkey)
    OBVIOUS
  <2>4. PICK n \in Nat : n = Len(rows)
    BY <1>3, <2>2, <2>3, QuestionsCounted
  <2>5. c \in Nat /\ InList0(c, n)
    <3>1. PICK x : x = f.qcursor
      OBVIOUS
    <3> QED  BY <1>3, <2>1, <2>2, <2>3, <2>4, <3>1, MovesIn
  <2>6. PICK g : g = [s.app.forms EXCEPT !.qcursor = c]
    OBVIOUS
  <2>7. /\ DOMAIN g = DOMAIN f /\ g.from = f.from /\ g.qfrom = f.qfrom
        /\ g.qkey = f.qkey /\ g.qcursor = c /\ g.info = f.info /\ g.value = f.value
        /\ ListKept(f, g) /\ BrowsersKept(f, g)
    BY <1>3, <2>2, <2>6 DEF FormsOK, ListKept, BrowsersKept
  <2>8. PICK t : t = SetForms(s, g)
    OBVIOUS
  <2>9. Good(t)
    <3>1. ListFine(g) /\ BrowsersFine(g)
      BY <1>3, <2>2, <2>7, Kept DEF FormsOK
    <3>2. QuestionsFine(g)
      BY <2>3, <2>4, <2>5, <2>7 DEF QuestionsFine
    <3> QED  BY <1>2, <2>2, <2>5, <2>7, <2>8, <3>1, <3>2, FormsMoved
  <2>10. SetForms(S, [app.forms EXCEPT !.qcursor = c]) = t
    BY <1>1, <1>3, <2>6, <2>8
  <2>11. PICK r \in UNION {Ok(q.s, 0) : q \in refresh_question(t)} : To(r.s)
    BY <2>1, <2>10 DEF Become, After, To
  <2>12. PICK q \in refresh_question(t) : r \in Ok(q.s, 0)
    BY <2>11
  <2>13. Good(r.s)
    <3>1. Good(q.s)
      BY <2>9, <2>12, QuestionFetched
    <3> QED  BY <2>12, <3>1 DEF Ok
  <2> QED  BY <2>11, <2>13, Arrived DEF To
<1>9. CASE FormsFocus
  <2>1. PICK x \in {"List", "Details"} : OnlyForms([app.forms EXCEPT !.focus = x])
    BY <1>9 DEF FormsFocus
  <2>2. PICK g : g = [s.app.forms EXCEPT !.focus = x]
    OBVIOUS
  <2>3. FormsAlike(s.app.forms, g) /\ ListFine(g) /\ BrowsersFine(g)
    <3>1. PICK f : f = s.app.forms
      OBVIOUS
    <3>2. FormsAlike(f, g) /\ BrowsersKept(f, g)
      BY <1>3, <2>2, <3>1, FormsFields, OthersKept
    <3>3. /\ g.forms = f.forms /\ g.edges = f.edges /\ g.flat = f.flat /\ g.expanded = f.expanded
          /\ g.cursor = f.cursor /\ g.focus = x
      BY <1>3, <2>2, <3>1 DEF FormsOK
    <3>4. forms_rows(g) = forms_rows(f)
      BY <3>3, FormsRowsSame
    <3>5. ListFine(g)
      BY <1>3, <3>1, <3>3, <3>4 DEF FormsOK, ListFine
    <3> QED  BY <1>3, <3>1, <3>2, <3>5, Kept DEF FormsOK
  <2>4. OnlyForms(g)
    BY <1>3, <2>1, <2>2
  <2> QED  BY <1>1, <1>2, <2>3, <2>4, FormsArrived
<1>10. CASE ImageView
  <2>1. PICK a : a = [s.app EXCEPT !.view = "Image"]
    OBVIOUS
  <2>2. Good(SetApp(s, a))
    BY <1>2, <2>1, ViewSet DEF SetView
  <2>3. OnlyApp(a)
    BY <1>3, <1>10, <2>1 DEF ImageView, OnlyApp
  <2> QED  BY <1>1, <1>3, <2>2, <2>3, AppArrived
<1>11. CASE switch_view
  <2>1. CASE app.view = "Forms"
    <3>1. PICK t : t = SetView(s, "Image")
      OBVIOUS
    <3>2. Good(t)
      BY <1>2, <3>1, ViewSet
    <3>3. PICK r \in UNION {Ok(q.s, 0) : q \in refresh_nvars_if_needed(t)} : To(r.s)
      BY <1>1, <1>11, <2>1, <3>1 DEF switch_view, Become, After, To
    <3>4. Good(r.s)
      BY <3>2, <3>3, PaneShown
    <3> QED  BY <3>3, <3>4, Arrived DEF To
  <2>2. CASE app.view # "Forms"
    <3>1. s.app.active # 0
      BY <1>1, <1>2, <1>11, <2>2 DEF switch_view, FormsImage, Good, Agree
    <3>2. PICK t : t = SetView(s, "Forms")
      OBVIOUS
    <3>3. Good(t)
      BY <1>2, <3>1, <3>2, ViewSet
    <3>4. PICK r \in refresh_forms(t) : To(r.s)
      BY <1>1, <1>11, <2>2, <3>2 DEF switch_view, Become, To
    <3>5. Good(r.s)
      BY <3>3, <3>4, FormsRefreshed
    <3> QED  BY <3>4, <3>5, Arrived DEF To
  <2> QED  BY <2>1, <2>2
<1> QED  BY <1>5, <1>6, <1>7, <1>8, <1>9, <1>10, <1>11 DEF FormsKeys

(* Strings and stores are counted. *)
LEMMA Counted ==
  ASSUME NEW f, BrowsersFine(f)
  PROVE  StringCount(f) \in Nat /\ StoreCount(f) \in Nat
BY ContentListed DEF BrowsersFine, StringCount, StoreCount

(* Keys of the strings and variable store browsers. *)
LEMMA BrowserStep ==
  ASSUME Good(S), BrowserKeys
  PROVE  Good(S)'
<1>1. PICK s : s = S
  OBVIOUS
<1>2. Good(s)
  BY <1>1
<1>3. s.app = app /\ FormsOK(s.app.forms)
  BY <1>1, <1>2 DEF Good, Base, IsState, S, AppOK
<1>4. CASE MoveInStrings
  <2>1. PICK x \in 0..(StringCount(app.forms) - 1) : OnlyForms([app.forms EXCEPT !.scursor = x])
    BY <1>4 DEF MoveInStrings, strings_visible
  <2>2. PICK g : g = [s.app.forms EXCEPT !.scursor = x]
    OBVIOUS
  <2>3. FormsAlike(s.app.forms, g) /\ ListFine(g) /\ BrowsersFine(g)
    <3>1. PICK f : f = s.app.forms
      OBVIOUS
    <3>2. FormsAlike(f, g) /\ ListKept(f, g)
      BY <1>3, <2>2, <3>1, FormsFields, OthersKept
    <3>3. g.strings = f.strings /\ g.stores = f.stores /\ g.scursor = x /\ g.vcursor = f.vcursor
      BY <1>3, <2>2, <3>1 DEF FormsOK
    <3>4. StringCount(f) \in Nat
      BY <1>3, <3>1, Counted DEF FormsOK
    <3>5. x < StringCount(f)
      BY <1>3, <2>1, <3>1, <3>4
    <3>6. StringCount(g) = StringCount(f) /\ StoreCount(g) = StoreCount(f)
      BY <3>3 DEF StringCount, StoreCount
    <3>7. BrowsersFine(g)
      BY <1>3, <3>1, <3>3, <3>5, <3>6 DEF FormsOK, BrowsersFine, InList0
    <3> QED  BY <1>3, <3>1, <3>2, <3>7, Kept DEF FormsOK
  <2>4. OnlyForms(g)
    BY <1>3, <2>1, <2>2
  <2> QED  BY <1>1, <1>2, <2>3, <2>4, FormsArrived
<1>5. CASE MoveInVarstores
  <2>1. PICK x \in 0..(StoreCount(app.forms) - 1) : OnlyForms([app.forms EXCEPT !.vcursor = x])
    BY <1>5 DEF MoveInVarstores, Moves
  <2>2. PICK g : g = [s.app.forms EXCEPT !.vcursor = x]
    OBVIOUS
  <2>3. FormsAlike(s.app.forms, g) /\ ListFine(g) /\ BrowsersFine(g)
    <3>1. PICK f : f = s.app.forms
      OBVIOUS
    <3>2. FormsAlike(f, g) /\ ListKept(f, g)
      BY <1>3, <2>2, <3>1, FormsFields, OthersKept
    <3>3. g.strings = f.strings /\ g.stores = f.stores /\ g.vcursor = x /\ g.scursor = f.scursor
      BY <1>3, <2>2, <3>1 DEF FormsOK
    <3>4. StoreCount(f) \in Nat
      BY <1>3, <3>1, Counted DEF FormsOK
    <3>5. x < StoreCount(f)
      BY <1>3, <2>1, <3>1, <3>4
    <3>6. StoreCount(g) = StoreCount(f) /\ StringCount(g) = StringCount(f)
      BY <3>3 DEF StoreCount, StringCount
    <3>7. BrowsersFine(g)
      BY <1>3, <3>1, <3>3, <3>5, <3>6 DEF FormsOK, BrowsersFine, InList0
    <3> QED  BY <1>3, <3>1, <3>2, <3>7, Kept DEF FormsOK
  <2>4. OnlyForms(g)
    BY <1>3, <2>1, <2>2
  <2> QED  BY <1>1, <1>2, <2>3, <2>4, FormsArrived
<1>6. CASE Filter
  <2>1. PICK x : OnlyForms([app.forms EXCEPT !.filter = x, !.scursor = 0])
    BY <1>6 DEF Filter
  <2>2. PICK g : g = [s.app.forms EXCEPT !.filter = x, !.scursor = 0]
    OBVIOUS
  <2>3. FormsAlike(s.app.forms, g) /\ ListFine(g) /\ BrowsersFine(g)
    <3>1. PICK f : f = s.app.forms
      OBVIOUS
    <3>2. FormsAlike(f, g) /\ ListKept(f, g)
      BY <1>3, <2>2, <3>1, FormsFields, OthersKept
    <3>3. g.strings = f.strings /\ g.stores = f.stores /\ g.scursor = 0 /\ g.vcursor = f.vcursor
      BY <1>3, <2>2, <3>1 DEF FormsOK
    <3>4. BrowsersFine(g)
      BY <1>3, <3>1, <3>3 DEF FormsOK, BrowsersFine, InList0, StringCount, StoreCount
    <3> QED  BY <1>3, <3>1, <3>2, <3>4, Kept DEF FormsOK
  <2>4. OnlyForms(g)
    BY <1>3, <2>1, <2>2
  <2> QED  BY <1>1, <1>2, <2>3, <2>4, FormsArrived
<1>7. CASE ToggleStrings
  <2>1. PICK b : b = ~app.forms.showS
    OBVIOUS
  <2>2. PICK g : g = [s.app.forms EXCEPT !.showS = b]
    OBVIOUS
  <2>3. PICK t : t = SetForms(s, g)
    OBVIOUS
  <2>4. Good(t)
    <3>1. PICK f : f = s.app.forms
      OBVIOUS
    <3>2. FormsAlike(f, g) /\ ListKept(f, g) /\ BrowsersKept(f, g)
      BY <1>3, <2>2, <3>1, FormsFields, OthersKept
    <3>3. ListFine(g) /\ BrowsersFine(g)
      BY <1>3, <3>1, <3>2, Kept DEF FormsOK
    <3> QED  BY <1>2, <2>3, <3>1, <3>2, <3>3, FormsAlikeSet
  <2>5. SetForms(S, [app.forms EXCEPT !.showS = ~@]) = t
    BY <1>1, <1>3, <2>1, <2>2, <2>3, Zenon
  <2>6. Become(UNION {Ok(q.s, 0) : q \in refresh_strings(t)}) \/ Become(Ok(t, 0))
    <3>1. Become(IF t.app.forms.showS /\ StringCount(app.forms) = 0
                 THEN After(refresh_strings(t), LAMBDA r : Ok(r.s, 0)) ELSE Ok(t, 0))
      BY <1>7, <2>5, Zenon DEF ToggleStrings
    <3> QED  BY <3>1 DEF After
  <2>7. PICK r : To(r.s) /\ (r \in Ok(t, 0) \/ \E q \in refresh_strings(t) : r \in Ok(q.s, 0))
    BY <2>6 DEF Become, To
  <2>8. Good(r.s)
    BY <2>4, <2>7, StringsFetched DEF Ok
  <2> QED  BY <2>7, <2>8, Arrived DEF To
<1>8. CASE ToggleVarstores
  <2>1. PICK b : b = ~app.forms.showV
    OBVIOUS
  <2>2. PICK g : g = [s.app.forms EXCEPT !.showV = b]
    OBVIOUS
  <2>3. PICK t : t = SetForms(s, g)
    OBVIOUS
  <2>4. Good(t)
    <3>1. PICK f : f = s.app.forms
      OBVIOUS
    <3>2. FormsAlike(f, g) /\ ListKept(f, g) /\ BrowsersKept(f, g)
      BY <1>3, <2>2, <3>1, FormsFields, OthersKept
    <3>3. ListFine(g) /\ BrowsersFine(g)
      BY <1>3, <3>1, <3>2, Kept DEF FormsOK
    <3> QED  BY <1>2, <2>3, <3>1, <3>2, <3>3, FormsAlikeSet
  <2>5. SetForms(S, [app.forms EXCEPT !.showV = ~@]) = t
    BY <1>1, <1>3, <2>1, <2>2, <2>3, Zenon
  <2>6. PICK target : target = selected_form_target(app.forms)
    OBVIOUS
  <2>7. Become(UNION {Ok(q.s, 0) : q \in refresh_varstores(t, target)}) \/ Become(Ok(t, 0))
    <3>1. Become(IF t.app.forms.showV /\ target # NoSet /\ app.forms.vtarget # target
                 THEN After(refresh_varstores(t, target), LAMBDA r : Ok(r.s, 0)) ELSE Ok(t, 0))
      BY <1>8, <2>5, <2>6, Zenon DEF ToggleVarstores
    <3> QED  BY <3>1 DEF After
  <2>8. PICK r : To(r.s) /\ (r \in Ok(t, 0) \/ \E q \in refresh_varstores(t, target) : r \in Ok(q.s, 0))
    BY <2>7 DEF Become, To
  <2>9. Good(r.s)
    BY <2>4, <2>8, StoresFetched DEF Ok
  <2> QED  BY <2>8, <2>9, Arrived DEF To
<1> QED  BY <1>4, <1>5, <1>6, <1>7, <1>8 DEF BrowserKeys

(* Other clients edit and close images, and sessions end. *)
LEMMA OthersStep ==
  ASSUME Good(S), OtherEdits \/ OtherCloses \/ SessionEnds
  PROVE  Good(S)'
<1>1. PICK s : s = S
  OBVIOUS
<1>2. Good(s)
  BY <1>1
<1>3. EngineOK(s.engine) /\ s.engine = engine
  BY <1>1, <1>2 DEF Good, Base, IsState, S
<1>4. ASSUME NEW t, Good(t), Become(Ok(t, 0)) PROVE Good(S)'
  <2>1. PICK r \in Ok(t, 0) : To(r.s)
    BY <1>4 DEF Become, To
  <2>2. r.s = t
    BY <2>1 DEF Ok
  <2> QED  BY <1>4, <2>1, <2>2, Arrived DEF To
<1>5. CASE OtherEdits
  <2>1. PICK i \in Images, c \in Contents : Live(S, i) /\ Become(Ok(Stale(SetContent(S, i, c)), 0))
    BY <1>5 DEF OtherEdits
  <2>2. PICK t : t = Stale(SetContent(s, i, c))
    OBVIOUS
  <2>3. Good(t)
    BY <1>1, <1>2, <2>1, <2>2, ContentSet DEF Live
  <2> QED  BY <1>1, <1>4, <2>1, <2>2, <2>3
<1>6. CASE OtherCloses
  <2>1. PICK i \in Images : Become(Ok(Stale(Dropped(S, i)), 0))
    BY <1>6 DEF OtherCloses
  <2>2. PICK e : /\ Dropped(s, i) = SetEngine(s, e) /\ EngineOK(e) /\ e.img[i].st = "gone"
                 /\ \A j \in Images : j # i => e.img[j] = s.engine.img[j]
    BY <1>2, DroppedEngine
  <2>3. PICK t : t = Stale(SetEngine(s, e))
    OBVIOUS
  <2>4. Good(t)
    BY <1>2, <2>2, <2>3, EngineStale
  <2> QED  BY <1>1, <1>4, <2>1, <2>2, <2>3, <2>4
<1>7. CASE SessionEnds
  <2> DEFINE Left(n) == [i \in Images |-> IF engine.img[i].sess = n /\ engine.img[i].st = "live" THEN Closed ELSE engine.img[i]]
             Ended(n) == [engine EXCEPT !.sess = [@ EXCEPT ![n] = [st |-> "gone"]], !.arts = 0, !.img = Left(n)]
  <2>1. PICK n \in Sessions : Become(Ok(Stale(SetEngine(S, Ended(n))), 0))
    BY <1>7 DEF SessionEnds
  <2>2. PICK x : x = Left(n)
    OBVIOUS
  <2>3. PICK e : e = Ended(n)
    OBVIOUS
  <2>4. DOMAIN x = Images /\ \A i \in Images : x[i] \in {Closed, s.engine.img[i]}
    BY <1>3, <2>2
  <2>5. IsImage(Closed) /\ Closed.st = "gone"
    BY DEF IsImage, Closed, NoImage
  <2>6. /\ DOMAIN e = {"sess", "img", "snap", "arts"} /\ e.img = x /\ e.snap = s.engine.snap
        /\ e.arts = 0 /\ DOMAIN e.sess = Sessions
    <3> HIDE DEF Left
    <3> QED  BY <1>3, <2>2, <2>3 DEF EngineOK
  <2> HIDE DEF Ended, Left
  <2>7. EngineOK(e)
    BY <1>3, <2>4, <2>5, <2>6 DEF EngineOK
  <2>8. \A i \in Images : s.engine.img[i].st # "new" => e.img[i].st # "new"
    BY <2>4, <2>5, <2>6
  <2>9. PICK t : t = Stale(SetEngine(s, e))
    OBVIOUS
  <2>10. Good(t)
    BY <1>2, <2>7, <2>8, <2>9, EngineStale
  <2> QED  BY <1>1, <1>4, <2>1, <2>3, <2>9, <2>10
<1> QED  BY <1>5, <1>6, <1>7

(* The first process has no session, image or state file. *)
LEMMA InitGood ==
  ASSUME Init
  PROVE  Good(S)
<1>1. PICK s : s = S
  OBVIOUS
<1>2. PICK b : b = FALSE
  OBVIOUS
<1>3. /\ DOMAIN s = StateFields
      /\ s.engine = [sess |-> [n \in Sessions |-> [st |-> "new"]], img |-> [i \in Images |-> NoImage],
                     snap |-> [i \in Images |-> 0], arts |-> 0]
      /\ s.client = [sess |-> 0, active |-> 0] /\ s.disk = s.client /\ s.app = NoApp /\ s.note = NoNote
  BY <1>1 DEF Init, S, StateFields
<1>4. EngineOK(s.engine)
  <2>1. IsImage(NoImage)
    BY DEF IsImage, NoImage
  <2> QED  BY <1>3, <2>1 DEF EngineOK
<1>5. IsClient(s.client) /\ s.client.active = 0
  BY <1>3, LibraryAssumption DEF IsClient
<1>6. IsNote(s.note)
  BY <1>3, LibraryAssumption DEF IsNote, NoNote
<1>8. /\ DOMAIN NoApp = AppFields /\ NoApp.active = 0 /\ NoApp.view = "Image" /\ NoApp.tree = NoTree /\ NoApp.forms = NoForms
      /\ NoApp.nvar = NoPane /\ DOMAIN NoApp.reg = {"images", "arts", "cursor"} /\ NoApp.reg.images = <<>>
  BY DEF NoApp, AppFields
<1>9. AppOK(NoApp)
  BY NoAppFine
<1>10. IsState(s)
  BY <1>3, <1>4, <1>5, <1>6, <1>9 DEF IsState
<1>11. NoApp.nvar.key[1] = 0 /\ DOMAIN NoApp.reg.images = {} /\ NoApp.tree.of = 0
  BY <1>8 DEF NoPane, NoTree
<1>12. NamesKnown(s)
  BY <1>3, <1>5, <1>8, <1>11 DEF NamesKnown, Known
<1>13. FormsCurrent(s) /\ PaneOf(s) /\ Agree(s) /\ TreeOK(s) /\ Saved(s)
  BY <1>3, <1>5, <1>8, <1>11 DEF FormsCurrent, PaneOf, Agree, TreeOK, Saved
<1> QED  BY <1>1, <1>10, <1>12, <1>13 DEF Good, Base

(* The state the client is in, with every command, every key, every call   *)
(* that fails and everything other clients do in any order: the shapes of  *)
(* its records, the images it knows, and the four parts of Good.           *)
THEOREM TuiInvariant == Spec => [](Good(S))
<1>1. Init => Good(S)
  BY InitGood
<1>2. ASSUME Good(S), [Next]_vars
      PROVE  Good(S)'
  <2>1. CASE Next
    BY <1>2, <2>1, SessionStep, NodeStep, FormsStep, RegistryStep, TreeStep, FormsKeyStep, BrowserStep, OthersStep DEF Next
  <2>2. CASE UNCHANGED vars
    <3>1. PICK s : s = S
      OBVIOUS
    <3>2. engine' = s.engine /\ client' = s.client /\ disk' = s.disk /\ app' = s.app /\ note' = s.note
      BY <2>2, <3>1 DEF vars, S
    <3> QED  BY <1>2, <3>1, <3>2, Arrived
  <2> QED  BY <1>2, <2>1, <2>2
<1> QED  BY <1>1, <1>2, PTL DEF Spec

(* There is one active image, whatever fails on the way and across         *)
(* restarts: the image commands edit (client.state.active_image), the      *)
(* image the forms view and the header show (app.active_image) and the     *)
(* image whose tree is listed.                                             *)
THEOREM OneActiveImageTheorem == Spec => []OneActiveImage
<1>1. Good(S) => OneActiveImage
  <2>1. S.app = app /\ S.client = client /\ S.note = note
    BY DEF S
  <2> QED  BY <2>1 DEF Good, Agree, TreeOK, OneActiveImage, ActiveAgrees, TreeOfActive
<1> QED  BY <1>1, TuiInvariant, PTL

(* Unless a write of the state file failed, or the client has only just    *)
(* learned that its session or image is gone, a client started anew finds  *)
(* the session and image this one has (write_state).                       *)
THEOREM PersistedStateTheorem == Spec => []PersistedState
<1>1. Good(S) => PersistedState
  <2>1. S.disk = disk /\ S.client = client /\ S.note = note
    BY DEF S
  <2> QED  BY <2>1 DEF Good, Saved, PersistedState
<1> QED  BY <1>1, TuiInvariant, PTL

(* What the forms view and the NVRAM pane show comes from one image as it  *)
(* is now, and the question that is shown is one of the form that is shown *)
(* (the caches that refresh_forms, reload_forms and the *_if_needed        *)
(* functions keep).                                                        *)
THEOREM ShownIsCurrentTheorem == Spec => []ShownIsCurrent
<1>1. Good(S) => ShownIsCurrent
  <2> SUFFICES ASSUME Good(S) PROVE ShownIsCurrent
    OBVIOUS
  <2>2. PICK s : s = S
    OBVIOUS
  <2>3. s.app = app /\ s.engine = engine /\ s.note = note
    BY <2>2 DEF S
  <2>4. Base(s)
    BY <2>2 DEF Good
  <2>5. ShownFormsCurrent
    <3>1. ASSUME app.view = "Forms", ~note.forms PROVE Sources(app.forms) \subseteq {Nowhere, Here(s)} /\ app.active # 0
      BY <2>3, <2>4, <3>1 DEF Base, IsState, AppOK, FormsCurrent
    <3>2. app.active # 0 => Here(s) = <<app.active, IF app.active = 0 THEN 0 ELSE engine.img[app.active].content>>
      BY <2>3 DEF Here
    <3> QED  BY <3>1, <3>2 DEF ShownFormsCurrent, Sources
  <2>6. InfoOfItsForm
    BY <2>3, <2>4 DEF Base, IsState, AppOK, FormsOK, OfAForm, InfoOfItsForm
  <2>7. PaneCurrent
    BY <2>2, <2>3, <2>4 DEF Base, PaneOf, PaneCurrent
  <2> QED  BY <2>5, <2>6, <2>7 DEF ShownIsCurrent
<1> QED  BY <1>1, TuiInvariant, PTL

(* Every key acts on a row that is drawn, through edits, refreshes,        *)
(* foldings and filters (set_expand_selected, sanitize_cursor,             *)
(* forms_set_expanded, reload_forms), and the tree of forms, opened        *)
(* completely, leaves out no form the flat list has (build_tree_rows).     *)
THEOREM RowsSoundTheorem == Spec => []RowsSound
<1>1. Good(S) => RowsSound
  <2> SUFFICES ASSUME Good(S) PROVE RowsSound
    OBVIOUS
  <2>2. PICK s : s = S
    OBVIOUS
  <2>3. s.app = app /\ s.engine = engine /\ s.note = note /\ s.client = client /\ s.disk = disk
    BY <2>2 DEF S
  <2>4. IsState(s) /\ NamesKnown(s)
    BY <2>2 DEF Good, Base
  <2>5. EngineOK(engine) /\ IsClient(client) /\ IsClient(disk) /\ AppOK(app) /\ IsNote(note)
    BY <2>3, <2>4 DEF IsState
  <2>6. FormsOK(app.forms) /\ IsTree(app.tree) /\ RegFine(app.reg)
    BY <2>5 DEF AppOK
  <2>7. TypeOK
    <3>1. client.active \in 0..MaxImages /\ disk.active \in 0..MaxImages /\ app.active \in 0..MaxImages
      BY <2>3, <2>4, LibraryAssumption DEF NamesKnown, Known, Images
    <3>2. client \in [sess : 0..MaxSessions, active : 0..MaxImages]
      BY <2>5, <3>1 DEF IsClient
    <3>3. disk \in [sess : 0..MaxSessions, active : 0..MaxImages]
      BY <2>5, <3>1 DEF IsClient
    <3>4. \A i \in Images : engine.img[i].st \in {"new", "live", "gone"} /\ engine.snap[i] \in Contents \cup {0}
      BY <2>5 DEF EngineOK, IsImage
    <3>5. app.view \in {"Image", "Forms"} /\ app.focus \in {"Registry", "Tree", "Details"} /\ note.faults \in 0..MaxFaults
      BY <2>5 DEF AppOK, IsNote
    <3>6. /\ app.forms.focus \in {"List", "Details"} /\ app.tree.cursor \in Nat /\ app.forms.cursor \in Nat
          /\ app.forms.qcursor \in Nat
      BY <2>6 DEF FormsOK, ListFine, IsTree, TreeFine
    <3> QED  BY <3>1, <3>2, <3>3, <3>4, <3>5, <3>6 DEF TypeOK
  <2>8. CursorsInRange
    <3>1. InList0(app.tree.cursor, Len(visible_rows(app.tree))) /\ InList0(app.reg.cursor, Len(registry_selectable(app.reg)))
      BY <2>6 DEF IsTree, TreeFine, RegFine
    <3>2. PICK f : f = app.forms
      OBVIOUS
    <3>3. /\ InList0(f.cursor, Len(forms_rows(f)))
          /\ f.qkey # NoKey => InList0(f.qcursor, Len(Asked(f.qfrom, f.qkey)))
          /\ InList0(f.scursor, StringCount(f)) /\ InList0(f.vcursor, StoreCount(f))
      BY <2>6, <3>2 DEF FormsOK, ListFine, QuestionsFine, BrowsersFine
    <3> QED  BY <2>7, <3>1, <3>2, <3>3 DEF CursorsInRange
  <2>9. EveryFormShown
    <3>1. PICK forms, edges, all : forms = app.forms.forms /\ edges = app.forms.edges /\ all = all_row_keys(forms, edges)
      OBVIOUS
    <3>2. IsList(forms) /\ IsList(edges)
      BY <2>6, <3>1 DEF FormsOK, ListFine
    <3>3. ShownKeys(build_tree_rows(forms, edges, all)) = ShownKeys(build_rows(forms, all))
      BY <3>1, <3>2, EveryForm
    <3> QED  BY <3>1, <3>3 DEF EveryFormShown, ShownKeys
  <2> QED  BY <2>8, <2>9 DEF RowsSound
<1> QED  BY <1>1, TuiInvariant, PTL

(***************************************************************************)
(* What is open in the list of forms.                                      *)
(***************************************************************************)
Bears(s, f) == "app" \in DOMAIN s /\ "forms" \in DOMAIN s.app /\ s.app.forms = f

(* A set of outcomes that all have the forms f. *)
Carry(R, f) == \A r \in R : Bears(r.s, f)

(* Changes of the parts that are not the forms. *)
LEMMA BearsSet ==
  ASSUME NEW s, NEW f, Bears(s, f), NEW x
  PROVE  /\ Bears(SetEngine(s, x), f) /\ Bears(SetSession(s, x), f) /\ Bears(Noted(s, x), f)
         /\ Bears([s EXCEPT !.disk = x], f) /\ Bears(SetActive(s, x), f)
         /\ Bears(SetTree(s, x), f) /\ Bears(SetPane(s, x), f) /\ Bears(SetView(s, x), f) /\ Bears(Loaded(s), f)
         /\ Bears(SetApp(s, [s.app EXCEPT !.reg = x]), f) /\ Bears(SetApp(s, [s.app EXCEPT !.focus = x]), f)
         /\ Bears(SetForms(s, x), x)
BY DEF Bears, SetEngine, SetSession, Noted, SetActive, SetTree, SetPane, SetView, Loaded, SetApp, SetForms

(* Notes and images likewise. *)
LEMMA BearsNoted ==
  ASSUME NEW s, NEW f, Bears(s, f), NEW x
  PROVE  /\ Bears(FormsNoted(s, x), f) /\ Bears(PaneNoted(s, x), f) /\ Bears(UploadNoted(s, x), f)
         /\ Bears(Unsaved(s, x), f) /\ Bears(Stale(s), f)
<1>1. \A n : Bears(Noted(s, n), f)
  BY BearsSet
<1> QED  BY <1>1, Zenon DEF FormsNoted, PaneNoted, UploadNoted, Unsaved, Stale

(* Changes of an image. *)
LEMMA BearsImage ==
  ASSUME NEW s, NEW f, Bears(s, f), NEW i, NEW x
  PROVE  Bears(SetImage(s, i, x), f) /\ Bears(SetContent(s, i, x), f) /\ Bears(Dropped(s, i), f)
<1>1. \A e : Bears(SetEngine(s, e), f)
  BY BearsSet
<1> QED  BY <1>1, Zenon DEF SetImage, SetContent, Dropped

(* Answers and errors. *)
LEMMA CarryAnswer ==
  ASSUME NEW s, NEW f, Bears(s, f), NEW v
  PROVE  Carry(Ok(s, v), f) /\ Carry(Err(s), f) /\ Carry(Fault(s), f) /\ Carry(Gone(s), f)
<1>1. \A n : Bears(Noted(s, n), f)
  BY BearsSet
<1>2. PICK t : t = Noted(s, [s.note EXCEPT !.faults = @ + 1])
  OBVIOUS
<1>3. Bears(t, f)
  BY <1>1, <1>2
<1>4. Carry(Err(t), f)
  BY <1>3 DEF Carry, Err
<1>5. Carry(Fault(s), f)
  BY <1>2, <1>4 DEF Fault, Carry
<1> QED  BY <1>5 DEF Carry, Ok, Err, Gone

(* Calls that read, edit or close an image. *)
LEMMA CarryImage ==
  ASSUME NEW s, NEW f, Bears(s, f), NEW i, NEW gated
  PROVE  Carry(fetch(s, i), f) /\ Carry(forms_fetch(s), f) /\ Carry(image_close(s, i), f) /\ Carry(edit(s, i, gated), f)
<1>1. \A j : Carry(fetch(s, j), f)
  BY CarryAnswer DEF fetch, Carry
<1>2. Carry(forms_fetch(s), f)
  BY <1>1, CarryAnswer DEF forms_fetch
<1>3. Carry(image_close(s, i), f)
  <2>1. PICK t : t = Dropped(s, i)
    OBVIOUS
  <2>2. Bears(t, f)
    BY <2>1, BearsImage
  <2> QED  BY <2>1, <2>2, CarryAnswer DEF image_close, Carry
<1>4. Carry(edit(s, i, gated), f)
  <2>1. ASSUME NEW c \in Contents PROVE Carry(Ok(Stale(SetContent(s, i, c)), c) \cup Fault(Stale(SetContent(s, i, c))), f)
    <3>1. PICK t : t = SetContent(s, i, c)
      OBVIOUS
    <3>2. Bears(t, f)
      BY <3>1, BearsImage
    <3>3. PICK u : u = Stale(t)
      OBVIOUS
    <3>4. Bears(u, f)
      BY <3>2, <3>3, BearsNoted
    <3> QED  BY <3>1, <3>3, <3>4, CarryAnswer DEF Carry
  <2>2. ASSUME NEW r \in edit(s, i, gated) PROVE Bears(r.s, f)
    <3>1. r \in Err(s) \/ \E c \in Contents : r \in Ok(Stale(SetContent(s, i, c)), c) \cup Fault(Stale(SetContent(s, i, c)))
      BY <2>2, Zenon DEF edit
    <3> QED  BY <2>1, <3>1, CarryAnswer DEF Carry
  <2> QED  BY <2>2 DEF Carry
<1> QED  BY <1>1, <1>2, <1>3, <1>4

(* The state file. *)
LEMMA CarrySaved ==
  ASSUME NEW s, NEW f, Bears(s, f)
  PROVE  Carry(write_state(s), f) /\ Carry(persist_state_best_effort(s), f)
<1>1. Carry(write_state(s), f)
  <2>1. PICK t : t = [s EXCEPT !.disk = s.client]
    OBVIOUS
  <2>2. Bears(t, f)
    BY <2>1, BearsSet
  <2>3. PICK u, w : u = Unsaved(t, FALSE) /\ w = Unsaved(s, TRUE)
    OBVIOUS
  <2>4. Bears(u, f) /\ Bears(w, f)
    BY <2>2, <2>3, BearsNoted
  <2>5. write_state(s) = Ok(u, 0) \cup Fault(w)
    BY <2>1, <2>3, Zenon DEF write_state
  <2> QED  BY <2>4, <2>5, CarryAnswer DEF Carry
<1> QED  BY <1>1, CarryAnswer DEF persist_state_best_effort, After, Carry

(* Sessions. *)
LEMMA CarrySession ==
  ASSUME NEW s, NEW f, Bears(s, f)
  PROVE  Carry(create_and_persist_session(s), f) /\ Carry(ensure_session(s), f)
<1>1. Carry(session_create(s), f)
  <2>1. \A e, n : Carry(Ok(SetEngine(s, e), n), f)
    BY BearsSet, CarryAnswer
  <2> QED  BY <2>1, CarryAnswer DEF session_create, Carry
<1>2. ASSUME NEW q, Bears(q.s, f) PROVE Carry(write_state(SetSession(q.s, q.val)), f)
  <2>1. PICK t : t = SetSession(q.s, q.val)
    OBVIOUS
  <2>2. Bears(t, f)
    BY <1>2, <2>1, BearsSet
  <2> QED  BY <2>1, <2>2, CarrySaved
<1>3. Carry(create_and_persist_session(s), f)
  BY <1>1, <1>2 DEF create_and_persist_session, Then, Carry
<1> QED  BY <1>3, CarryAnswer DEF ensure_session

(* A session that is gone is replaced. *)
LEMMA CarryReplaced ==
  ASSUME NEW s, NEW f, Bears(s, f)
  PROVE  Carry(create_and_persist_session(Unsaved(SetSession(s, 0), TRUE)), f)
<1>1. PICK t : t = SetSession(s, 0)
  OBVIOUS
<1>2. PICK u : u = Unsaved(t, TRUE)
  OBVIOUS
<1>3. Bears(t, f)
  BY <1>1, BearsSet
<1>4. Bears(u, f)
  BY <1>2, <1>3, BearsNoted
<1> QED  BY <1>1, <1>2, <1>4, CarrySession

(* Opening an image or importing an artifact. *)
LEMMA CarryOpened ==
  ASSUME NEW s, NEW f, Bears(s, f), NEW write, NEW upload
  PROVE  Carry(image_open(s, write, upload), f) /\ Carry(artifact_import(s), f)
<1>1. \A i, m, v : Carry(Ok(SetImage(s, i, m), v), f)
  BY BearsImage, CarryAnswer
<1>2. Carry(image_open(s, write, upload), f)
  <2>1. PICK m : m = [st |-> "live", sess |-> s.client.sess, write |-> write, content |-> File, upload |-> upload]
    OBVIOUS
  <2>2. ASSUME NEW r \in image_open(s, write, upload)
        PROVE  r \in Fault(s) \/ r \in Gone(s) \/ \E i : r \in Ok(SetImage(s, i, m), i)
    BY <2>1, <2>2 DEF image_open
  <2> QED  BY <1>1, <2>2, CarryAnswer DEF Carry
<1>3. \A e, v : Carry(Ok(SetEngine(s, e), v), f)
  BY BearsSet, CarryAnswer
<1>4. Carry(artifact_import(s), f)
  BY <1>3, CarryAnswer, Zenon DEF artifact_import, Carry
<1> QED  BY <1>2, <1>4

(* In a session, an old or a new one. *)
LEMMA CarryInSession ==
  ASSUME NEW s, NEW f, Bears(s, f), NEW write, NEW upload, NEW im
  PROVE  /\ Carry(open_in_session(s, write, upload), f)
         /\ Carry(import_in_session(s), f)
         /\ Carry(reopen_in_session(s, im), f)
<1>1. Carry(ensure_session(s), f)
  BY CarrySession
<1>2. \A q : Bears(q.s, f) => Carry(create_and_persist_session(Unsaved(SetSession(q.s, 0), TRUE)), f)
  <2> SUFFICES ASSUME NEW q, Bears(q.s, f)
               PROVE  Carry(create_and_persist_session(Unsaved(SetSession(q.s, 0), TRUE)), f)
    BY Zenon
  <2>1. PICK t : t = q.s
    OBVIOUS
  <2>2. Carry(create_and_persist_session(Unsaved(SetSession(t, 0), TRUE)), f)
    BY <2>1, CarryReplaced
  <2> QED  BY <2>1, <2>2, Zenon
<1> DEFINE New(q) == create_and_persist_session(Unsaved(SetSession(q.s, 0), TRUE))
<1> HIDE DEF New
<1>3. \A q : Bears(q.s, f) => Carry(New(q), f)
  BY <1>2, Zenon DEF New
<1>4. Carry(open_in_session(s, write, upload), f)
  <2> DEFINE Call(t) == image_open(t, write, upload)
             Again(q) == UNION {IF p.err = "no" THEN Call(p.s) ELSE {p} : p \in New(q)}
             Tried(r) == UNION {IF q.err = "no_session" THEN Again(q) ELSE {q} : q \in Call(r.s)}
  <2>1. open_in_session(s, write, upload) = UNION {IF r.err = "no" THEN Tried(r) ELSE {r} : r \in ensure_session(s)}
    BY DEF open_in_session, in_session, Then, New
  <2>2. \A t : Bears(t, f) => Carry(Call(t), f)
    BY CarryOpened
  <2> HIDE DEF Call
  <2>3. \A q : Bears(q.s, f) => Carry(Again(q), f)
    BY <1>3, <2>2 DEF Carry
  <2> HIDE DEF Again
  <2>4. \A r : Bears(r.s, f) => Carry(Tried(r), f)
    BY <2>2, <2>3 DEF Carry
  <2> HIDE DEF Tried
  <2> QED  BY <1>1, <2>1, <2>4 DEF Carry
<1>5. Carry(import_in_session(s), f)
  <2> DEFINE Call(t) == artifact_import(t)
             Again(q) == UNION {IF p.err = "no" THEN Call(p.s) ELSE {p} : p \in New(q)}
             Tried(r) == UNION {IF q.err = "no_session" THEN Again(q) ELSE {q} : q \in Call(r.s)}
  <2>1. import_in_session(s) = UNION {IF r.err = "no" THEN Tried(r) ELSE {r} : r \in ensure_session(s)}
    BY DEF import_in_session, in_session, Then, New
  <2>2. \A t : Bears(t, f) => Carry(Call(t), f)
    BY CarryOpened
  <2> HIDE DEF Call
  <2>3. \A q : Bears(q.s, f) => Carry(Again(q), f)
    BY <1>3, <2>2 DEF Carry
  <2> HIDE DEF Again
  <2>4. \A r : Bears(r.s, f) => Carry(Tried(r), f)
    BY <2>2, <2>3 DEF Carry
  <2> HIDE DEF Tried
  <2> QED  BY <1>1, <2>1, <2>4 DEF Carry
<1>6. Carry(reopen_in_session(s, im), f)
  <2> DEFINE Call(t) == IF im.upload THEN Err(t) ELSE image_open(t, TRUE, FALSE)
             Again(q) == UNION {IF p.err = "no" THEN Call(p.s) ELSE {p} : p \in New(q)}
             Tried(r) == UNION {IF q.err = "no_session" THEN Again(q) ELSE {q} : q \in Call(r.s)}
  <2>1. reopen_in_session(s, im) = UNION {IF r.err = "no" THEN Tried(r) ELSE {r} : r \in ensure_session(s)}
    BY DEF reopen_in_session, in_session, Then, New
  <2>2. \A t : Bears(t, f) => Carry(Call(t), f)
    <3> SUFFICES ASSUME NEW t, Bears(t, f) PROVE Carry(Call(t), f)
      OBVIOUS
    <3>1. Carry(image_open(t, TRUE, FALSE), f)
      BY CarryOpened
    <3> QED  BY <3>1, CarryAnswer
  <2> HIDE DEF Call
  <2>3. \A q : Bears(q.s, f) => Carry(Again(q), f)
    BY <1>3, <2>2 DEF Carry
  <2> HIDE DEF Again
  <2>4. \A r : Bears(r.s, f) => Carry(Tried(r), f)
    BY <2>2, <2>3 DEF Carry
  <2> HIDE DEF Tried
  <2> QED  BY <1>1, <2>1, <2>4 DEF Carry
<1> QED  BY <1>4, <1>5, <1>6

(* The registry. *)
LEMMA CarryRegistry ==
  ASSUME NEW s, NEW f, Bears(s, f)
  PROVE  Carry(refresh_registry(s), f)
<1>1. \A g : Carry(Ok(SetApp(s, [s.app EXCEPT !.reg = g]), 0), f)
  BY BearsSet, CarryAnswer
<1>2. ASSUME NEW r \in refresh_registry(s) PROVE r \in Err(s) \/ r \in Fault(s) \/ \E g : r \in Ok(SetApp(s, [s.app EXCEPT !.reg = g]), 0)
  BY <1>2, Zenon DEF refresh_registry
<1> QED  BY <1>1, <1>2, CarryAnswer DEF Carry

(* The node tree. *)
LEMMA CarryTree ==
  ASSUME NEW s, NEW f, Bears(s, f)
  PROVE  Carry(refresh_tree(s), f)
<1>1. \A q, t : Bears(q.s, f) => Carry(Ok(SetTree(q.s, t), 0), f)
  BY BearsSet, CarryAnswer
<1>2. ASSUME NEW r \in refresh_tree(s)
      PROVE  r \in Err(s) \/ \E q \in fetch(s, s.client.active) : r = q \/ \E t : r \in Ok(SetTree(q.s, t), 0)
  BY <1>2, Zenon DEF refresh_tree, Then
<1>3. Carry(fetch(s, s.client.active), f)
  BY CarryImage
<1> QED  BY <1>1, <1>2, <1>3, CarryAnswer DEF Carry

(* The NVRAM pane. *)
LEMMA CarryPane ==
  ASSUME NEW s, NEW f, Bears(s, f)
  PROVE  Carry(refresh_nvars_if_needed(s), f)
<1>1. \A t, p, b : Bears(t, f) => Carry(Ok(PaneNoted(SetPane(t, p), b), 0), f)
  <2> SUFFICES ASSUME NEW t, NEW p, NEW b, Bears(t, f) PROVE Carry(Ok(PaneNoted(SetPane(t, p), b), 0), f)
    BY Zenon
  <2>1. PICK u : u = SetPane(t, p)
    OBVIOUS
  <2>2. Bears(u, f)
    BY <2>1, BearsSet
  <2> QED  BY <2>1, <2>2, BearsNoted, CarryAnswer
<1>2. \A i : Carry(fetch(s, i), f)
  BY CarryImage
<1> DEFINE node == selected(s.app.tree)
           key == <<FormsImage(s), node.path>>
           Fetched(q) == IF q.err = "no" THEN Ok(PaneNoted(SetPane(q.s, [key |-> key, content |-> q.val]), FALSE), 0) ELSE {q}
<1>3. \A q : Bears(q.s, f) => Carry(Fetched(q), f)
  <2> HIDE DEF key
  <2> QED  BY <1>1 DEF Carry
<1>4. \/ refresh_nvars_if_needed(s) = Ok(s, 0)
      \/ refresh_nvars_if_needed(s) = Err(s)
      \/ refresh_nvars_if_needed(s) = Ok(PaneNoted(SetPane(s, NoPane), FALSE), 0)
      \/ refresh_nvars_if_needed(s) = UNION {Fetched(q) : q \in fetch(s, key[1])}
  BY Zenon DEF refresh_nvars_if_needed, Then
<1> HIDE DEF Fetched, key
<1>5. Carry(UNION {Fetched(q) : q \in fetch(s, key[1])}, f)
  BY <1>2, <1>3 DEF Carry
<1> QED  BY <1>1, <1>4, <1>5, CarryAnswer

(* An image becomes the active one. *)
LEMMA CarryShow ==
  ASSUME NEW s, NEW f, Bears(s, f), NEW i
  PROVE  Carry(show(s, i), f)
<1>1. ASSUME NEW t, Bears(t, f), NEW x, NEW b
      PROVE  Carry(persist_state_best_effort(SetActive(FormsNoted(UploadNoted(SetTree(t, x), FALSE), b), i)), f)
  <2>1. PICK u : u = SetTree(t, x)
    OBVIOUS
  <2>2. PICK v : v = UploadNoted(u, FALSE)
    OBVIOUS
  <2>3. PICK w : w = FormsNoted(v, b)
    OBVIOUS
  <2>4. PICK y : y = SetActive(w, i)
    OBVIOUS
  <2>5. Bears(u, f)
    BY <1>1, <2>1, BearsSet
  <2>6. Bears(v, f)
    BY <2>2, <2>5, BearsNoted
  <2>7. Bears(w, f)
    BY <2>3, <2>6, BearsNoted
  <2>8. Bears(y, f)
    BY <2>4, <2>7, BearsSet
  <2> QED  BY <2>1, <2>2, <2>3, <2>4, <2>8, CarrySaved
<1>2. Carry(fetch(s, i), f)
  BY CarryImage
<1> DEFINE b == s.note.forms \/ s.app.active # i
           Answer(q) == persist_state_best_effort(SetActive(FormsNoted(UploadNoted(SetTree(q.s, build_tree(i, q.val)), FALSE), b), i))
<1>3. show(s, i) = UNION {IF q.err = "no" THEN Answer(q) ELSE {q} : q \in fetch(s, i)}
  BY DEF show, Then
<1>4. ASSUME NEW q, Bears(q.s, f) PROVE Carry(Answer(q), f)
  <2>1. PICK t, x, c : t = q.s /\ x = build_tree(i, q.val) /\ c = b
    OBVIOUS
  <2>2. Carry(persist_state_best_effort(SetActive(FormsNoted(UploadNoted(SetTree(t, x), FALSE), c), i)), f)
    BY <1>1, <1>4, <2>1
  <2> QED  BY <2>1, <2>2, Zenon
<1> HIDE DEF Answer
<1> QED  BY <1>2, <1>3, <1>4 DEF Carry

(* The registry, the tree and the pane, the error ignored. *)
LEMMA CarryIgnored ==
  ASSUME NEW s, NEW f, Bears(s, f)
  PROVE  /\ Carry(UNION {Ok(p.s, 0) : p \in refresh_registry(s)}, f)
         /\ Carry(UNION {Ok(p.s, 0) : p \in refresh_tree(s)}, f)
         /\ Carry(UNION {Ok(p.s, 0) : p \in refresh_nvars_if_needed(s)}, f)
<1>1. \A t : Bears(t, f) => Carry(Ok(t, 0), f)
  BY CarryAnswer
<1> QED  BY <1>1, CarryRegistry, CarryTree, CarryPane DEF Carry

(* open *)
LEMMA OpenCarries ==
  ASSUME NEW s, NEW f, Bears(s, f), NEW w
  PROVE  Carry(cmd_open(s, w), f)
<1> DEFINE Third(q) == UNION {Ok(p.s, 0) : p \in refresh_registry(q.s)}
           Second(r) == UNION {IF q.err = "no" THEN Third(q) ELSE {q} : q \in show(Loaded(r.s), r.val)}
<1>1. cmd_open(s, w) = UNION {IF r.err = "no" THEN Second(r) ELSE {r} : r \in open_in_session(s, w, FALSE)}
  BY DEF cmd_open, Then, After
<1>2. \A q : Bears(q.s, f) => Carry(Third(q), f)
  BY CarryIgnored
<1> HIDE DEF Third
<1>3. \A r : Bears(r.s, f) => Carry(Second(r), f)
  <2>1. \A r : Bears(r.s, f) => Carry(show(Loaded(r.s), r.val), f)
    BY BearsSet, CarryShow
  <2> QED  BY <1>2, <2>1 DEF Carry
<1> HIDE DEF Second
<1>4. Carry(open_in_session(s, w, FALSE), f)
  BY CarryInSession
<1> QED  BY <1>1, <1>3, <1>4 DEF Carry

(* upload *)
LEMMA UploadCarries ==
  ASSUME NEW s, NEW f, Bears(s, f), NEW w
  PROVE  Carry(cmd_upload(s, w), f)
<1> DEFINE Rest(q) == refresh_tree(SetTree(Loaded(q.s), [q.s.app.tree EXCEPT !.cursor = 0]))
           Listing(q) == {[s |-> UploadNoted(o.s, o.err # "no"), err |-> o.err, val |-> o.val] : o \in Rest(q)}
           Third(q) == UNION {IF o.err = "no" THEN refresh_registry(o.s) ELSE {o} : o \in Listing(q)}
           Saves(r) == persist_state_best_effort(SetActive(FormsNoted(r.s, TRUE), r.val))
           Second(r) == UNION {IF q.err = "no" THEN Third(q) ELSE {q} : q \in Saves(r)}
<1>1. cmd_upload(s, w) = UNION {IF r.err = "no" THEN Second(r) ELSE {r} : r \in open_in_session(s, w, TRUE)}
  BY DEF cmd_upload, Then
<1>2. ASSUME NEW q, Bears(q.s, f) PROVE Carry(Rest(q), f)
  <2>1. PICK t, x : t = Loaded(q.s) /\ x = [q.s.app.tree EXCEPT !.cursor = 0]
    OBVIOUS
  <2>2. PICK u : u = SetTree(t, x)
    OBVIOUS
  <2>3. Bears(t, f)
    BY <1>2, <2>1, BearsSet
  <2>4. Bears(u, f)
    BY <2>2, <2>3, BearsSet
  <2> QED  BY <2>1, <2>2, <2>4, CarryTree
<1> HIDE DEF Rest
<1>3. ASSUME NEW q, Bears(q.s, f) PROVE Carry(Listing(q), f)
  <2>1. ASSUME NEW o \in Rest(q) PROVE Bears(UploadNoted(o.s, o.err # "no"), f)
    <3>1. PICK t, b : t = o.s /\ b = (o.err # "no")
      OBVIOUS
    <3>2. Bears(t, f)
      BY <1>2, <1>3, <3>1 DEF Carry
    <3> QED  BY <3>1, <3>2, BearsNoted
  <2>2. ASSUME NEW x \in Listing(q) PROVE Bears(x.s, f)
    <3>1. PICK o \in Rest(q) : x = [s |-> UploadNoted(o.s, o.err # "no"), err |-> o.err, val |-> o.val]
      OBVIOUS
    <3>2. x.s = UploadNoted(o.s, o.err # "no")
      BY <3>1, Zenon
    <3> QED  BY <2>1, <3>2
  <2> HIDE DEF Listing
  <2> QED  BY <2>2 DEF Carry
<1> HIDE DEF Listing
<1>4. \A q : Bears(q.s, f) => Carry(Third(q), f)
  BY <1>3, CarryRegistry DEF Carry
<1>5. ASSUME NEW r, Bears(r.s, f) PROVE Carry(Saves(r), f)
  <2>1. PICK t : t = FormsNoted(r.s, TRUE)
    OBVIOUS
  <2>2. PICK u : u = SetActive(t, r.val)
    OBVIOUS
  <2>3. Bears(t, f)
    BY <1>5, <2>1, BearsNoted
  <2>4. Bears(u, f)
    BY <2>2, <2>3, BearsSet
  <2> QED  BY <2>1, <2>2, <2>4, CarrySaved
<1> HIDE DEF Third, Saves
<1>6. \A r : Bears(r.s, f) => Carry(Second(r), f)
  BY <1>4, <1>5 DEF Carry
<1> HIDE DEF Second
<1>7. Carry(open_in_session(s, w, TRUE), f)
  BY CarryInSession
<1> QED  BY <1>1, <1>6, <1>7 DEF Carry

(* snapshot, extract and import *)
LEMMA CopyCarries ==
  ASSUME NEW s, NEW f, Bears(s, f)
  PROVE  Carry(cmd_snapshot(s), f) /\ Carry(cmd_extract(s), f) /\ Carry(cmd_import(s), f)
<1>1. Carry(fetch(s, s.client.active), f)
  BY CarryImage
<1>2. \A q, e : Bears(q.s, f) => Bears(SetEngine(q.s, e), f)
  BY BearsSet
<1>3. Carry(cmd_snapshot(s), f)
  <2> DEFINE Taken(r) == [s.engine EXCEPT !.snap = [@ EXCEPT ![s.client.active] = r.val]]
  <2>1. cmd_snapshot(s) = UNION {IF r.err = "no" THEN Ok(SetEngine(r.s, Taken(r)), 0) ELSE {r} : r \in fetch(s, s.client.active)}
    BY DEF cmd_snapshot, Then
  <2> HIDE DEF Taken
  <2> QED  BY <1>1, <1>2, <2>1, CarryAnswer DEF Carry
<1>4. Carry(cmd_extract(s), f)
  <2> DEFINE more == [s.engine EXCEPT !.arts = IF @ < MaxArtifacts THEN @ + 1 ELSE @]
             Second(r) == UNION {Ok(q.s, 0) : q \in refresh_registry(SetEngine(r.s, more))}
  <2>1. cmd_extract(s) = UNION {IF r.err = "no" THEN Second(r) ELSE {r} : r \in fetch(s, s.client.active)}
    BY DEF cmd_extract, Then, After
  <2> HIDE DEF more
  <2>2. \A r : Bears(r.s, f) => Carry(Second(r), f)
    BY <1>2, CarryIgnored
  <2> HIDE DEF Second
  <2> QED  BY <1>1, <2>1, <2>2 DEF Carry
<1>5. Carry(cmd_import(s), f)
  <2> DEFINE Second(r) == UNION {Ok(q.s, 0) : q \in refresh_registry(r.s)}
  <2>1. cmd_import(s) = UNION {IF r.err = "no" THEN Second(r) ELSE {r} : r \in import_in_session(s)}
    BY DEF cmd_import, Then, After
  <2>2. \A r : Bears(r.s, f) => Carry(Second(r), f)
    BY CarryIgnored
  <2>3. Carry(import_in_session(s), f)
    BY CarryInSession
  <2> HIDE DEF Second
  <2> QED  BY <2>1, <2>2, <2>3 DEF Carry
<1> QED  BY <1>3, <1>4, <1>5

(* restore, insert, replace and remove *)
LEMMA EditCarries ==
  ASSUME NEW s, NEW f, Bears(s, f)
  PROVE  Carry(cmd_restore(s), f) /\ Carry(cmd_insert(s), f) /\ Carry(cmd_remove(s), f)
<1>1. PICK i : i = s.client.active
  OBVIOUS
<1>2. Carry(edit(s, i, FALSE), f)
  BY CarryImage
<1>3. Carry(cmd_restore(s), f)
  <2> DEFINE first == IF Live(s, i) /\ s.engine.snap[i] # 0
                      THEN Fault(s) \cup Ok(Stale(SetContent(s, i, s.engine.snap[i])), 0) ELSE Err(s)
             Second(r) == UNION {IF q.err = "no" THEN refresh_registry(q.s) ELSE {q} : q \in refresh_tree(r.s)}
  <2>1. cmd_restore(s) = UNION {IF r.err = "no" THEN Second(r) ELSE {r} : r \in first}
    BY <1>1 DEF cmd_restore, Then
  <2>2. Carry(first, f)
    <3>1. PICK t, c : c = s.engine.snap[i] /\ t = SetContent(s, i, c)
      OBVIOUS
    <3>2. PICK u : u = Stale(t)
      OBVIOUS
    <3>3. Bears(t, f)
      BY <3>1, BearsImage
    <3>4. Bears(u, f)
      BY <3>2, <3>3, BearsNoted
    <3> QED  BY <3>1, <3>2, <3>4, CarryAnswer DEF Carry
  <2>3. \A r : Bears(r.s, f) => Carry(Second(r), f)
    BY CarryTree, CarryRegistry DEF Carry
  <2> HIDE DEF first, Second
  <2> QED  BY <2>1, <2>2, <2>3 DEF Carry
<1>4. Carry(cmd_insert(s), f)
  <2> DEFINE Third(q) == UNION {Ok(p.s, 0) : p \in refresh_tree(q.s)}
             Second(r) == UNION {Third(q) : q \in refresh_registry(r.s)}
  <2>1. cmd_insert(s) = UNION {IF r.err = "no" THEN Second(r) ELSE {r} : r \in edit(s, i, FALSE)}
    BY <1>1 DEF cmd_insert, Then, After
  <2>2. \A q : Bears(q.s, f) => Carry(Third(q), f)
    BY CarryIgnored
  <2> HIDE DEF Third
  <2>3. \A r : Bears(r.s, f) => Carry(Second(r), f)
    BY <2>2, CarryRegistry DEF Carry
  <2> HIDE DEF Second
  <2> QED  BY <1>2, <2>1, <2>3 DEF Carry
<1>5. Carry(cmd_remove(s), f)
  <2> DEFINE Second(r) == UNION {Ok(p.s, 0) : p \in refresh_tree(r.s)}
  <2>1. cmd_remove(s) = UNION {IF r.err = "no" THEN Second(r) ELSE {r} : r \in edit(s, i, FALSE)}
    BY <1>1 DEF cmd_remove, Then, After
  <2>2. \A r : Bears(r.s, f) => Carry(Second(r), f)
    BY CarryIgnored
  <2> HIDE DEF Second
  <2> QED  BY <1>2, <2>1, <2>2 DEF Carry
<1> QED  BY <1>3, <1>4, <1>5

(* close *)
LEMMA CloseCarries ==
  ASSUME NEW s, NEW f, Bears(s, f), NEW i
  PROVE  Carry(cmd_close(s, i), f)
<1> DEFINE Cleans(r) == IF s.app.active = i THEN persist_state_best_effort(UploadNoted(Cleared(r.s), FALSE)) ELSE Ok(r.s, 0)
           Third(q) == UNION {Ok(p.s, 0) : p \in refresh_registry(q.s)}
           Second(r) == UNION {IF q.err = "no" THEN Third(q) ELSE {q} : q \in Cleans(r)}
<1>1. cmd_close(s, i) = UNION {IF r.err = "no" THEN Second(r) ELSE {r} : r \in image_close(s, i)}
  BY DEF cmd_close, Then, After
<1>2. ASSUME NEW r, Bears(r.s, f) PROVE Carry(Cleans(r), f)
  <2>1. PICK t : t = SetActive(r.s, 0)
    OBVIOUS
  <2>2. Bears(t, f)
    BY <1>2, <2>1, BearsSet
  <2>3. PICK u : u = Cleared(r.s)
    OBVIOUS
  <2>4. u = SetApp(t, [t.app EXCEPT !.tree = NoTree, !.loaded = FALSE, !.view = "Image"])
    BY <2>1, <2>3 DEF Cleared
  <2>5. Bears(u, f)
    BY <2>2, <2>4 DEF Bears, SetApp
  <2>6. Carry(persist_state_best_effort(UploadNoted(u, FALSE)), f)
    BY <2>5, BearsNoted, CarrySaved
  <2> QED  BY <1>2, <2>3, <2>6, CarryAnswer
<1>3. \A q : Bears(q.s, f) => Carry(Third(q), f)
  BY CarryIgnored
<1> HIDE DEF Cleans, Third
<1>4. \A r : Bears(r.s, f) => Carry(Second(r), f)
  BY <1>2, <1>3 DEF Carry
<1>5. Carry(image_close(s, i), f)
  BY CarryImage
<1> HIDE DEF Second
<1> QED  BY <1>1, <1>4, <1>5 DEF Carry

(* nvar list, nvar set and tse unhide *)
LEMMA NvarCarries ==
  ASSUME NEW s, NEW f, Bears(s, f), NEW n
  PROVE  Carry(cmd_nvar_list(s, n), f) /\ Carry(cmd_nvar_set(s), f) /\ Carry(cmd_tse_unhide(s), f)
<1>0. \A t, p : Bears(t, f) => Bears(PaneNoted(SetPane(t, p), FALSE), f)
  BY BearsSet, BearsNoted
<1>1. Carry(cmd_nvar_list(s, n), f)
  <2>1. PICK t : t = SetTree(s, goto_path(s.app.tree, n))
    OBVIOUS
  <2>2. Bears(t, f)
    BY <2>1, BearsSet
  <2>3. Carry(fetch(t, t.client.active), f)
    BY <2>2, CarryImage
  <2> DEFINE Pane(r) == [key |-> <<r.s.client.active, n>>, content |-> r.val]
             Second(r) == IF \E m \in Range(Library[r.val].tree) : m.path = n /\ m.nvar
                          THEN Ok(PaneNoted(SetPane(r.s, Pane(r)), FALSE), 0) ELSE Err(r.s)
  <2>4. cmd_nvar_list(s, n) = UNION {IF r.err = "no" THEN Second(r) ELSE {r} : r \in fetch(t, t.client.active)}
    BY <2>1, Zenon DEF cmd_nvar_list, Then
  <2> HIDE DEF Pane
  <2>5. \A r : Bears(r.s, f) => Carry(Second(r), f)
    BY <1>0, CarryAnswer
  <2> HIDE DEF Second
  <2> QED  BY <2>3, <2>4, <2>5 DEF Carry
<1>2. Carry(cmd_nvar_set(s), f)
  <2> DEFINE Forgot(r) == PaneNoted(SetPane(r.s, [r.s.app.nvar EXCEPT !.key = NoPane.key]), FALSE)
             Second(t) == IF selected(t.app.tree).nvar THEN UNION {Ok(q.s, 0) : q \in refresh_nvars_if_needed(t)} ELSE Ok(t, 0)
  <2>1. cmd_nvar_set(s) = UNION {IF r.err = "no" THEN Second(Forgot(r)) ELSE {r} : r \in edit(s, s.client.active, TRUE)}
    BY Zenon DEF cmd_nvar_set, Then, After
  <2>2. \A t : Bears(t, f) => Carry(Second(t), f)
    BY CarryIgnored, CarryAnswer
  <2>3. \A r : Bears(r.s, f) => Bears(Forgot(r), f)
    BY <1>0
  <2>4. Carry(edit(s, s.client.active, TRUE), f)
    BY CarryImage
  <2> HIDE DEF Forgot, Second
  <2> QED  BY <2>1, <2>2, <2>3, <2>4 DEF Carry
<1>3. Carry(cmd_tse_unhide(s), f)
  <2>1. \A i : Carry(edit(s, i, TRUE), f)
    BY CarryImage
  <2> QED  BY <2>1, CarryAnswer DEF cmd_tse_unhide
<1> QED  BY <1>1, <1>2, <1>3

(* A new process. *)
LEMMA StartCarries ==
  ASSUME NEW s, NEW f, Bears(s, f)
  PROVE  Carry(restore_session(s), f)
<1> DEFINE Found(t, q) == Loaded(SetTree(SetActive(q.s, t.client.active), build_tree(t.client.active, q.val)))
           Lost(q) == Unsaved(SetActive(q.s, 0), TRUE)
           Answer(t, q) == IF q.err = "no" THEN Ok(Found(t, q), 0) ELSE Ok(Lost(q), 0)
           Rest(t) == IF t.client.active = 0 THEN Ok(t, 0) ELSE UNION {Answer(t, q) : q \in fetch(t, t.client.active)}
<1>1. restore_session(s) = UNION {Rest(o.s) : o \in refresh_registry(s)}
  BY Zenon DEF restore_session, After
<1>2. ASSUME NEW t, NEW q, Bears(q.s, f) PROVE Carry(Answer(t, q), f)
  <2>1. PICK i, x : i = t.client.active /\ x = build_tree(i, q.val)
    OBVIOUS
  <2>2. Bears(Loaded(SetTree(SetActive(q.s, i), x)), f)
    <3>1. PICK u : u = SetActive(q.s, i)
      OBVIOUS
    <3>2. PICK v : v = SetTree(u, x)
      OBVIOUS
    <3>3. Bears(u, f)
      BY <1>2, <3>1, BearsSet
    <3>4. Bears(v, f)
      BY <3>2, <3>3, BearsSet
    <3> QED  BY <3>1, <3>2, <3>4, BearsSet
  <2>3. Bears(Lost(q), f)
    BY <1>2, BearsSet, BearsNoted
  <2>4. Bears(Found(t, q), f)
    BY <2>1, <2>2
  <2> HIDE DEF Found, Lost
  <2> QED  BY <2>3, <2>4, CarryAnswer
<1> HIDE DEF Answer
<1>3. \A t : Bears(t, f) => Carry(Rest(t), f)
  <2>1. \A t, i : Bears(t, f) => Carry(fetch(t, i), f)
    BY CarryImage
  <2> QED  BY <1>2, <2>1, CarryAnswer DEF Carry
<1>4. Carry(refresh_registry(s), f)
  BY CarryRegistry
<1> HIDE DEF Rest
<1> QED  BY <1>1, <1>3, <1>4 DEF Carry

(* A list that is open completely. *)
AllOpen(s) == \E f : Bears(s, f) /\ f.expanded = all_row_keys(f.forms, f.edges)

(* Outcomes with the forms f, or with a list that is open completely. *)
CarryOrOpen(R, f) == \A r \in R : Bears(r.s, f) \/ AllOpen(r.s)

(* Entering the view opens the list. *)
LEMMA RefreshOpens ==
  ASSUME NEW s, NEW f, Bears(s, f)
  PROVE  CarryOrOpen(refresh_forms(s), f)
<1> DEFINE Fresh(q) == [NoForms EXCEPT !.from = <<FormsImage(s), q.val>>, !.forms = Library[q.val].forms, !.edges = Library[q.val].edges,
                              !.expanded = all_row_keys(Library[q.val].forms, Library[q.val].edges), !.flat = s.app.forms.flat,
                              !.focus = s.app.forms.focus, !.qcursor = s.app.forms.qcursor]
           Second(r) == UNION {IF q.err = "no" THEN Ok(FormsNoted(SetForms(q.s, Fresh(q)), FALSE), 0) ELSE {q} : q \in forms_fetch(r.s)}
<1>1. refresh_forms(s) = UNION {IF r.err = "no" THEN Second(r) ELSE {r} : r \in forms_fetch(s)}
  BY DEF refresh_forms, Then
<1>2. ASSUME NEW q PROVE Fresh(q).expanded = all_row_keys(Fresh(q).forms, Fresh(q).edges)
  <2>1. PICK forms, edges : forms = Library[q.val].forms /\ edges = Library[q.val].edges
    OBVIOUS
  <2>2. PICK g : g = Fresh(q)
    OBVIOUS
  <2>3. g.forms = forms /\ g.edges = edges /\ g.expanded = all_row_keys(forms, edges)
    BY <2>1, <2>2 DEF NoForms
  <2> HIDE DEF Fresh
  <2> QED  BY <2>2, <2>3
<1> HIDE DEF Fresh
<1>3. ASSUME NEW q, Bears(q.s, f) PROVE \A r \in Ok(FormsNoted(SetForms(q.s, Fresh(q)), FALSE), 0) : AllOpen(r.s)
  <2>1. PICK g : g = Fresh(q)
    OBVIOUS
  <2>2. PICK t : t = SetForms(q.s, g)
    OBVIOUS
  <2>3. Bears(t, g)
    BY <1>3, <2>2, BearsSet
  <2>4. Bears(FormsNoted(t, FALSE), g)
    BY <2>3, BearsNoted
  <2>5. PICK u : u = FormsNoted(t, FALSE)
    OBVIOUS
  <2>6. AllOpen(u)
    BY <1>2, <2>1, <2>4, <2>5 DEF AllOpen
  <2>7. \A r \in Ok(u, 0) : r.s = u
    BY DEF Ok
  <2> QED  BY <2>1, <2>2, <2>5, <2>6, <2>7
<1>4. \A r : Bears(r.s, f) => CarryOrOpen(Second(r), f)
  <2>1. \A r : Bears(r.s, f) => Carry(forms_fetch(r.s), f)
    BY CarryImage
  <2> QED  BY <1>3, <2>1 DEF Carry, CarryOrOpen
<1> HIDE DEF Second
<1>5. Carry(forms_fetch(s), f)
  BY CarryImage
<1> QED  BY <1>1, <1>4, <1>5 DEF Carry, CarryOrOpen

(* switch, reopen and forms end with it. *)
LEMMA SwitchOpens ==
  ASSUME NEW s, NEW f, Bears(s, f), NEW i
  PROVE  CarryOrOpen(cmd_switch(s, i), f)
<1> DEFINE Fourth(p) == IF p.s.app.view = "Forms" THEN refresh_forms(p.s) ELSE Ok(p.s, 0)
           Third(q) == UNION {Fourth(p) : p \in refresh_registry(Loaded(q.s))}
           Second(r) == UNION {IF q.err = "no" THEN Third(q) ELSE {q} : q \in show(r.s, i)}
<1>1. cmd_switch(s, i) = UNION {IF r.err = "no" THEN Second(r) ELSE {r} : r \in ensure_session(s)}
  BY DEF cmd_switch, Then, After
<1>2. \A p : Bears(p.s, f) => CarryOrOpen(Fourth(p), f)
  BY RefreshOpens, CarryAnswer DEF CarryOrOpen, Carry
<1> HIDE DEF Fourth
<1>3. \A q : Bears(q.s, f) => CarryOrOpen(Third(q), f)
  <2>1. \A q : Bears(q.s, f) => Carry(refresh_registry(Loaded(q.s)), f)
    BY BearsSet, CarryRegistry
  <2> QED  BY <1>2, <2>1 DEF CarryOrOpen, Carry
<1> HIDE DEF Third
<1>4. \A r : Bears(r.s, f) => CarryOrOpen(Second(r), f)
  <2>1. \A r : Bears(r.s, f) => Carry(show(r.s, i), f)
    BY CarryShow
  <2> QED  BY <1>3, <2>1 DEF CarryOrOpen, Carry
<1> HIDE DEF Second
<1>5. Carry(ensure_session(s), f)
  BY CarrySession
<1> QED  BY <1>1, <1>4, <1>5 DEF CarryOrOpen, Carry

(* reopen *)
LEMMA ReopenOpens ==
  ASSUME NEW s, NEW f, Bears(s, f), NEW want
  PROVE  CarryOrOpen(reopen(s, want), f)
<1> DEFINE i == reopen_target(s)
           im == s.app.reg.images[i]
           Fifth(o) == IF o.s.app.view = "Forms" THEN refresh_forms(o.s) ELSE Ok(o.s, 0)
           Fourth(p) == UNION {Fifth(o) : o \in refresh_registry(p.s)}
           Third(q) == UNION {Fourth(p) : p \in image_close(q.s, i)}
           Second(r) == UNION {IF q.err = "no" THEN Third(q) ELSE {q} : q \in show(r.s, r.val)}
           again == UNION {IF r.err = "no" THEN Second(r) ELSE {r} : r \in reopen_in_session(s, im)}
<1>2. reopen(s, want) = Err(s) \/ reopen(s, want) = Ok(s, 0) \/ reopen(s, want) = again
  <2>1. CASE i \notin DOMAIN s.app.reg.images
    BY <2>1, Zenon DEF reopen
  <2>2. CASE i \in DOMAIN s.app.reg.images
    <3>1. reopen_plan(want, im.write) \in {"OpenWrite", "AlreadyWrite", "AlreadyRead", "RefuseUnsavedWrite"}
      BY DEF reopen_plan
    <3>2. reopen(s, want) = CASE reopen_plan(want, im.write) = "RefuseUnsavedWrite" -> Err(s)
                              [] reopen_plan(want, im.write) \in {"AlreadyWrite", "AlreadyRead"} -> Ok(s, 0)
                              [] reopen_plan(want, im.write) = "OpenWrite" -> again
      BY <2>2, Zenon DEF reopen, Then, After
    <3> HIDE DEF i, im, again
    <3> QED  BY <3>1, <3>2
  <2> QED  BY <2>1, <2>2
<1> HIDE DEF i, im
<1>3. \A o : Bears(o.s, f) => CarryOrOpen(Fifth(o), f)
  BY RefreshOpens, CarryAnswer DEF CarryOrOpen, Carry
<1> HIDE DEF Fifth
<1>4. \A p : Bears(p.s, f) => CarryOrOpen(Fourth(p), f)
  BY <1>3, CarryRegistry DEF CarryOrOpen, Carry
<1> HIDE DEF Fourth
<1>5. \A q : Bears(q.s, f) => CarryOrOpen(Third(q), f)
  BY <1>4, CarryImage DEF CarryOrOpen, Carry
<1> HIDE DEF Third
<1>6. \A r : Bears(r.s, f) => CarryOrOpen(Second(r), f)
  <2>1. \A r : Bears(r.s, f) => Carry(show(r.s, r.val), f)
    BY CarryShow
  <2> QED  BY <1>5, <2>1 DEF CarryOrOpen, Carry
<1> HIDE DEF Second
<1>7. Carry(reopen_in_session(s, im), f)
  BY CarryInSession
<1>8. CarryOrOpen(again, f)
  BY <1>6, <1>7 DEF CarryOrOpen, Carry
<1>9. Carry(Err(s), f) /\ Carry(Ok(s, 0), f)
  BY CarryAnswer
<1> HIDE DEF again
<1> QED  BY <1>2, <1>8, <1>9 DEF CarryOrOpen, Carry

(* The view may change as well. *)
LEMMA StillOpen ==
  ASSUME NEW s, NEW f, Bears(s, f) \/ AllOpen(s), NEW x
  PROVE  /\ Bears(SetView(s, x), f) \/ AllOpen(SetView(s, x))
         /\ Bears(SetApp(s, [s.app EXCEPT !.focus = x]), f) \/ AllOpen(SetApp(s, [s.app EXCEPT !.focus = x]))
<1>1. CASE Bears(s, f)
  BY <1>1, BearsSet
<1>2. CASE AllOpen(s)
  <2>1. PICK g : Bears(s, g) /\ g.expanded = all_row_keys(g.forms, g.edges)
    BY <1>2 DEF AllOpen
  <2>2. Bears(SetView(s, x), g) /\ Bears(SetApp(s, [s.app EXCEPT !.focus = x]), g)
    BY <2>1, BearsSet
  <2> QED  BY <2>1, <2>2 DEF AllOpen
<1> QED  BY <1>1, <1>2

(* forms *)
LEMMA FormsOpens ==
  ASSUME NEW s, NEW f, Bears(s, f)
  PROVE  CarryOrOpen(cmd_forms(s), f)
<1>1. cmd_forms(s) = UNION {IF r.err = "no" THEN Ok(SetView(r.s, "Forms"), 0) ELSE {r} : r \in refresh_forms(s)}
  BY DEF cmd_forms, Then
<1>2. CarryOrOpen(refresh_forms(s), f)
  BY RefreshOpens
<1>3. \A t : Bears(t, f) \/ AllOpen(t) => Bears(SetView(t, "Forms"), f) \/ AllOpen(SetView(t, "Forms"))
  BY StillOpen
<1>4. \A t : \A r \in Ok(t, 0) : r.s = t
  BY DEF Ok
<1> QED  BY <1>1, <1>2, <1>3, <1>4 DEF CarryOrOpen

(* A record with the fields of a list. *)
HasList(f) == {"forms", "edges", "flat", "expanded", "cursor", "focus"} \subseteq DOMAIN f

(* With e open. *)
Opened(s, e) == \E f : Bears(s, f) /\ HasList(f) /\ f.expanded = e

(* Outcomes where e is open. *)
LeavesOpen(R, e) == \A r \in R : Opened(r.s, e)

(* So it is where the forms are the same. *)
LEMMA CarryOpening ==
  ASSUME NEW s, NEW e, Opened(s, e), NEW x
  PROVE  /\ LeavesOpen(Ok(s, x), e) /\ LeavesOpen(Err(s), e) /\ LeavesOpen(forms_fetch(s), e) /\ LeavesOpen(fetch(s, x), e)
         /\ LeavesOpen(edit(s, x, TRUE), e) /\ LeavesOpen(refresh_tree(s), e) /\ Opened(FormsNoted(s, x), e)
<1>1. PICK f : Bears(s, f) /\ HasList(f) /\ f.expanded = e
  BY DEF Opened
<1>2. \A R : Carry(R, f) => LeavesOpen(R, e)
  BY <1>1 DEF Carry, LeavesOpen, Opened
<1>3. /\ Carry(Ok(s, x), f) /\ Carry(Err(s), f) /\ Carry(forms_fetch(s), f) /\ Carry(fetch(s, x), f)
      /\ Carry(edit(s, x, TRUE), f) /\ Carry(refresh_tree(s), f)
  BY <1>1, CarryAnswer, CarryImage, CarryTree
<1>4. Bears(FormsNoted(s, x), f)
  BY <1>1, BearsNoted
<1> QED  BY <1>1, <1>2, <1>3, <1>4 DEF Opened

(* And where another field of them is set. *)
LEMMA OpenedSet ==
  ASSUME NEW s, NEW e, Opened(s, e), NEW g, HasList(g), g.expanded = e
  PROVE  Opened(SetForms(s, g), e)
<1>1. PICK f : Bears(s, f)
  BY DEF Opened
<1>2. Bears(SetForms(s, g), g)
  BY <1>1, BearsSet
<1> QED  BY <1>2 DEF Opened

(* An edit does not open or close anything. *)
LEMMA ReloadOpening ==
  ASSUME NEW s, NEW e, Opened(s, e)
  PROVE  LeavesOpen(reload_forms(s), e)
<1>1. PICK h : h = s.app.forms
  OBVIOUS
<1>2. HasList(h) /\ h.expanded = e
  BY <1>1 DEF Opened, Bears
<1> DEFINE New(q) == [h EXCEPT !.from = <<FormsImage(s), q.val>>,
                       !.forms = Library[q.val].forms, !.edges = Library[q.val].edges,
                       !.qkey = NoKey, !.qfrom = Nowhere, !.qcursor = 0,
                       !.info = NoForms.info, !.value = NoForms.value, !.vtarget = NoSet]
           Fresh(q) == Reloaded(New(q), selected_form_key(h))
           Second(r) == UNION {IF q.err = "no" THEN Ok(FormsNoted(SetForms(q.s, Fresh(q)), FALSE), 0) ELSE {q} : q \in forms_fetch(r.s)}
<1>3. reload_forms(s) = UNION {IF r.err = "no" THEN Second(r) ELSE {r} : r \in forms_fetch(s)}
  BY <1>1 DEF reload_forms, Then
<1>4. ASSUME NEW q PROVE HasList(Fresh(q)) /\ Fresh(q).expanded = e
  <2>1. PICK g : g = New(q)
    OBVIOUS
  <2>2. HasList(g) /\ g.expanded = e
    BY <1>2, <2>1 DEF HasList
  <2>3. PICK c : Fresh(q) = [g EXCEPT !.cursor = c]
    <3> HIDE DEF New
    <3> QED  BY <2>1 DEF Reloaded, Reselected
  <2> HIDE DEF Fresh
  <2> QED  BY <2>2, <2>3 DEF HasList
<1> HIDE DEF Fresh
<1>5. ASSUME NEW q, Opened(q.s, e) PROVE LeavesOpen(Ok(FormsNoted(SetForms(q.s, Fresh(q)), FALSE), 0), e)
  <2>1. PICK g : g = Fresh(q)
    OBVIOUS
  <2>2. PICK t : t = SetForms(q.s, g)
    OBVIOUS
  <2>3. Opened(t, e)
    BY <1>4, <1>5, <2>1, <2>2, OpenedSet
  <2>4. Opened(FormsNoted(t, FALSE), e)
    BY <2>3, CarryOpening
  <2> QED  BY <2>1, <2>2, <2>4, CarryOpening
<1>6. \A r : Opened(r.s, e) => LeavesOpen(Second(r), e)
  <2>1. \A r : Opened(r.s, e) => LeavesOpen(forms_fetch(r.s), e)
    BY CarryOpening
  <2> QED  BY <1>5, <2>1 DEF LeavesOpen
<1> HIDE DEF Second
<1>7. LeavesOpen(forms_fetch(s), e)
  BY CarryOpening
<1> QED  BY <1>3, <1>6, <1>7 DEF LeavesOpen

(* The same list: rows, cursor and focus. *)
SameList(s, f) == \E g : Bears(s, g) /\ HasList(g) /\ ListKept(f, g)

(* Outcomes with the same list. *)
KeepsList(R, f) == \A r \in R : SameList(r.s, f)

(* Answers, and other fields of the forms. *)
LEMMA ListAnswer ==
  ASSUME NEW s, NEW f, SameList(s, f), NEW x
  PROVE  /\ KeepsList(Ok(s, x), f) /\ KeepsList(Err(s), f) /\ KeepsList(forms_fetch(s), f)
         /\ \A g : HasList(g) /\ ListKept(f, g) => KeepsList(Ok(SetForms(s, g), x), f)
<1>1. PICK h : Bears(s, h) /\ HasList(h) /\ ListKept(f, h)
  BY DEF SameList
<1>2. \A R : Carry(R, h) => KeepsList(R, f)
  BY <1>1 DEF Carry, KeepsList, SameList
<1>3. Carry(Ok(s, x), h) /\ Carry(Err(s), h) /\ Carry(forms_fetch(s), h)
  BY <1>1, CarryAnswer, CarryImage
<1>4. ASSUME NEW g, HasList(g), ListKept(f, g) PROVE KeepsList(Ok(SetForms(s, g), x), f)
  <2>1. PICK t : t = SetForms(s, g)
    OBVIOUS
  <2>2. Bears(t, g)
    BY <1>1, <2>1, BearsSet
  <2>3. SameList(t, f)
    BY <1>4, <2>2 DEF SameList
  <2> QED  BY <2>1, <2>3 DEF KeepsList, Ok
<1> QED  BY <1>2, <1>3, <1>4

(* The questions and what is shown of them are not in the list. *)
LEMMA QuestionFields ==
  ASSUME NEW f, NEW h, HasList(h), ListKept(f, h), NEW x, NEW y, NEW z
  PROVE  /\ HasList([h EXCEPT !.info = x]) /\ ListKept(f, [h EXCEPT !.info = x])
         /\ HasList([h EXCEPT !.value = x]) /\ ListKept(f, [h EXCEPT !.value = x])
         /\ HasList([h EXCEPT !.qcursor = x]) /\ ListKept(f, [h EXCEPT !.qcursor = x])
         /\ HasList([h EXCEPT !.strings = x, !.scursor = 0]) /\ ListKept(f, [h EXCEPT !.strings = x, !.scursor = 0])
BY DEF HasList, ListKept

(* More of them. *)
LEMMA DetailFields ==
  ASSUME NEW f, NEW h, HasList(h), ListKept(f, h), NEW x, NEW y, NEW z
  PROVE  /\ HasList([h EXCEPT !.qkey = x, !.qfrom = y, !.qcursor = 0, !.info = z])
         /\ ListKept(f, [h EXCEPT !.qkey = x, !.qfrom = y, !.qcursor = 0, !.info = z])
         /\ HasList([h EXCEPT !.stores = x, !.vtarget = y, !.vcursor = 0])
         /\ ListKept(f, [h EXCEPT !.stores = x, !.vtarget = y, !.vcursor = 0])
BY DEF HasList, ListKept

(* refresh_form_details *)
LEMMA DetailsKeep ==
  ASSUME NEW s, NEW f, SameList(s, f)
  PROVE  KeepsList(details(s), f)
<1> DEFINE key == selected_form_key(s.app.forms)
           h == s.app.forms
           New(r) == [h EXCEPT !.qkey = key, !.qfrom = <<FormsImage(s), r.val>>, !.qcursor = 0, !.info = NoForms.info]
           Fetched(r) == IF key \notin DOMAIN Library[r.val].asks THEN Err(r.s) ELSE Ok(SetForms(r.s, New(r)), 0)
           all == UNION {IF r.err = "no" THEN Fetched(r) ELSE {r} : r \in forms_fetch(s)}
<1>1. refresh_form_details_if_needed(s) = Ok(s, 0) \/ refresh_form_details_if_needed(s) = all
  BY DEF refresh_form_details_if_needed, DetailsOf, Then
<1>2. HasList(h) /\ ListKept(f, h)
  BY DEF SameList, Bears
<1>3. ASSUME NEW r PROVE HasList(New(r)) /\ ListKept(f, New(r))
  <2> HIDE DEF key, h
  <2> QED  BY <1>2, DetailFields
<1> HIDE DEF New
<1>4. ASSUME NEW r, SameList(r.s, f) PROVE KeepsList(Fetched(r), f)
  BY <1>3, <1>4, ListAnswer
<1> HIDE DEF Fetched
<1>5. KeepsList(forms_fetch(s), f) /\ KeepsList(Ok(s, 0), f)
  BY ListAnswer
<1>6. KeepsList(all, f)
  BY <1>4, <1>5 DEF KeepsList
<1> HIDE DEF all
<1>7. KeepsList(refresh_form_details_if_needed(s), f)
  BY <1>1, <1>5, <1>6
<1>8. details(s) = UNION {Ok(r.s, 0) : r \in refresh_form_details_if_needed(s)}
  BY DEF details, After
<1> QED  BY <1>7, <1>8, ListAnswer DEF KeepsList

(* refresh_question_info *)
LEMMA InfoKeep ==
  ASSUME NEW s, NEW f, SameList(s, f)
  PROVE  KeepsList(refresh_question_info_if_needed(s), f)
<1> DEFINE key == selected_form_key(s.app.forms)
           h == s.app.forms
           qid == QuestionAt(h, key)
           New(x) == [h EXCEPT !.info = x]
           all == UNION {IF r.err = "no" THEN Ok(SetForms(r.s, New(<<key, qid, <<FormsImage(s), r.val>>>>)), 0) ELSE {r} : r \in forms_fetch(s)}
<1>1. \/ refresh_question_info_if_needed(s) = Ok(s, 0)
      \/ refresh_question_info_if_needed(s) = Ok(SetForms(s, New(NoForms.info)), 0)
      \/ refresh_question_info_if_needed(s) = all
  BY Zenon DEF refresh_question_info_if_needed, InfoOf, Then
<1>2. HasList(h) /\ ListKept(f, h)
  BY DEF SameList, Bears
<1>3. ASSUME NEW x PROVE HasList(New(x)) /\ ListKept(f, New(x))
  <2> HIDE DEF key, h
  <2> QED  BY <1>2, QuestionFields
<1> HIDE DEF New, key, h, qid
<1>4. KeepsList(forms_fetch(s), f) /\ KeepsList(Ok(s, 0), f) /\ KeepsList(Ok(SetForms(s, New(NoForms.info)), 0), f)
  BY <1>3, ListAnswer
<1>5. \A r, x : SameList(r.s, f) => KeepsList(Ok(SetForms(r.s, New(x)), 0), f)
  BY <1>3, ListAnswer
<1>6. KeepsList(all, f)
  BY <1>4, <1>5 DEF KeepsList
<1> HIDE DEF all
<1> QED  BY <1>1, <1>4, <1>6

(* refresh_current_value *)
LEMMA ValueKeep ==
  ASSUME NEW s, NEW f, SameList(s, f)
  PROVE  KeepsList(refresh_current_value_if_needed(s), f)
<1> DEFINE key == selected_form_key(s.app.forms)
           h == s.app.forms
           qid == QuestionAt(h, key)
           New(x) == [h EXCEPT !.value = x]
           all == UNION {IF r.err = "no" THEN Ok(SetForms(r.s, New(<<key, qid, <<FormsImage(s), r.val>>>>)), 0) ELSE {r} : r \in forms_fetch(s)}
<1>1. \/ refresh_current_value_if_needed(s) = Ok(s, 0)
      \/ refresh_current_value_if_needed(s) = Ok(SetForms(s, New(NoForms.value)), 0)
      \/ refresh_current_value_if_needed(s) = all
  BY Zenon DEF refresh_current_value_if_needed, CurrentValueOf, Then
<1>2. HasList(h) /\ ListKept(f, h)
  BY DEF SameList, Bears
<1>3. ASSUME NEW x PROVE HasList(New(x)) /\ ListKept(f, New(x))
  <2> HIDE DEF key, h
  <2> QED  BY <1>2, QuestionFields
<1> HIDE DEF New, key, h, qid
<1>4. KeepsList(forms_fetch(s), f) /\ KeepsList(Ok(s, 0), f) /\ KeepsList(Ok(SetForms(s, New(NoForms.value)), 0), f)
  BY <1>3, ListAnswer
<1>5. \A r, x : SameList(r.s, f) => KeepsList(Ok(SetForms(r.s, New(x)), 0), f)
  BY <1>3, ListAnswer
<1>6. KeepsList(all, f)
  BY <1>4, <1>5 DEF KeepsList
<1> HIDE DEF all
<1> QED  BY <1>1, <1>4, <1>6

(* Both of them; the browsers. *)
LEMMA QuestionKeep ==
  ASSUME NEW s, NEW f, SameList(s, f), NEW target
  PROVE  /\ KeepsList(UNION {Ok(r.s, 0) : r \in refresh_question(s)}, f)
         /\ KeepsList(UNION {Ok(r.s, 0) : r \in refresh_strings(s)}, f)
         /\ KeepsList(UNION {Ok(r.s, 0) : r \in refresh_varstores(s, target)}, f)
<1>1. \A R : KeepsList(R, f) => KeepsList(UNION {Ok(r.s, 0) : r \in R}, f)
  BY ListAnswer DEF KeepsList
<1>2. KeepsList(refresh_question(s), f)
  <2>1. refresh_question(s) = UNION {refresh_current_value_if_needed(r.s) : r \in refresh_question_info_if_needed(s)}
    BY DEF refresh_question, After
  <2>2. KeepsList(refresh_question_info_if_needed(s), f)
    BY InfoKeep
  <2> QED  BY <2>1, <2>2, ValueKeep DEF KeepsList
<1> DEFINE h == s.app.forms
           Texts(r) == [h EXCEPT !.strings = <<FormsImage(s), r.val>>, !.scursor = 0]
           Stores(r) == [h EXCEPT !.stores = <<FormsImage(s), r.val>>, !.vtarget = target, !.vcursor = 0]
<1>3. /\ refresh_strings(s) = UNION {IF r.err = "no" THEN Ok(SetForms(r.s, Texts(r)), 0) ELSE {r} : r \in forms_fetch(s)}
      /\ refresh_varstores(s, target) = UNION {IF r.err = "no" THEN Ok(SetForms(r.s, Stores(r)), 0) ELSE {r} : r \in forms_fetch(s)}
  BY DEF refresh_strings, refresh_varstores, Then
<1>4. HasList(h) /\ ListKept(f, h)
  BY DEF SameList, Bears
<1>5. ASSUME NEW r PROVE HasList(Texts(r)) /\ ListKept(f, Texts(r)) /\ HasList(Stores(r)) /\ ListKept(f, Stores(r))
  <2> HIDE DEF h
  <2> QED  BY <1>4, QuestionFields, DetailFields
<1> HIDE DEF Texts, Stores, h
<1>6. KeepsList(forms_fetch(s), f)
  BY ListAnswer
<1>7. \A r : SameList(r.s, f) => KeepsList(Ok(SetForms(r.s, Texts(r)), 0), f) /\ KeepsList(Ok(SetForms(r.s, Stores(r)), 0), f)
  BY <1>5, ListAnswer
<1>8. KeepsList(refresh_strings(s), f) /\ KeepsList(refresh_varstores(s, target), f)
  BY <1>3, <1>6, <1>7 DEF KeepsList
<1> QED  BY <1>1, <1>2, <1>8

(* Where the list is the same, so is what is open. *)
LEMMA ListOpening ==
  ASSUME NEW s, NEW e, Opened(s, e), NEW target
  PROVE  /\ LeavesOpen(details(s), e)
         /\ LeavesOpen(UNION {Ok(r.s, 0) : r \in refresh_question(s)}, e)
         /\ LeavesOpen(UNION {Ok(r.s, 0) : r \in refresh_strings(s)}, e)
         /\ LeavesOpen(UNION {Ok(r.s, 0) : r \in refresh_varstores(s, target)}, e)
<1>1. PICK f : Bears(s, f) /\ HasList(f) /\ f.expanded = e
  BY DEF Opened
<1>2. SameList(s, f)
  BY <1>1 DEF SameList, ListKept
<1>3. \A R : KeepsList(R, f) => LeavesOpen(R, e)
  BY <1>1 DEF KeepsList, SameList, ListKept, LeavesOpen, Opened
<1> QED  BY <1>2, <1>3, DetailsKeep, QuestionKeep

(* The edits of forms: hii visibility and unlock, and what adds nodes. *)
LEMMA FlipOpening ==
  ASSUME NEW s, NEW e, Opened(s, e)
  PROVE  LeavesOpen(cmd_hii_flip(s), e) /\ LeavesOpen(refresh_all(s), e) /\ LeavesOpen(cmd_hii_add(s), e)
<1> DEFINE Second(r) == UNION {IF q.err = "no" THEN details(q.s) ELSE {q} : q \in reload_forms(r.s)}
<1>1. /\ cmd_hii_flip(s) = UNION {IF r.err = "no" THEN Second(r) ELSE {r} : r \in edit(s, s.client.active, TRUE)}
      /\ \A t : refresh_all(t) = UNION {IF r.err = "no" THEN Second(r) ELSE {r} : r \in refresh_tree(t)}
      /\ cmd_hii_add(s) = UNION {IF r.err = "no" THEN refresh_all(r.s) ELSE {r} : r \in edit(s, s.client.active, TRUE)}
  BY DEF cmd_hii_flip, cmd_hii_add, refresh_all, Then
<1>2. \A r : Opened(r.s, e) => LeavesOpen(Second(r), e)
  <2>1. \A r : Opened(r.s, e) => LeavesOpen(reload_forms(r.s), e)
    BY ReloadOpening
  <2> QED  BY <2>1, ListOpening DEF LeavesOpen
<1> HIDE DEF Second
<1>3. LeavesOpen(edit(s, s.client.active, TRUE), e)
  BY CarryOpening
<1>4. ASSUME NEW t, Opened(t, e) PROVE LeavesOpen(refresh_all(t), e)
  <2>1. LeavesOpen(refresh_tree(t), e)
    BY <1>4, CarryOpening
  <2> QED  BY <1>1, <1>2, <2>1 DEF LeavesOpen
<1>5. LeavesOpen(cmd_hii_flip(s), e)
  BY <1>1, <1>2, <1>3 DEF LeavesOpen
<1>6. LeavesOpen(cmd_hii_add(s), e)
  BY <1>1, <1>3, <1>4 DEF LeavesOpen
<1> QED  BY <1>4, <1>5, <1>6

(* hii set-value *)
LEMMA SetValueOpening ==
  ASSUME NEW s, NEW e, Opened(s, e)
  PROVE  LeavesOpen(cmd_hii_set_value(s), e)
<1> DEFINE At(t, qid) == Position(Asked(t.app.forms.qfrom, t.app.forms.qkey), LAMBDA x : x = qid)
           Moved(t, qid) == SetForms(t, [t.app.forms EXCEPT !.qcursor = At(t, qid)])
           Finally(t) == UNION {Ok(n.s, 0) : n \in refresh_question(t)}
           Back(t, qid) == IF qid = 0 \/ At(t, qid) = -1 THEN Ok(t, 0) ELSE Finally(Moved(t, qid))
           Asking(t, qid) == UNION {IF p.err = "no" THEN Back(p.s, qid) ELSE {p} : p \in details(t)}
           Rest(t, qid) == UNION {IF q.err = "no" THEN Asking(q.s, qid) ELSE {q} : q \in reload_forms(t)}
<1>1. cmd_hii_set_value(s) = UNION {IF o.err = "no" THEN Rest(o.s, selected_question_id(o.s.app.forms)) ELSE {o}
                                     : o \in edit(s, s.client.active, TRUE)}
  BY Zenon DEF cmd_hii_set_value, Then, After
<1>2. ASSUME NEW t, NEW qid, Opened(t, e) PROVE Opened(Moved(t, qid), e)
  <2>1. PICK h : h = t.app.forms
    OBVIOUS
  <2>2. HasList(h) /\ h.expanded = e
    BY <1>2, <2>1 DEF Opened, Bears
  <2>3. PICK at : at = At(t, qid)
    OBVIOUS
  <2>4. PICK g : g = [h EXCEPT !.qcursor = at]
    OBVIOUS
  <2>5. HasList(g) /\ g.expanded = e
    BY <2>2, <2>4 DEF HasList
  <2>6. Moved(t, qid) = SetForms(t, g)
    BY <2>1, <2>3, <2>4
  <2> HIDE DEF Moved
  <2> QED  BY <1>2, <2>5, <2>6, OpenedSet
<1> HIDE DEF Moved, At
<1>3. \A t, qid : Opened(t, e) => LeavesOpen(Back(t, qid), e)
  <2>1. \A t : Opened(t, e) => LeavesOpen(Ok(t, 0), e) /\ LeavesOpen(Finally(t), e)
    BY CarryOpening, ListOpening
  <2> HIDE DEF Finally
  <2> QED  BY <1>2, <2>1
<1> HIDE DEF Back
<1>4. \A t, qid : Opened(t, e) => LeavesOpen(Asking(t, qid), e)
  <2>1. \A t : Opened(t, e) => LeavesOpen(details(t), e)
    BY ListOpening
  <2> QED  BY <1>3, <2>1 DEF LeavesOpen
<1> HIDE DEF Asking
<1>5. \A t, qid : Opened(t, e) => LeavesOpen(Rest(t, qid), e)
  BY <1>4, ReloadOpening DEF LeavesOpen
<1> HIDE DEF Rest
<1>6. LeavesOpen(edit(s, s.client.active, TRUE), e)
  BY CarryOpening
<1> QED  BY <1>1, <1>5, <1>6 DEF LeavesOpen

(* hii import *)
LEMMA ImportOpening ==
  ASSUME NEW s, NEW e, Opened(s, e), NEW refs, NEW body
  PROVE  LeavesOpen(hii_import(s, refs, body), e)
<1> DEFINE Once(t, a) == UNION {IF q.err = "no" THEN Err(q.s) \cup Ok(q.s, 0) ELSE {q} : q \in fetch(t, a)}
           Twice(t) == UNION {IF p.err = "no" THEN Err(p.s) \cup Once(p.s, t.client.active) ELSE {p} : p \in fetch(t, t.client.active)}
           Checked(t) == IF refs THEN Twice(t) ELSE Ok(t, 0)
           Form(t) == UNION {IF p.err = "no" THEN Err(p.s) \cup edit(p.s, t.client.active, TRUE) ELSE {p} : p \in fetch(t, t.client.active)}
           Added(t) == IF body THEN Form(t) ELSE Ok(t, 0)
           Noticed(t) == UNION {Ok(p.s, 0) : p \in edit(t, t.client.active, TRUE)}
           Referred(t) == IF refs THEN Ok(t, 0) \cup Noticed(t) ELSE Ok(t, 0)
           Third(t) == UNION {IF p.err = "no" THEN refresh_all(p.s) ELSE {p} : p \in Referred(t)}
           Second(t) == UNION {IF p.err = "no" THEN Third(p.s) ELSE {p} : p \in Added(t)}
<1>1. hii_import(s, refs, body) = UNION {IF p.err = "no" THEN Second(p.s) ELSE {p} : p \in Checked(s)}
  BY DEF hii_import, Then, After
<1>2. \A t, x : Opened(t, e) => LeavesOpen(Ok(t, 0), e) /\ LeavesOpen(Err(t), e) /\ LeavesOpen(fetch(t, x), e)
                                /\ LeavesOpen(edit(t, x, TRUE), e)
  BY CarryOpening
<1>3. ASSUME NEW t, NEW x, Opened(t, e) PROVE LeavesOpen(Once(t, x), e)
  <2>1. LeavesOpen(fetch(t, x), e)
    BY <1>2, <1>3
  <2>2. \A q : Opened(q.s, e) => LeavesOpen(Err(q.s) \cup Ok(q.s, 0), e)
    BY <1>2 DEF LeavesOpen
  <2> QED  BY <2>1, <2>2 DEF LeavesOpen
<1> HIDE DEF Once
<1>4. ASSUME NEW t, Opened(t, e) PROVE LeavesOpen(Twice(t), e)
  <2>1. PICK x : x = t.client.active
    OBVIOUS
  <2>2. LeavesOpen(fetch(t, x), e)
    BY <1>2, <1>4
  <2>3. \A q : Opened(q.s, e) => LeavesOpen(Err(q.s) \cup Once(q.s, x), e)
    BY <1>2, <1>3 DEF LeavesOpen
  <2> QED  BY <2>1, <2>2, <2>3 DEF LeavesOpen
<1>5. ASSUME NEW t, Opened(t, e) PROVE LeavesOpen(Form(t), e)
  <2>1. PICK x : x = t.client.active
    OBVIOUS
  <2>2. LeavesOpen(fetch(t, x), e)
    BY <1>2, <1>5
  <2>3. \A q : Opened(q.s, e) => LeavesOpen(Err(q.s) \cup edit(q.s, x, TRUE), e)
    BY <1>2 DEF LeavesOpen
  <2> QED  BY <2>1, <2>2, <2>3 DEF LeavesOpen
<1>6. ASSUME NEW t, Opened(t, e) PROVE LeavesOpen(Noticed(t), e)
  <2>1. PICK x : x = t.client.active
    OBVIOUS
  <2>2. LeavesOpen(edit(t, x, TRUE), e)
    BY <1>2, <1>6
  <2> QED  BY <1>2, <2>1, <2>2 DEF LeavesOpen
<1> HIDE DEF Twice, Form, Noticed
<1>7. LeavesOpen(Checked(s), e)
  BY <1>2, <1>4
<1>8. \A t : Opened(t, e) => LeavesOpen(Added(t), e)
  BY <1>2, <1>5
<1>9. \A t : Opened(t, e) => LeavesOpen(Referred(t), e)
  BY <1>2, <1>6 DEF LeavesOpen
<1> HIDE DEF Checked, Added, Referred
<1>10. \A t : Opened(t, e) => LeavesOpen(Third(t), e)
  BY <1>9, FlipOpening DEF LeavesOpen
<1> HIDE DEF Third
<1>11. \A t : Opened(t, e) => LeavesOpen(Second(t), e)
  BY <1>8, <1>10 DEF LeavesOpen
<1> HIDE DEF Second
<1> QED  BY <1>1, <1>7, <1>11 DEF LeavesOpen

(* What is open stays, or the list is open completely. *)
Steady ==
  \/ app'.forms.expanded = app.forms.expanded
  \/ app'.forms.expanded = all_row_keys(app'.forms.forms, app'.forms.edges)

(* So it is for every command whose outcomes are like that. *)
LEMMA BecameSteady ==
  ASSUME NEW R, Become(R), Carry(R, app.forms) \/ CarryOrOpen(R, app.forms) \/ LeavesOpen(R, app.forms.expanded)
  PROVE  Steady
<1>1. PICK r \in R : app' = r.s.app
  BY DEF Become
<1>2. CASE Bears(r.s, app.forms)
  BY <1>1, <1>2 DEF Bears, Steady
<1>3. CASE AllOpen(r.s)
  BY <1>1, <1>3 DEF AllOpen, Bears, Steady
<1>4. CASE Opened(r.s, app.forms.expanded)
  BY <1>1, <1>4 DEF Opened, Bears, Steady
<1> QED  BY <1>1, <1>2, <1>3, <1>4 DEF Carry, CarryOrOpen, LeavesOpen

(* The forms of the state. *)
LEMMA StateBears ==
  ASSUME Good(S)
  PROVE  /\ Bears(S, app.forms) /\ HasList(app.forms) /\ Opened(S, app.forms.expanded)
         /\ FormsOK(app.forms) /\ DOMAIN app = AppFields
<1>1. PICK s : s = S
  OBVIOUS
<1>2. DOMAIN s = StateFields /\ s.app = app /\ AppOK(app)
  BY <1>1 DEF Good, Base, IsState, S
<1>3. DOMAIN app = AppFields /\ FormsOK(app.forms)
  BY <1>2 DEF AppOK
<1>4. Bears(s, app.forms)
  BY <1>2, <1>3 DEF Bears, StateFields, AppFields
<1>5. HasList(app.forms)
  BY <1>3 DEF HasList, FormsOK
<1> QED  BY <1>1, <1>3, <1>4, <1>5 DEF Opened

(* Commands of sessions and images. *)
LEMMA SessionSteady ==
  ASSUME Good(S), SessionCommands
  PROVE  Steady
<1>1. PICK s, f : s = S /\ f = app.forms
  OBVIOUS
<1>2. Bears(s, f)
  BY <1>1, StateBears
<1>3. ASSUME NEW R, Become(R), Carry(R, f) \/ CarryOrOpen(R, f) PROVE Steady
  BY <1>1, <1>3, BecameSteady
<1>4. CASE Open
  <2>1. PICK w : Become(cmd_open(s, w))
    BY <1>1, <1>4 DEF Open
  <2> QED  BY <1>2, <1>3, <2>1, OpenCarries
<1>5. CASE Upload
  <2>1. PICK w : Become(cmd_upload(s, w))
    BY <1>1, <1>5 DEF Upload
  <2> QED  BY <1>2, <1>3, <2>1, UploadCarries
<1>6. CASE Import
  <2>1. Become(cmd_import(s))
    BY <1>1, <1>6 DEF Import
  <2> QED  BY <1>2, <1>3, <2>1, CopyCarries
<1>7. CASE Artifacts
  <2>1. Become(ensure_session(s))
    BY <1>1, <1>7 DEF Artifacts
  <2> QED  BY <1>2, <1>3, <2>1, CarrySession
<1>8. CASE Switch
  <2>1. PICK i : Become(cmd_switch(s, i))
    BY <1>1, <1>8 DEF Switch
  <2> QED  BY <1>2, <1>3, <2>1, SwitchOpens
<1>9. CASE Close
  <2>1. PICK i : Become(cmd_close(s, i))
    BY <1>1, <1>9 DEF Close
  <2> QED  BY <1>2, <1>3, <2>1, CloseCarries
<1>10. CASE Reopen
  <2>1. PICK want : Become(reopen(s, want))
    BY <1>1, <1>10 DEF Reopen
  <2> QED  BY <1>2, <1>3, <2>1, ReopenOpens
<1>11. CASE Refresh
  <2>1. Become(refresh_registry(s))
    BY <1>1, <1>11 DEF Refresh
  <2> QED  BY <1>2, <1>3, <2>1, CarryRegistry
<1>12. CASE Start
  <2>1. PICK t : t = [s EXCEPT !.app = NoApp, !.client = disk, !.note = [@ EXCEPT !.forms = FALSE, !.pane = FALSE, !.upload = FALSE]]
    OBVIOUS
  <2>2. Become(restore_session(t))
    BY <1>1, <1>12, <2>1, Zenon DEF Start
  <2>3. "app" \in DOMAIN s
    BY <1>2 DEF Bears
  <2>4. "app" \in DOMAIN t /\ t.app = NoApp
    BY <2>1, <2>3
  <2>5. "forms" \in DOMAIN NoApp /\ NoApp.forms = NoForms
    BY DEF NoApp
  <2>6. Bears(t, NoForms)
    BY <2>4, <2>5 DEF Bears
  <2>7. PICK r \in restore_session(t) : app' = r.s.app
    BY <2>2 DEF Become
  <2>8. app'.forms = NoForms
    BY <2>6, <2>7, StartCarries DEF Carry, Bears
  <2>9. NoForms.expanded = {} /\ NoForms.forms = <<>> /\ NoForms.edges = <<>>
    BY DEF NoForms
  <2>10. all_row_keys(<<>>, <<>>) = {}
    BY DEF all_row_keys
  <2> QED  BY <2>8, <2>9, <2>10 DEF Steady
<1> QED  BY <1>4, <1>5, <1>6, <1>7, <1>8, <1>9, <1>10, <1>11, <1>12 DEF SessionCommands

(* Commands on nodes and forms. *)
LEMMA EditSteady ==
  ASSUME Good(S), NodeCommands \/ FormsCommands \/ AddCommands
  PROVE  Steady
<1>1. PICK s, f, e : s = S /\ f = app.forms /\ e = app.forms.expanded
  OBVIOUS
<1>2. Bears(s, f) /\ Opened(s, e)
  BY <1>1, StateBears
<1>3. ASSUME NEW R, Become(R), Carry(R, f) \/ CarryOrOpen(R, f) \/ LeavesOpen(R, e) PROVE Steady
  BY <1>1, <1>3, BecameSteady
<1>4. CASE Snapshot \/ Extract
  <2>1. Become(cmd_snapshot(s)) \/ Become(cmd_extract(s))
    BY <1>1, <1>4 DEF Snapshot, Extract
  <2> QED  BY <1>2, <1>3, <2>1, CopyCarries
<1>5. CASE Restore \/ InsertNode \/ RemoveNode
  <2>1. Become(cmd_restore(s)) \/ Become(cmd_insert(s)) \/ Become(cmd_remove(s))
    BY <1>1, <1>5 DEF Restore, InsertNode, RemoveNode
  <2> QED  BY <1>2, <1>3, <2>1, EditCarries
<1>6. CASE Save
  <2>1. PICK i : Become(fetch(s, i))
    BY <1>1, <1>6 DEF Save, cmd_save
  <2> QED  BY <1>2, <1>3, <2>1, CarryImage
<1>7. CASE NvarList \/ NvarSet \/ TseUnhide
  <2>1. (\E p : Become(cmd_nvar_list(s, p))) \/ Become(cmd_nvar_set(s)) \/ Become(cmd_tse_unhide(s))
    BY <1>1, <1>7 DEF NvarList, NvarSet, TseUnhide
  <2> QED  BY <1>2, <1>3, <2>1, NvarCarries
<1>8. CASE FormsCommand
  <2>1. Become(cmd_forms(s))
    BY <1>1, <1>8 DEF FormsCommand
  <2> QED  BY <1>2, <1>3, <2>1, FormsOpens
<1>9. CASE HiiFlip \/ FormKeyCommand \/ HiiAdd
  <2>1. Become(cmd_hii_flip(s)) \/ Become(cmd_hii_add(s))
    BY <1>1, <1>9 DEF HiiFlip, FormKeyCommand, HiiAdd
  <2> QED  BY <1>2, <1>3, <2>1, FlipOpening
<1>10. CASE HiiSetValue
  <2>1. Become(cmd_hii_set_value(s))
    BY <1>1, <1>10 DEF HiiSetValue
  <2> QED  BY <1>2, <1>3, <2>1, SetValueOpening
<1>11. CASE HiiImport
  <2>1. PICK refs, body : Become(hii_import(s, refs, body))
    BY <1>1, <1>11 DEF HiiImport
  <2> QED  BY <1>2, <1>3, <2>1, ImportOpening
<1> QED  BY <1>4, <1>5, <1>6, <1>7, <1>8, <1>9, <1>10, <1>11 DEF NodeCommands, FormsCommands, AddCommands

(* Keys of the image view, and Tab. *)
LEMMA ImageKeySteady ==
  ASSUME Good(S), RegistryKeys \/ TreeKeys \/ switch_view
  PROVE  Steady
<1>1. PICK s, f : s = S /\ f = app.forms
  OBVIOUS
<1>2. Bears(s, f) /\ s.app = app /\ DOMAIN app = AppFields
  BY <1>1, StateBears DEF S
<1>3. ASSUME NEW R, Become(R), Carry(R, f) \/ CarryOrOpen(R, f) PROVE Steady
  BY <1>1, <1>3, BecameSteady
<1>4. CASE MoveInRegistry
  <2>1. PICK r : app' = [app EXCEPT !.reg = r]
    BY <1>4 DEF MoveInRegistry, OnlyApp
  <2> QED  BY <1>2, <2>1 DEF AppFields, Steady
<1>5. CASE Goto \/ ExpandNode
  <2>1. PICK t : app' = [app EXCEPT !.tree = t]
    BY <1>5 DEF Goto, ExpandNode, OnlyApp
  <2> QED  BY <1>2, <2>1 DEF AppFields, Steady
<1>6. CASE FocusMove
  <2>1. PICK to : \/ Become(UNION {Ok(r.s, 0) : r \in refresh_nvars_if_needed(SetApp(s, [s.app EXCEPT !.focus = to]))})
                  \/ OnlyApp(SetApp(s, [s.app EXCEPT !.focus = to]).app)
    BY <1>1, <1>2, <1>6 DEF FocusMove, After
  <2>2. PICK t : t = SetApp(s, [s.app EXCEPT !.focus = to])
    OBVIOUS
  <2>3. Bears(t, f)
    BY <1>2, <2>2, BearsSet
  <2>4. CASE OnlyApp(t.app)
    BY <1>1, <2>3, <2>4 DEF OnlyApp, Bears, Steady
  <2>5. CASE Become(UNION {Ok(r.s, 0) : r \in refresh_nvars_if_needed(t)})
    BY <1>3, <2>3, <2>5, CarryIgnored
  <2> QED  BY <2>1, <2>2, <2>4, <2>5
<1>7. CASE RegistryEnter
  <2>1. PICK i : Become(UNION {Ok(SetApp(r.s, [r.s.app EXCEPT !.focus = "Tree"]), 0) : r \in cmd_switch(s, i)})
    BY <1>1, <1>7 DEF RegistryEnter, After
  <2>2. CarryOrOpen(cmd_switch(s, i), f)
    BY <1>2, SwitchOpens
  <2>3. \A t : Bears(t, f) \/ AllOpen(t) =>
          Bears(SetApp(t, [t.app EXCEPT !.focus = "Tree"]), f) \/ AllOpen(SetApp(t, [t.app EXCEPT !.focus = "Tree"]))
    BY StillOpen
  <2>4. \A t : \A r \in Ok(t, 0) : r.s = t
    BY DEF Ok
  <2>5. CarryOrOpen(UNION {Ok(SetApp(r.s, [r.s.app EXCEPT !.focus = "Tree"]), 0) : r \in cmd_switch(s, i)}, f)
    BY <2>2, <2>3, <2>4 DEF CarryOrOpen
  <2> QED  BY <1>3, <2>1, <2>5
<1>8. CASE MoveInTree
  <2>1. PICK c : Become(UNION {Ok(r.s, 0) : r \in refresh_nvars_if_needed(SetTree(s, [app.tree EXCEPT !.cursor = c]))})
    BY <1>1, <1>8 DEF MoveInTree, After
  <2>2. PICK t : t = SetTree(s, [app.tree EXCEPT !.cursor = c])
    OBVIOUS
  <2>3. Bears(t, f)
    BY <1>2, <2>2, BearsSet
  <2> QED  BY <1>3, <2>1, <2>2, <2>3, CarryIgnored
<1>9. CASE switch_view
  <2>1. \/ Become(UNION {Ok(r.s, 0) : r \in refresh_nvars_if_needed(SetView(s, "Image"))})
        \/ Become(refresh_forms(SetView(s, "Forms")))
    BY <1>1, <1>9 DEF switch_view, After
  <2>2. PICK t, u : t = SetView(s, "Image") /\ u = SetView(s, "Forms")
    OBVIOUS
  <2>3. Bears(t, f) /\ Bears(u, f)
    BY <1>2, <2>2, BearsSet
  <2> QED  BY <1>3, <2>1, <2>2, <2>3, CarryIgnored, RefreshOpens
<1> QED  BY <1>4, <1>5, <1>6, <1>7, <1>8, <1>9 DEF RegistryKeys, TreeKeys

(* Keys of the forms view that open or close nothing, and its browsers. *)
LEMMA FormsKeySteady ==
  ASSUME Good(S), MoveInForms \/ ToggleFlat \/ MoveInQuestions \/ FormsFocus \/ ImageView \/ BrowserKeys
  PROVE  Steady
<1>1. PICK s, f, e : s = S /\ f = app.forms /\ e = app.forms.expanded
  OBVIOUS
<1>2. Bears(s, f) /\ Opened(s, e) /\ HasList(f) /\ f.expanded = e /\ DOMAIN app = AppFields
  BY <1>1, StateBears
<1>3. ASSUME NEW R, Become(R), LeavesOpen(R, e) PROVE Steady
  BY <1>1, <1>3, BecameSteady
<1>4. ASSUME NEW g, HasList(g), g.expanded = e PROVE Opened(SetForms(s, g), e)
  BY <1>2, <1>4, OpenedSet
<1>5. ASSUME NEW g, g.expanded = e, OnlyForms(g) PROVE Steady
  <2>1. app' = [app EXCEPT !.forms = g]
    BY <1>5 DEF OnlyForms, OnlyApp
  <2>2. app'.forms = g
    BY <1>2, <2>1 DEF AppFields
  <2> QED  BY <1>1, <1>5, <2>2 DEF Steady
<1>6. ASSUME NEW g, HasList(g), g.expanded = e, ListKey(g) PROVE Steady
  <2>1. PICK t : t = SetForms(s, g)
    OBVIOUS
  <2>2. Opened(t, e)
    BY <1>4, <1>6, <2>1
  <2>3. Become(details(t))
    BY <1>1, <1>6, <2>1 DEF ListKey
  <2> QED  BY <1>3, <2>2, <2>3, ListOpening
<1>7. CASE MoveInForms
  <2>1. PICK c : ListKey([f EXCEPT !.cursor = c])
    BY <1>1, <1>7 DEF MoveInForms
  <2>2. PICK g : g = [f EXCEPT !.cursor = c]
    OBVIOUS
  <2>3. HasList(g) /\ g.expanded = e
    BY <1>2, <2>2 DEF HasList
  <2> QED  BY <1>6, <2>1, <2>2, <2>3
<1>8. CASE ToggleFlat
  <2>1. PICK h : h = [f EXCEPT !.flat = ~@]
    OBVIOUS
  <2>2. ListKey(forms_sanitize_cursor(h))
    BY <1>1, <1>8, <2>1, Zenon DEF ToggleFlat
  <2>3. HasList(h) /\ h.expanded = e
    <3>1. PICK b : h = [f EXCEPT !.flat = b]
      BY <2>1, Zenon
    <3> QED  BY <1>2, <3>1 DEF HasList
  <2>4. PICK c : forms_sanitize_cursor(h) = [h EXCEPT !.cursor = c]
    BY DEF forms_sanitize_cursor
  <2>5. PICK g : g = [h EXCEPT !.cursor = c]
    OBVIOUS
  <2>6. HasList(g) /\ g.expanded = e
    BY <2>3, <2>5 DEF HasList
  <2> QED  BY <1>6, <2>2, <2>4, <2>5, <2>6
<1>9. CASE MoveInQuestions
  <2>1. PICK c : Become(UNION {Ok(r.s, 0) : r \in refresh_question(SetForms(s, [f EXCEPT !.qcursor = c]))})
    BY <1>1, <1>9 DEF MoveInQuestions, After
  <2>2. PICK g : g = [f EXCEPT !.qcursor = c]
    OBVIOUS
  <2>3. HasList(g) /\ g.expanded = e
    BY <1>2, <2>2 DEF HasList
  <2>4. PICK t : t = SetForms(s, g)
    OBVIOUS
  <2>5. Opened(t, e)
    BY <1>4, <2>3, <2>4
  <2> QED  BY <1>3, <2>1, <2>2, <2>4, <2>5, ListOpening
<1>10. CASE FormsFocus
  <2>1. PICK x : OnlyForms([f EXCEPT !.focus = x])
    BY <1>1, <1>10 DEF FormsFocus
  <2>2. [f EXCEPT !.focus = x].expanded = e
    BY <1>2 DEF HasList
  <2> QED  BY <1>5, <2>1, <2>2
<1>11. CASE ImageView
  <2>1. app' = [app EXCEPT !.view = "Image"]
    BY <1>11 DEF ImageView
  <2> QED  BY <1>2, <2>1 DEF AppFields, Steady
<1>12. CASE MoveInStrings \/ MoveInVarstores
  <2>1. PICK x : OnlyForms([f EXCEPT !.scursor = x]) \/ OnlyForms([f EXCEPT !.vcursor = x])
    BY <1>1, <1>12 DEF MoveInStrings, MoveInVarstores
  <2>2. [f EXCEPT !.scursor = x].expanded = e /\ [f EXCEPT !.vcursor = x].expanded = e
    BY <1>2 DEF HasList
  <2> QED  BY <1>5, <2>1, <2>2
<1>13. CASE Filter
  <2>1. PICK on : OnlyForms([f EXCEPT !.filter = on, !.scursor = 0])
    BY <1>1, <1>13 DEF Filter
  <2>2. [f EXCEPT !.filter = on, !.scursor = 0].expanded = e
    BY <1>2 DEF HasList
  <2> QED  BY <1>5, <2>1, <2>2
<1>14. CASE ToggleStrings
  <2>1. PICK b : b = ~f.showS
    OBVIOUS
  <2>2. PICK g : g = [f EXCEPT !.showS = b]
    OBVIOUS
  <2>3. PICK t : t = SetForms(s, g)
    OBVIOUS
  <2>4. SetForms(S, [app.forms EXCEPT !.showS = ~@]) = t
    BY <1>1, <2>1, <2>2, <2>3, Zenon
  <2>5. Become(UNION {Ok(q.s, 0) : q \in refresh_strings(t)}) \/ Become(Ok(t, 0))
    <3>1. Become(IF t.app.forms.showS /\ StringCount(app.forms) = 0
                 THEN After(refresh_strings(t), LAMBDA r : Ok(r.s, 0)) ELSE Ok(t, 0))
      BY <1>14, <2>4, Zenon DEF ToggleStrings
    <3> QED  BY <3>1 DEF After
  <2>6. HasList(g) /\ g.expanded = e
    BY <1>2, <2>2 DEF HasList
  <2>7. Opened(t, e)
    BY <1>4, <2>3, <2>6
  <2>8. LeavesOpen(UNION {Ok(q.s, 0) : q \in refresh_strings(t)}, e) /\ LeavesOpen(Ok(t, 0), e)
    BY <2>7, ListOpening, CarryOpening
  <2> QED  BY <1>3, <2>5, <2>8
<1>15. CASE ToggleVarstores
  <2>1. PICK b : b = ~f.showV
    OBVIOUS
  <2>2. PICK g : g = [f EXCEPT !.showV = b]
    OBVIOUS
  <2>3. PICK t : t = SetForms(s, g)
    OBVIOUS
  <2>4. SetForms(S, [app.forms EXCEPT !.showV = ~@]) = t
    BY <1>1, <2>1, <2>2, <2>3, Zenon
  <2>5. PICK target : target = selected_form_target(app.forms)
    OBVIOUS
  <2>6. Become(UNION {Ok(q.s, 0) : q \in refresh_varstores(t, target)}) \/ Become(Ok(t, 0))
    <3>1. Become(IF t.app.forms.showV /\ target # NoSet /\ app.forms.vtarget # target
                 THEN After(refresh_varstores(t, target), LAMBDA r : Ok(r.s, 0)) ELSE Ok(t, 0))
      BY <1>15, <2>4, <2>5, Zenon DEF ToggleVarstores
    <3> QED  BY <3>1 DEF After
  <2>7. HasList(g) /\ g.expanded = e
    BY <1>2, <2>2 DEF HasList
  <2>8. Opened(t, e)
    BY <1>4, <2>3, <2>7
  <2>9. LeavesOpen(UNION {Ok(q.s, 0) : q \in refresh_varstores(t, target)}, e) /\ LeavesOpen(Ok(t, 0), e)
    BY <2>8, ListOpening, CarryOpening
  <2> QED  BY <1>3, <2>6, <2>9
<1> QED  BY <1>7, <1>8, <1>9, <1>10, <1>11, <1>12, <1>13, <1>14, <1>15 DEF BrowserKeys

(* Other clients. *)
LEMMA OthersSteady ==
  ASSUME Good(S), OtherEdits \/ OtherCloses \/ SessionEnds
  PROVE  Steady
<1>1. PICK s, f : s = S /\ f = app.forms
  OBVIOUS
<1>2. Bears(s, f)
  BY <1>1, StateBears
<1>3. ASSUME NEW t, Bears(t, f), Become(Ok(Stale(t), 0)) PROVE Steady
  <2>1. PICK u : u = Stale(t)
    OBVIOUS
  <2>2. Bears(u, f)
    BY <1>3, <2>1, BearsNoted
  <2>3. Carry(Ok(u, 0), f)
    BY <2>2, CarryAnswer
  <2> QED  BY <1>1, <1>3, <2>1, <2>3, BecameSteady
<1>4. CASE OtherEdits
  <2>1. PICK i, c : Become(Ok(Stale(SetContent(s, i, c)), 0))
    BY <1>1, <1>4 DEF OtherEdits
  <2> QED  BY <1>2, <1>3, <2>1, BearsImage
<1>5. CASE OtherCloses
  <2>1. PICK i : Become(Ok(Stale(Dropped(s, i)), 0))
    BY <1>1, <1>5 DEF OtherCloses
  <2> QED  BY <1>2, <1>3, <2>1, BearsImage
<1>6. CASE SessionEnds
  <2>1. PICK x : Become(Ok(Stale(SetEngine(s, x)), 0))
    BY <1>1, <1>6 DEF SessionEnds
  <2> QED  BY <1>2, <1>3, <2>1, BearsSet
<1> QED  BY <1>4, <1>5, <1>6

(* The first of some positions is one of them. *)
LEMMA FoundIn ==
  ASSUME NEW n \in Nat, NEW A, A \subseteq 1..n
  PROVE  /\ A = {} => FirstIn(A) = -1
         /\ A # {} => FirstIn(A) \in 0..(n - 1) /\ FirstIn(A) + 1 \in A
<1>1. CASE A = {}
  BY <1>1 DEF FirstIn
<1>2. CASE A # {}
  <2>1. PICK i : i = CHOOSE k \in A : \A j \in A : k <= j
    OBVIOUS
  <2>2. i \in A
    <3>1. A \subseteq Nat
      OBVIOUS
    <3> QED  BY <1>2, <2>1, <3>1, FirstOf
  <2>3. FirstIn(A) = i - 1
    BY <1>2, <2>1 DEF FirstIn
  <2> QED  BY <1>2, <2>2, <2>3
<1> QED  BY <1>1, <1>2

(* The cursor follows a row that is there. *)
LEMMA RowLands ==
  ASSUME NEW h, IsList(h.forms), IsList(h.edges), h.cursor \in Nat, NEW row, NEW key, key # <<>>,
         \E y \in Range(forms_rows(h)) : Lands(h.flat, row, key, y)
  PROVE  \E c \in Nat : /\ WithRows(h, row, key) = [h EXCEPT !.cursor = c] /\ c < Len(forms_rows(h))
                        /\ Lands(h.flat, row, key, forms_rows(h)[c + 1])
<1>1. PICK rows : rows = forms_rows(h)
  OBVIOUS
<1>2. PICK n \in Nat : n = Len(rows) /\ DOMAIN rows = 1..n
  BY <1>1, RowsCounted
<1>3. PICK A : A = {i \in DOMAIN rows : key # <<>> /\ rows[i].kind = row.kind /\ FormKey(rows[i]) = FormKey(row)}
  BY Zenon
<1>4. PICK B : B = {i \in DOMAIN rows : IsRow(rows[i], key) /\ (rows[i].kind = "set" \/ ~h.flat)}
  BY Zenon
<1>5. PICK same, up : same = FirstIn(A) /\ up = FirstIn(B)
  OBVIOUS
<1>6. A \subseteq 1..n /\ B \subseteq 1..n
  BY <1>2, <1>3, <1>4
<1>7. Position(rows, LAMBDA r : key # <<>> /\ r.kind = row.kind /\ FormKey(r) = FormKey(row)) = same
  BY <1>3, <1>5 DEF Position, FirstIn
<1>8. Position(rows, LAMBDA r : IsRow(r, key) /\ (r.kind = "set" \/ ~h.flat)) = up
  BY <1>4, <1>5 DEF Position, FirstIn
<1>9. PICK to : to = IF same # -1 THEN same ELSE IF up # -1 THEN up ELSE h.cursor
  OBVIOUS
<1>10. WithRows(h, row, key) = [h EXCEPT !.cursor = Clamp(to, n)]
  BY <1>1, <1>2, <1>7, <1>8, <1>9 DEF WithRows, RowFollowed
<1>11. \A i \in A \cup B : Lands(h.flat, row, key, rows[i])
  BY <1>3, <1>4 DEF Lands
<1>12. A \cup B # {}
  <2>1. PICK i \in DOMAIN rows : Lands(h.flat, row, key, rows[i])
    BY <1>1 DEF Range
  <2>2. i \in A \cup B
    BY <1>3, <1>4, <2>1 DEF Lands
  <2> QED  BY <2>2
<1>13. /\ A = {} => same = -1
       /\ A # {} => same \in 0..(n - 1) /\ same + 1 \in A
  BY <1>5, <1>6, FoundIn
<1>14. /\ B = {} => up = -1
       /\ B # {} => up \in 0..(n - 1) /\ up + 1 \in B
  BY <1>5, <1>6, FoundIn
<1>15. to \in 0..(n - 1) /\ to + 1 \in A \cup B
  BY <1>9, <1>12, <1>13, <1>14
<1>16. Clamp(to, n) = to
  BY <1>15 DEF Clamp
<1>17. to \in Nat /\ to < n /\ Lands(h.flat, row, key, rows[to + 1])
  BY <1>11, <1>15
<1> QED  BY <1>1, <1>2, <1>10, <1>16, <1>17

(* Opening or closing a row, as forms_set_expanded does it. *)
LEMMA FoldFollowed ==
  ASSUME NEW f, FormsOK(f), NEW e, NEW g, g = forms_set_expanded(f, e), g.expanded # f.expanded
  PROVE  \E flat : Lands(flat, RowAt(f), ExpandKey(f, RowAt(f)), RowAt(g))
<1>1. PICK row : row = RowAt(f)
  OBVIOUS
<1>2. PICK key : key = ExpandKey(f, row)
  OBVIOUS
<1>3. PICK x : x = IF key = <<>> THEN f.expanded ELSE IF e THEN f.expanded \cup {key} ELSE f.expanded \ {key}
  OBVIOUS
<1>4. PICK h : h = [f EXCEPT !.expanded = x]
  OBVIOUS
<1>5. g = WithRows(h, row, key)
  BY <1>1, <1>2, <1>3, <1>4, Zenon DEF forms_set_expanded, SetRowExpanded, SetExpanded
<1>6. /\ h.forms = f.forms /\ h.edges = f.edges /\ h.flat = f.flat /\ h.cursor = f.cursor /\ h.expanded = x
      /\ HasList(h)
  BY <1>4 DEF FormsOK, HasList
<1>7. IsList(f.forms) /\ IsList(f.edges) /\ f.cursor \in Nat
  BY DEF FormsOK, ListFine
<1>8. key # <<>>
  <2>1. PICK c : g = [h EXCEPT !.cursor = c]
    BY <1>5 DEF WithRows, RowFollowed
  <2>2. g.expanded = x
    BY <1>6, <2>1 DEF HasList
  <2> QED  BY <1>3, <2>2
<1>9. h.expanded = f.expanded \cup {key} \/ h.expanded = f.expanded \ {key}
  BY <1>3, <1>6, <1>8
<1>10. row \in Range(forms_rows(f))
  <2>1. PICK rows : rows = forms_rows(f)
    OBVIOUS
  <2>2. PICK n \in Nat : n = Len(rows) /\ DOMAIN rows = 1..n
    BY <1>7, <2>1, RowsCounted
  <2>3. row = IF f.cursor < n THEN rows[f.cursor + 1] ELSE [kind |-> "no row"]
    BY <1>1, <2>1, <2>2 DEF RowAt, RowIn
  <2>4. CASE f.cursor < n
    <3>1. f.cursor + 1 \in DOMAIN rows
      BY <1>7, <2>2, <2>4
    <3> QED  BY <2>1, <2>3, <2>4, <3>1 DEF Range
  <2>5. CASE ~(f.cursor < n)
    <3>1. row.kind = "no row"
      BY <2>3, <2>5
    <3>2. key = <<>>
      BY <1>2, <3>1 DEF ExpandKey
    <3> QED  BY <1>8, <3>2
  <2> QED  BY <2>4, <2>5
<1>11. \E y \in Range(forms_rows(h)) : Lands(h.flat, row, key, y)
  BY <1>2, <1>6, <1>7, <1>8, <1>9, <1>10, FoldFound
<1>12. PICK c \in Nat : g = [h EXCEPT !.cursor = c] /\ c < Len(forms_rows(h)) /\ Lands(h.flat, row, key, forms_rows(h)[c + 1])
  BY <1>5, <1>6, <1>7, <1>8, <1>11, RowLands
<1>13. g.forms = h.forms /\ g.edges = h.edges /\ g.flat = h.flat /\ g.expanded = h.expanded /\ g.cursor = c
  BY <1>6, <1>12 DEF HasList
<1>14. RowAt(g) = forms_rows(h)[c + 1]
  <2>1. forms_rows(g) = forms_rows(h)
    BY <1>13, FormsRowsSame
  <2> QED  BY <1>12, <1>13, <2>1 DEF RowAt, RowIn
<1> QED  BY <1>1, <1>2, <1>12, <1>14

(* The key that opens or closes a row. *)
LEMMA ExpandFollows ==
  ASSUME Good(S), ExpandForm, app'.forms.expanded # app.forms.expanded
  PROVE  \/ RowAt(app'.forms).kind = RowAt(app.forms).kind /\ FormKey(RowAt(app'.forms)) = FormKey(RowAt(app.forms))
         \/ IsRow(RowAt(app'.forms), ExpandKey(app.forms, RowAt(app.forms)))
<1>1. PICK s, f : s = S /\ f = app.forms
  OBVIOUS
<1>2. Bears(s, f) /\ FormsOK(f)
  BY <1>1, StateBears
<1>3. PICK e : ListKey(forms_set_expanded(f, e))
  BY <1>1 DEF ExpandForm
<1>4. PICK g : g = forms_set_expanded(f, e)
  OBVIOUS
<1>5. HasList(g)
  <2>1. DOMAIN g = DOMAIN f
    BY <1>2, <1>4, ExpandedAlike DEF FormsAlike
  <2> QED  BY <1>2, <2>1 DEF FormsOK, HasList
<1>6. PICK t : t = SetForms(s, g)
  OBVIOUS
<1>7. SameList(t, g)
  <2>1. Bears(t, g)
    BY <1>2, <1>6, BearsSet
  <2> QED  BY <1>5, <2>1 DEF SameList, ListKept
<1>8. PICK r \in details(t) : app' = r.s.app
  BY <1>1, <1>3, <1>4, <1>6 DEF ListKey, Become
<1>9. PICK k : k = app'.forms /\ ListKept(g, k)
  BY <1>7, <1>8, DetailsKeep DEF KeepsList, SameList, Bears
<1>10. k.expanded = g.expanded /\ RowAt(k) = RowAt(g)
  <2>1. forms_rows(k) = forms_rows(g)
    BY <1>9, FormsRowsSame DEF ListKept
  <2> QED  BY <1>9, <2>1 DEF RowAt, ListKept
<1>11. g.expanded # f.expanded
  BY <1>1, <1>9, <1>10
<1>12. PICK flat : Lands(flat, RowAt(f), ExpandKey(f, RowAt(f)), RowAt(g))
  BY <1>2, <1>4, <1>11, FoldFollowed
<1> QED  BY <1>1, <1>9, <1>10, <1>12 DEF Lands

(* Opening or closing a row of the forms list leaves the cursor on the     *)
(* form or form set it was on, or on the row that was opened or closed     *)
(* (forms_set_expanded), for any forms and references between them; all    *)
(* other commands and keys, faults and other clients leave open what is    *)
(* open or open the list completely.                                       *)
THEOREM ExpandKeepsSelectionTheorem == Spec => ExpandKeepsSelection
<1>1. ASSUME Good(S), [Next]_vars
      PROVE  \/ Steady
             \/ RowAt(app'.forms).kind = RowAt(app.forms).kind /\ FormKey(RowAt(app'.forms)) = FormKey(RowAt(app.forms))
             \/ IsRow(RowAt(app'.forms), ExpandKey(app.forms, RowAt(app.forms)))
  <2>1. CASE UNCHANGED vars
    BY <2>1 DEF vars, Steady
  <2>2. CASE ExpandForm
    BY <1>1, <2>2, ExpandFollows DEF Steady
  <2>3. CASE Next /\ ~ExpandForm
    BY <1>1, <2>3, SessionSteady, EditSteady, ImageKeySteady, FormsKeySteady, OthersSteady DEF Next, FormsKeys
  <2> QED  BY <1>1, <2>1, <2>2, <2>3
<1>2. Good(S) /\ [Next]_vars =>
        [LET f == app.forms
             g == app'.forms
         IN  g.expanded # f.expanded /\ g.from = f.from /\ g.forms = f.forms =>
               \/ g.expanded = all_row_keys(g.forms, g.edges)
               \/ RowAt(g).kind = RowAt(f).kind /\ FormKey(RowAt(g)) = FormKey(RowAt(f))
               \/ IsRow(RowAt(g), ExpandKey(f, RowAt(f)))]_vars
  BY <1>1 DEF Steady
<1> QED  BY <1>2, TuiInvariant, PTL DEF Spec, ExpandKeepsSelection
=============================================================================
