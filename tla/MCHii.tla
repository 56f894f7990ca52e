------------------------------- MODULE MCHii -------------------------------
(* Instances for TLC of HiiEdit (images and what is asked of each) and      *)
(* of PeResource (six files); a behaviour is about one of the two.          *)
EXTENDS HiiEdit, PeResource

VARIABLE part

MCStdName == <<1, 2>>
MCNumericRange == 0..7

O(k, a, b, c, d, t) == Op(k, FALSE, a, b, c, d, t)
S(k, a, b, c, d, t) == Op(k, TRUE, a, b, c, d, t)
OptionOp(v, t) == O("OPTION", v, 0, 0, 0, t)
Eq(x, y) == <<O("UINT64", x, 0, 0, 0, 0), O("UINT64", y, 0, 0, 0, 0), O("EQUAL", 0, 0, 0, 0, 0)>>
(* The first operand in a scope of its own. *)
EqScoped(x, y) == <<S("UINT64", x, 0, 0, 0, 0), END, O("UINT64", y, 0, 0, 0, 0), O("EQUAL", 0, 0, 0, 0, 0)>>
Gate(k, cond, body) == <<S(k, 0, 0, 0, 0, 0)>> \o cond \o body \o <<END>>
EqId(q, v) == <<O("EQIDVAL", q, v, 0, 0, 0)>>

Texts0 == <<Strs(<<"set", "one", "two", "mode", "off", "on", "count">>), Block("END", 0)>>
NoSpf == [records |-> <<>>, pages |-> <<>>, ctrls |-> <<>>, free |-> 0, sets |-> {}]
NoTse == [entries |-> <<>>, marker |-> FALSE, moved |-> 0]
Blank == [fx |-> "bare", kind |-> "bare", write |-> TRUE, grows |-> TRUE, slack |-> 0, pkg |-> <<>>, more |-> <<>>, bare |-> <<>>,
          donors |-> <<>>, vendor |-> TRUE, strs |-> Texts0, spf |-> NoSpf, tse |-> NoTse, ami |-> <<>>, stores |-> <<>>]

(* Two forms: a selection, a gated reference, a grayed out number, a second form. *)
Mode == <<S("ONEOF", 1, 1, 0, 0, 4), OptionOp(0, 5), OptionOp(1, 6), O("DEFAULT", 0, 2, 0, 0, 0), END>>
Count == <<S("NUMERIC", 2, 1, 2, 1, 7), END>>
FormOne == <<S("FORM", 1, 0, 0, 0, 2)>> \o Mode \o Gate("SUPPRESS", Eq(1, 1), <<O("REF", 0, 2, 0, 0, 3)>>) \o <<END>>
FormTwo == <<S("FORM", 2, 0, 0, 0, 3)>> \o Gate("GRAYOUT", EqId(1, 1), Count) \o <<END>>
Pkg1 == <<S("FORMSET", 11, 0, 0, 0, 1), O("VARSTORE", 1, 4, <<7>>, 0, 0)>> \o FormOne
        \o Gate("SUPPRESS", <<O("TRUE", 0, 0, 0, 0, 0)>>, FormTwo) \o <<END>>
At(pkg, qid) == CHOOSE i \in DOMAIN pkg : pkg[i].k \in QuestionKinds /\ pkg[i].a = qid
Rec(pkg, qid, n) == [qid |-> qid, ifr |-> At(pkg, qid), help |-> pkg[At(pkg, qid)].t, ctr |-> n]
Spf1 == [records |-> <<Rec(Pkg1, 1, 1), Rec(Pkg1, 2, 2)>>,
         pages |-> <<[form |-> 1, title |-> 2, parent |-> 0, ctrls |-> <<1>>], [form |-> 2, title |-> 3, parent |-> 1, ctrls |-> <<2>>]>>,
         ctrls |-> <<4, 7>>, free |-> 1, sets |-> {}]
Bare == [Blank EXCEPT !.pkg = Pkg1, !.spf = Spf1]

(* Two form sets in resources with little room, a package beside it and two other files that refer to the form. *)
SetTwo == <<S("FORMSET", 12, 0, 0, 0, 1), O("VARSTORE", 2, 4, <<8>>, 0, 0), S("FORM", 5, 0, 0, 0, 2)>>
          \o Gate("SUPPRESS", EqId(6, 1), <<S("CHECKBOX", 5, 2, 0, 0, 4), END>>)
          \o Gate("GRAYOUT", EqScoped(1, 1), <<S("NUMERIC", 6, 2, 2, 2, 7), END>>) \o <<END, END>>
Pkg2 == <<S("FORMSET", 11, 0, 0, 0, 1), O("VARSTORE", 1, 4, <<7>>, 0, 0), S("FORM", 1, 0, 0, 0, 2)>> \o Count \o <<END, END>> \o SetTwo
Beside == <<S("FORMSET", 13, 0, 0, 0, 1), S("FORM", 7, 0, 0, 0, 3)>> \o Gate("SUPPRESS", EqId(2, 1), <<O("REF", 0, 1, 0, 0, 3)>>)
          \o <<END, END>>
Donor == <<S("FORMSET", 14, 0, 0, 0, 1), S("FORM", 8, 0, 0, 0, 3)>> \o Gate("SUPPRESS", Eq(2, 2), <<O("REF", 0, 1, 12, 0, 3)>>)
         \o Gate("SUPPRESS", EqId(9, 1), <<O("REF", 0, 5, 12, 0, 3)>>) \o <<END, END>>
DonorB == <<S("FORMSET", 15, 0, 0, 0, 1), S("FORM", 9, 0, 0, 0, 3)>> \o Gate("SUPPRESS", Eq(2, 2), <<O("REF", 0, 5, 12, 0, 3)>>) \o <<END, END>>
Spf2 == [Spf1 EXCEPT !.records = <<Rec(Pkg2, 2, 1), Rec(Pkg2, 6, 2)>>,
                     !.pages = <<[form |-> 1, title |-> 2, parent |-> 0, ctrls |-> <<1>>], [form |-> 5, title |-> 2, parent |-> 0, ctrls |-> <<2>>]>>,
                     !.ctrls = <<7, 4>>]
Resource == [Blank EXCEPT !.fx = "resource", !.kind = "resource", !.grows = FALSE, !.slack = 14, !.pkg = Pkg2, !.more = <<Beside>>,
               !.donors = <<[baked |-> FALSE, pkg |-> Donor], [baked |-> TRUE, pkg |-> DonorB]>>, !.spf = Spf2,
               !.strs = <<Strs(<<"set", "one", "two">>), Block("SKIP", 1), Block("DUP", 2), Strs(<<"on", "count">>), Block("END", 0)>>]

(* The values of questions in three stores, one of them behind a section that cannot be packed again. *)
Inner(name, data) == <<SIG, Len(data) + Len(name) + 6, 0, ASCII_NAME + VALID, 0>> \o name \o <<0>> \o data
Outer(data) == <<SIG, Len(data) + Len(StdName) + 6, 0, ASCII_NAME + VALID, 0>> \o StdName \o <<0>> \o data
Std(data) == Outer(Inner(<<7>>, data) \o <<9>>) \o Inner(<<6>>, <<1, 2>>) \o <<0, 0, 5>>
Values == [Bare EXCEPT !.fx = "values",
             !.stores = <<[baked |-> FALSE, body |-> Std(<<1, 0, 3, 0>>)], [baked |-> TRUE, body |-> Std(<<1, 0, 3, 0>>)],
                          [baked |-> FALSE, body |-> Inner(<<6>>, <<1, 2, 3>>) \o <<0, 5>>],
                          [baked |-> FALSE, body |-> Std(<<0, 0, 2, 0>>)]>>]
(* One copy lacks the record, or has it with a footer. *)
Lacking == [Values EXCEPT !.fx = "values", !.stores[3].body = Outer(Inner(<<8>>, <<1>>)) \o <<5>>]
Footer == [Values EXCEPT !.fx = "values",
             !.stores[3].body = <<SIG, 10, 0, ASCII_NAME + VALID + EXTENDED_HEADER, 0, 6, 0, 1, 2, 2>> \o <<5>>]

(* Hidden pages: two series behind each other, and one entry that is in none. *)
E(s, f) == [set |-> s, form |-> f]
Hidden == [Resource EXCEPT !.fx = "hidden", !.slack = 40, !.spf.sets = {16},
             !.tse = [entries |-> <<E(11, 1), E(12, 5), Cleared, E(13, 7), E(11, 1), E(12, 5), Cleared, E(14, 8), Cleared>>,
                      marker |-> TRUE, moved |-> 0]]
ReadOnly == [Values EXCEPT !.fx = "values", !.write = FALSE]

(* Two forms in one SUPPRESS, and one in a GRAYOUT in a SUPPRESS with another form behind it. *)
FormNo(id) == <<S("FORM", id, 0, 0, 0, 2), END>>
True == <<O("TRUE", 0, 0, 0, 0, 0)>>
Shown == [Blank EXCEPT !.fx = "shown",
            !.pkg = <<S("FORMSET", 11, 0, 0, 0, 1)>> \o Gate("SUPPRESS", True, FormNo(2) \o FormNo(3)) \o
                    Gate("SUPPRESS", True, Gate("GRAYOUT", True, FormNo(4)) \o FormNo(5)) \o <<END>>]

(* A PE image with a package outside its resources, and one with no other. *)
Outside == <<S("FORMSET", 17, 0, 0, 0, 1), O("VARSTORE", 4, 4, <<7>>, 0, 0), S("FORM", 5, 0, 0, 0, 3)>>
           \o Gate("SUPPRESS", True, <<S("CHECKBOX", 5, 4, 0, 0, 4), END>>) \o Gate("SUPPRESS", Eq(1, 1), <<O("REF", 0, 5, 0, 0, 3)>>)
           \o <<END>> \o Gate("SUPPRESS", True, FormNo(6)) \o <<END>>
WithOutside == [Resource EXCEPT !.fx = "outside", !.bare = <<Outside>>, !.donors = SubSeq(@, 1, 1), !.grows = TRUE]
OnlyOutside == [Blank EXCEPT !.fx = "outside", !.kind = "resource", !.grows = FALSE, !.bare = <<Outside>>, !.vendor = FALSE,
                  !.donors = <<[baked |-> FALSE, pkg |-> Donor]>>, !.strs = <<Block("END", 0)>>]

MCImages == {Bare, Resource, Values, Lacking, Footer, Hidden, ReadOnly, [Bare EXCEPT !.fx = "readonly", !.write = FALSE],
             Shown, WithOutside, OnlyOutside, [Bare EXCEPT !.fx = "long"], [Resource EXCEPT !.fx = "long", !.grows = TRUE],
             [Bare EXCEPT !.fx = "novendor", !.vendor = FALSE], [Resource EXCEPT !.fx = "novendor", !.vendor = FALSE],
             [Bare EXCEPT !.strs = <<Strs(<<"set", "one", "two", "mode", "off", "on", "count">>), Block("SKIP", 2), Block("END", 0)>>]}

(* What is asked. *)
End == [kind |-> "End", id |-> 0]
BeforeGoto(f) == [kind |-> "BeforeGoto", id |-> f]
BeforeQuestion(q) == [kind |-> "BeforeQuestion", id |-> q]
Opt(v, t, m) == [v |-> v, text |-> t, mark |-> m]
OnOff == <<Opt(0, "off", "none"), Opt(1, "on", "optimized")>>
Q(f, q, s, o, pos) == [form |-> f, qid |-> q, store |-> s, off |-> o, size |-> 1, opts |-> OnOff, dflt |-> -1, text |-> "new", pos |-> pos]
R(f, q, s, pos) == [form |-> f, qid |-> q, set |-> s, text |-> "go", pos |-> pos]
Add(f, qs, rs, ss) == [form |-> f, questions |-> qs, refs |-> rs, stores |-> ss]
Store(id) == [id |-> id, size |-> 2, name |-> <<9>>]
It(k, q, s, o, n, t, f) == [kind |-> k, qid |-> q, store |-> s, off |-> o, size |-> n, opts |-> IF k = "ONEOF" THEN OnOff ELSE <<>>,
                            dflt |-> IF k = "NUMERIC" THEN [optimized |-> 3, failsafe |-> 2] ELSE NoDefaults, text |-> t, form |-> f]
Schema(g, ss, id, items) == [guid |-> g, title |-> "my set", classes |-> 1, dstores |-> <<>>, stores |-> ss, forms |-> <<[id |-> id, title |-> "my form", items |-> items]>>]
Nothing == [show |-> {}, unlock |-> {}, value |-> {}, nvar |-> {}, question |-> {}, page |-> {}, form |-> {}, hijack |-> {}, formset |-> {},
            unhide |-> {}, reimport |-> {}]
Show(f, v) == [form |-> f, visible |-> v]
Key(f, q) == [form |-> f, qid |-> q]

BareRequests == [Nothing EXCEPT
     !.show = {Show(2, TRUE), Show(0, TRUE), Show(1, FALSE)}, !.unlock = {Key(2, 0), Key(2, 2), Key(1, 1)},
     !.question = {Add(1, <<Q(1, 10, 1, 3, BeforeGoto(2))>>, <<>>, <<>>),
                   Add(2, <<Q(2, 11, 1, 1, BeforeQuestion(2))>>, <<>>, <<>>),
                   Add(1, <<Q(1, 12, 3, 0, End), Q(1, 13, 3, 1, BeforeQuestion(1))>>, <<R(2, 14, 0, End)>>, <<Store(3)>>),
                   Add(1, <<>>, <<R(1, 0, 0, BeforeQuestion(1))>>, <<>>)},
     !.page = {[parent |-> 1, form |-> 3, title |-> "page"], [parent |-> 1, form |-> 2, title |-> "page"]},
     !.form = {[set |-> 1, schema |-> Schema(0, <<Store(3)>>, 3, <<It("NUMERIC", 20, 3, 0, 2, "n", 0), It("REF", 21, 0, 0, 0, "r", 1)>>)],
               [set |-> 1, schema |-> Schema(0, <<>>, 3, <<It("ONEOF", 22, 1, 3, 1, "n", 0)>>)]},
     !.hijack = {[form |-> 2, items |-> <<[qid |-> 2, text |-> "mine"]>>], [form |-> 1, items |-> <<[qid |-> 2, text |-> "mine"]>>]},
     !.formset = {Schema(21, <<>>, 30, <<It("TEXT", 0, 0, 0, 0, "t", 0)>>)},
     !.reimport = {[form |-> 1, new |-> 40], [form |-> 2, new |-> 41]}]

(* A store's name of 105 bytes, seven classes; default stores whose name is a text, or is none; a file of FfsLimit cells. *)
LongStore == [id |-> 3, size |-> 2, name |-> [n \in 1..105 |-> 9]]
LongForm == Schema(0, <<LongStore>>, 3, <<It("CHECKBOX", 20, 3, 0, 1, "n", 0)>>)
Small(g) == Schema(g, <<>>, 30, <<It("TEXT", 0, 0, 0, 0, "t", 0)>>)
LongRequests == [Nothing EXCEPT
     !.question = {Add(1, <<Q(1, 10, 3, 0, End)>>, <<>>, <<LongStore>>), Add(1, <<>>, <<R(1, 0, 0, End)>>, <<>>)},
     !.unlock = {Key(1, 0)}, !.reimport = {[form |-> 1, new |-> 40]},
     !.form = {[set |-> 1, schema |-> LongForm], [set |-> 1, schema |-> [LongForm EXCEPT !.stores[1].name = Tail(@)]]},
     !.formset = {[Small(21) EXCEPT !.classes = 7], [Small(22) EXCEPT !.classes = 6], [Small(23) EXCEPT !.dstores = <<"t">>],
                  [Small(24) EXCEPT !.dstores = <<"default">>],
                  Schema(25, <<Store(3)>>, 30, [n \in 1..3 |-> It("NUMERIC", 20 + n, 3, n, 1, "n", 0)])}]

MCRequests ==
  [bare |-> BareRequests, readonly |-> BareRequests, long |-> LongRequests, novendor |-> [Nothing EXCEPT !.formset = {Small(21)}],
   shown |-> [Nothing EXCEPT
     !.show = {Show(f, TRUE) : f \in {0, 2, 3, 4, 5}}, !.unlock = {Key(3, 0)}, !.reimport = {[form |-> 3, new |-> 6]},
     !.form = {[set |-> 1, schema |-> Schema(0, <<>>, 7, <<It("TEXT", 0, 0, 0, 0, "n", 0)>>)]}],
   outside |-> [Nothing EXCEPT
     !.show = {Show(6, TRUE), Show(0, TRUE)}, !.unlock = {Key(5, 0), Key(5, 5), Key(6, 0)}, !.formset = {Small(21)},
     !.value = {[form |-> 5, qid |-> 5, v |-> 1]}, !.hijack = {[form |-> 6, items |-> <<[qid |-> 5, text |-> "mine"]>>]},
     !.reimport = {[form |-> 5, new |-> 40], [form |-> 6, new |-> 41]},
     !.question = {Add(1, <<>>, <<R(6, 0, 17, End)>>, <<>>), Add(6, <<>>, <<R(5, 0, 0, End)>>, <<>>)}],
   resource |-> [Nothing EXCEPT
     !.unlock = {Key(1, 0), Key(5, 0), Key(5, 5), Key(5, 6)},
     !.question = {Add(1, <<Q(1, 10, 1, 0, End)>>, <<R(5, 0, 12, End)>>, <<>>), Add(5, <<Q(5, 11, 2, 1, BeforeQuestion(5))>>, <<>>, <<>>),
                   Add(1, <<>>, <<R(9, 15, 0, End)>>, <<>>), Add(1, <<>>, <<>>, <<[id |-> 2, size |-> 1, name |-> <<9>>]>>)},
     !.form = {[set |-> 2, schema |-> Schema(0, <<>>, 3, <<It("CHECKBOX", 20, 2, 1, 1, "n", 0)>>)],
               [set |-> 3, schema |-> Schema(0, <<>>, 3, <<>>)]},
     !.hijack = {[form |-> 1, items |-> <<[qid |-> 2, text |-> "mine"]>>]},
     !.formset = {Schema(21, <<>>, 30, <<It("TEXT", 0, 0, 0, 0, "t", 0)>>), Schema(22, <<Store(9)>>, 31, <<It("ONEOF", 1, 9, 0, 1, "t", 0)>>)}],
   values |-> [Nothing EXCEPT
     !.value = {[form |-> 1, qid |-> 1, v |-> 0], [form |-> 2, qid |-> 2, v |-> 5], [form |-> 2, qid |-> 2, v |-> 300], [form |-> 1, qid |-> 9, v |-> 0]},
     !.nvar = {[name |-> <<6>>, guid |-> AnyGuid, off |-> 0, v |-> 83, w |-> 2], [name |-> <<6>>, guid |-> 5, off |-> 0, v |-> 9, w |-> 1],
               [name |-> <<7>>, guid |-> AnyGuid, off |-> 2, v |-> 4, w |-> 1]},
     !.question = {Add(1, <<Q(1, 10, 1, 3, End)>>, <<>>, <<>>)}],
   hidden |-> [Nothing EXCEPT
     !.unhide = {[set |-> 11, form |-> 1, at |-> 0], [set |-> 12, form |-> 5, at |-> 0], [set |-> 13, form |-> 7, at |-> 0],
                 [set |-> 12, form |-> 5, at |-> 6], [set |-> 14, form |-> 8, at |-> 0]},
     !.formset = {Schema(21, <<>>, 30, <<It("ONEOF", 1, 0, 0, 1, "t", 0)>>)}]]
MCMaxCalls == [shown |-> 3, outside |-> 2, long |-> 2, novendor |-> 1, bare |-> 2, readonly |-> 1, resource |-> 3, values |-> 3, hidden |-> 4]

(* Files: one section behind the resources, a section without bytes in front, a signature, a leaf behind the list. *)
Blob2 == <<9, 3, FORMS, 5, 3, STRINGS, 6, 2, END_KIND>>
Sec(va, vsize, raw, ptr) == [va |-> va, vsize |-> vsize, raw |-> raw, ptr |-> ptr]
Base1 == [file |-> <<1, 2, 8, 8>> \o Blob2 \o <<0>>, secs |-> <<Sec(8, 2, 2, 1), Sec(16, 11, 12, 3)>>, rva |-> 16, dirs |-> <<0, 8>>,
          cert |-> FALSE, fa |-> 2, sa |-> 4, size |-> 28, leaves |-> <<[hii |-> FALSE, rva |-> 17, size |-> 1], [hii |-> TRUE, rva |-> 18, size |-> 9]>>]
Base2 == [Base1 EXCEPT !.file = @ \o <<3, 4>>, !.secs = Append(@, Sec(28, 1, 2, 15)), !.dirs = <<28, 8>>, !.size = 32]
Base3 == [Base1 EXCEPT !.secs = <<Sec(32, 4, 0, 1)>> \o @, !.dirs = <<33, 9>>, !.size = 36]
Base5 == [Base2 EXCEPT !.leaves = Append(@, [hii |-> FALSE, rva |-> 27, size |-> 1]), !.secs[2].vsize = 12]
MCPeImages == {Base1, Base2, Base3, [Base2 EXCEPT !.cert = TRUE], Base5, [Base2 EXCEPT !.file = Append(@, 0)]}
MCNewPackages == {<<3, FORMS, 1>>, <<2, STRINGS>>, <<2, END_KIND>>, <<3, FORMS>>}

MCInit ==
  \/ part = "calls" /\ Init /\ pe = Base1 /\ list = Packages(Base1)
  \/ part = "files" /\ PeInit /\ img = Resource /\ last = [op |-> "open", ask |-> 0, ok |-> TRUE, n |-> 0, long |-> FALSE]
MCNext ==
  \/ part = "calls" /\ Next /\ UNCHANGED <<part, pe, list>>
  \/ part = "files" /\ PeNext /\ UNCHANGED <<part, img, last>>
MCSpec == MCInit /\ [][MCNext]_<<part, img, last, pe, list>>

(* A form with an action between two questions. *)
WithAction == [Bare EXCEPT !.pkg = <<S("FORMSET", 11, 0, 0, 0, 1), O("VARSTORE", 1, 4, <<7>>, 0, 0), S("FORM", 1, 0, 0, 0, 2)>> \o Count
                 \o <<S("ACTION", 8, 0, 0, 0, 4), END, S("CHECKBOX", 9, 1, 0, 0, 6), END, END, END>>, !.spf = NoSpf]
MCWithAction == {WithAction}
=============================================================================
