------------------------------ MODULE MCClients ------------------------------
(* The clients around the engine on small instances, one question per part: *)
(* the command line of the terminal client (its editor and menu, its        *)
(* history), the gateway, the state file of the command line client, the    *)
(* import of form packages.                                                 *)
EXTENDS CommandLine, Gateway, CliState, FormPackage, TLC

VARIABLE part

(* Words of the command line: a command with nodes and two flags, of which  *)
(* one takes a path, a command with paths, one with image ids. Files with a *)
(* blank, a wide character and a dot in their names, a directory, and the   *)
(* home directory.                                                          *)
go == <<"j">>
ed == <<"a">>
aj == <<"a", "j">>
file_flag == <<"-", "-", "f">>
body_flag == <<"-", "-", "b">>
AnyLen == 1..9    \* longer than any line gets
Rule(words, len, last, dashes, free, offers) ==
  [words |-> words, len |-> len, last |-> last, dashes |-> dashes, free |-> free, offers |-> offers]
MCCommands == <<go, ed, aj>>
MCRules == <<Rule(<<>>, AnyLen, file_flag, FALSE, FALSE, "path"), Rule(<<aj>>, {1}, <<>>, FALSE, FALSE, "image"),
             Rule(<<go>>, AnyLen, <<>>, TRUE, FALSE, "flags"), Rule(<<>>, AnyLen, <<>>, TRUE, FALSE, "nothing"),
             Rule(<<ed>>, {1}, <<>>, FALSE, FALSE, "path"), Rule(<<go>>, AnyLen, <<>>, FALSE, TRUE, "node")>>
MCLists == [node |-> <<<<"a", "j">>, <<"a", "j", "o">>, <<"a">>>>, flags |-> <<file_flag, body_flag>>, image |-> <<<<"j", "a">>>>]
MCHome == <<"/", "j">>
MCDirs == (<<>> :> <<<<".", "a">>, <<"W", "a">>, <<"W", "j">>, <<"a", "/">>, <<"j", Blank, "a">>, <<"j", Blank, "o">>>>)
          @@ (<<"/">> :> <<<<"j", "/">>>>) @@ (<<"/", "j", "/">> :> <<<<".", "a">>, <<"j", "a">>, <<"j", "o">>>>)
Past == <<<<"j", Blank, "a">>, go>>

(* Package files: with and without references, entries of this and another *)
(* form set, known and new stores, every kind of broken file.               *)
Entry(form, set, qid) == [form |-> form, set |-> set, qid |-> qid]
Store(id, def) == [id |-> id, def |-> def]
NewForm(id, qids) == [id |-> id, qids |-> qids]
Package(meta, refs, parent, entries, formset, forms, stores) ==
  [json |-> TRUE, object |-> TRUE, meta |-> meta, source |-> "T", refs |-> refs, section |-> [parent |-> parent, entries |-> entries],
   formset |-> formset, body |-> [forms |-> forms, stores |-> stores]]
MCImage == [forms |-> {[set |-> "T", id |-> 1], [set |-> "T", id |-> 2], [set |-> "O", id |-> 5]},
            asks |-> {[form |-> 1, qid |-> 3], [form |-> 2, qid |-> 11]},
            refs |-> <<[parent |-> 1, qid |-> 10, form |-> 2, set |-> Here]>>,
            stores |-> {Store(1, "a")}]
Entries == {<<>>, <<Entry(0, Here, 0)>>, <<Entry(0, Here, 0), Entry(0, Here, 0)>>, <<Entry(0, Here, 3)>>,
            <<Entry(2, Here, 12)>>, <<Entry(5, "O", 0)>>, <<Entry(5, Here, 0)>>, <<Entry(1, "O", 4)>>, <<Entry(0, "O", 0)>>}
Bodies == {<<<<NewForm(3, {12})>>, <<Store(1, "a"), Store(2, "b")>>>>, <<<<NewForm(3, {})>>, <<Store(1, "c")>>>>,
           <<<<>>, <<Store(2, "c")>>>>, <<<<NewForm(3, {})>>, <<>>>>}
MCFiles ==
  {Package("ok", "object", 1, es, TRUE, b[1], b[2]) : es \in Entries, b \in Bodies}
  \cup {Package("ok", "object", 3, es, TRUE, <<NewForm(3, {})>>, <<Store(2, "b")>>) : es \in {<<>>, <<Entry(2, Here, 12)>>}}
  \cup {Package("ok", "object", 1, es, FALSE, <<>>, <<>>) : es \in Entries}
  \cup {Package(m, r, 1, es, FALSE, <<>>, <<>>) : m \in {"ok", "none", "bad"}, r \in {"none", "object", "array", "bad"},
                                                 es \in {<<>>, <<Entry(0, Here, 0)>>}}
  \cup {[Package("none", "none", 0, <<>>, TRUE, <<NewForm(3, {})>>, <<Store(2, "b"), Store(2, "b")>>) EXCEPT !.object = o, !.json = j]
          : o \in BOOLEAN, j \in BOOLEAN}

Editor == part = "edit" /\ line = <<>> /\ cursor = 0 /\ mode = "Command" /\ menu = Closed
                        /\ history = Past /\ recall = NoRecall /\ saved = None /\ file = Past

MCInit ==
  /\ part \in {"edit", "history", "gateway", "cli", "package"}
  /\ Editor \/ (part # "edit" /\ CLInit)
  /\ GWInit /\ CSTInit /\ FPInit

(* Bound: in a line that completion made longer than a typed one, the keys  *)
(* that delete are used at its end only.                                    *)
Short == Len(line) <= MaxLine \/ cursor = Len(line)
EditKeys ==
  \/ (\E c \in Letters : Insert(c)) \/ (Short /\ (Backspace \/ Delete \/ KillWord \/ KillToStart \/ KillToEnd)) \/ MoveKey
  \/ MenuMove \/ accept_menu_selection \/ TabKey \/ prev \/ next \/ Esc \/ enter_command_mode
HistoryKeys ==
  \/ enter_command_mode \/ (Len(line) < 2 /\ \E c \in {"j", Blank} : Insert(c)) \/ Backspace \/ prev \/ next \/ Execute \/ Esc \/ Restart

MCNext ==
  /\ \/ part = "edit" /\ EditKeys /\ UNCHANGED <<gwvars, cstvars, fpvars>>
     \/ part = "history" /\ HistoryKeys /\ UNCHANGED <<gwvars, cstvars, fpvars>>
     \/ part = "gateway" /\ GWNext /\ UNCHANGED <<clvars, cstvars, fpvars>>
     \/ part = "cli" /\ CSTNext /\ UNCHANGED <<clvars, gwvars, fpvars>>
     \/ part = "package" /\ FPNext /\ UNCHANGED <<clvars, gwvars, cstvars>>
  /\ UNCHANGED part

MCSpec == MCInit /\ [][MCNext]_<<clvars, gwvars, cstvars, fpvars, part>> /\ GWFairness
==============================================================================
