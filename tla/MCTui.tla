------------------------------- MODULE MCTui --------------------------------
(* The terminal client on small instances, one question per part:  *)
(* sessions and images, node commands, reopening, the forms view over one   *)
(* image, its browsers, additions to it, the rows of small form graphs.     *)
EXTENDS TuiApp

CONSTANT Parts

VARIABLE part

Node(p, nvar) == [path |-> p, nvar |-> nvar]
Form(g, id) == [set |-> g, id |-> id, visible |-> id = 1]
Edge(g, parent, id, target) == [set |-> g, parent |-> parent, id |-> id, target |-> target]

(* Two contents: the second has a node less, another form and question. *)
MCLibrary ==
  <<[tree   |-> <<Node(<<>>, FALSE), Node(<<1>>, FALSE), Node(<<1, 1>>, TRUE), Node(<<2>>, TRUE)>>,
     forms  |-> <<Form("A", 1), Form("A", 2)>>,
     edges  |-> <<Edge("A", 1, 2, NoSet)>>,
     asks   |-> (<<"A", 1>> :> <<11, 12>>) @@ (<<"A", 2>> :> <<21>>),
     strings |-> 2, stores |-> 1],
    [tree   |-> <<Node(<<>>, FALSE), Node(<<1>>, TRUE)>>,
     forms  |-> <<Form("A", 1)>>,
     edges  |-> <<>>,
     asks   |-> (<<"A", 1>> :> <<11>>),
     strings |-> 1, stores |-> 2]>>

(* The state after one image has been opened. *)
Opened(w) ==
  LET s == [engine |-> [sess |-> [n \in Sessions |-> [st |-> IF n = 1 THEN "live" ELSE "new"]],
                        img |-> [i \in Images |-> IF i = 1 THEN [NoImage EXCEPT !.st = "live", !.sess = 1, !.write = w, !.content = File] ELSE NoImage],
                        snap |-> [i \in Images |-> 0], arts |-> 0],
            client |-> [sess |-> 1, active |-> 1]]
  IN  /\ engine = s.engine /\ client = s.client /\ disk = s.client
      /\ app = [NoApp EXCEPT !.active = 1, !.loaded = TRUE, !.tree = build_tree(1, File),
                             !.reg = [@ EXCEPT !.images = (1 :> [write |-> w, upload |-> FALSE])]]
      /\ note = NoNote

(* Every form graph of two sets, two ids and two edges, the first of the   *)
(* two in A; B is listed after A, or before it.                            *)
MCEdges == {Edge(g, p, id, t) : g \in {"A", "B"}, p \in 1..2, id \in 1..2, t \in {NoSet, "B"}}
MCForms == {<<Form("A", 1), Form("B", 1)>>, <<Form("A", 2), Form("A", 1), Form("B", 2)>>, <<Form("B", 1), Form("A", 2)>>}
Graphs == {[NoForms EXCEPT !.forms = fs, !.edges = es, !.expanded = all_row_keys(fs, es)]
             : fs \in MCForms, es \in {<<>>} \cup {<<e>> : e \in MCEdges} \cup ({e \in MCEdges : e.set = "A"} \X MCEdges)}

MCInit ==
  /\ part \in Parts
  /\ CASE part = "sessions" -> Init
       [] part \in {"nodes", "forms", "browse", "adds"} -> Opened(TRUE)
       [] part = "reopen" -> Opened(FALSE)
       [] part = "rows"  -> \E f \in Graphs :
            /\ engine = [sess |-> [n \in Sessions |-> [st |-> "new"]], img |-> [i \in Images |-> NoImage],
                         snap |-> [i \in Images |-> 0], arts |-> 0]
            /\ client = [sess |-> 0, active |-> 0] /\ disk = client /\ note = NoNote
            /\ app = [NoApp EXCEPT !.view = "Forms", !.forms = f]

MCNext ==
  /\ \/ part = "sessions" /\ (SessionCommands \/ RegistryKeys \/ OtherCloses \/ SessionEnds)
     \/ part = "nodes" /\ (NodeCommands \/ TreeKeys \/ FocusMove \/ OtherEdits)
     \/ part = "reopen" /\ (InsertNode \/ Snapshot \/ Restore \/ Save \/ Reopen \/ switch_view)
     \/ part = "forms" /\ (FormsCommands \/ FormsKeys \/ switch_view \/ OtherEdits)
     \/ part = "browse" /\ (BrowserKeys \/ HiiFlip \/ MoveInForms \/ switch_view)
     \/ part = "adds" /\ (AddCommands \/ Switch \/ MoveInForms \/ MoveInQuestions \/ FormsFocus \/ switch_view)
     \/ part = "rows" /\ (MoveInForms \/ ExpandForm \/ ToggleFlat)
  /\ UNCHANGED part

MCSpec == MCInit /\ [][MCNext]_<<vars, part>>
=============================================================================
