------------------------------ MODULE CliState ------------------------------
(* The command line client: one process per command. What it knows of the   *)
(* session and the active image is in the file .uefipatcher of the working   *)
(* directory (state.rs): a command reads it, calls the engine and may write   *)
(* it again, over a file with a fixed name that is then renamed. Two          *)
(* commands may run at once, and one may be killed at any point.              *)
EXTENDS Integers, FiniteSets

CONSTANTS Procs, MaxSessionIds, MaxImageIds, MaxKills

ASSUME CliAssumption ==
  IsFiniteSet(Procs) /\ MaxSessionIds \in Nat /\ MaxImageIds \in Nat /\ MaxKills \in Nat

VARIABLES
  esess,           \* the engine: its live sessions,
  eimg, live,      \*   the session that opened an image, the images not closed,
  nsess, nimg,     \*   how many of each it has created
  node,            \* contents of the files: a State, or Empty
  named,           \* the file behind the names "state" and "tmp", 0: none
  proc,            \* [at, kind, st, img, fd]
  raced,           \* history: two commands were writing the state at the same time
  kills

engine == <<esess, eimg, live, nsess, nimg>>
cstvars == <<engine, node, named, proc, raced, kills>>

NoId == 0
NoState == [session |-> NoId, token |-> NoId, active |-> NoId]   \* State::default()
Empty == [session |-> -1, token |-> -1, active |-> -1]           \* a file without a byte
Nodes == 1..(2 + Cardinality(Procs))
Quiet == [at |-> "idle", kind |-> "none", st |-> NoState, img |-> NoId, fd |-> 0]

(***************************************************************************)
(* The commands by what they need of the state and what they do:           *)
(*   "look", "edit"   at or to the active image (extract leaves an         *)
(*                    artifact with it);                                   *)
(*   "list"           of the session (import adds to it);                  *)
(*   "plain"          neither, though the file must be there: what the     *)
(*                    command is about is named by its arguments.          *)
(* The others have a step of their own.                                    *)
(***************************************************************************)
SessionCommands == [init |-> "init", list |-> "plain", destroy |-> "destroy"]

ImageCommands == [open |-> "open", switch |-> "switch", close |-> "close", save |-> "look", list |-> "list", status |-> "look"]

NodeCommands == [list |-> "look", search |-> "look", insert |-> "edit", remove |-> "edit",
                 replace |-> "edit", rebuild |-> "edit", extract |-> "edit"]

HiiFormCommands == [form_list |-> "look", question_list |-> "look", varstore_list |-> "look",
                    form_set_visibility |-> "edit", string_list |-> "look", formset_add |-> "edit"]

(* Packages: the calls a command makes are in FormPackage. *)
HiiPackageCommands == [form_add |-> "edit", form_export |-> "look", import |-> "edit"]

HiiItemCommands == [form_hijack |-> "edit", gates |-> "look", unlock |-> "edit", question_info |-> "look",
                    question_value |-> "look", question_set_value |-> "edit", question_add |-> "edit", page_add |-> "edit"]

NvarCommands == [list |-> "look", set |-> "edit"]
TseCommands == [report |-> "plain", unhide |-> "plain"]
ArtifactCommands == [list |-> "list", import |-> "list", export |-> "plain"]

Tables == {SessionCommands, ImageCommands, NodeCommands, HiiFormCommands, HiiPackageCommands, HiiItemCommands,
           NvarCommands, TseCommands, ArtifactCommands}

Kinds == UNION {{t[c] : c \in DOMAIN t} : t \in Tables}

(* read_state: no file, and a file without a byte, are the default state. *)
Content == IF named["state"] = 0 THEN NoState
           ELSE IF node[named["state"]] = Empty THEN NoState ELSE node[named["state"]]

(* require_state, and what the command then takes from the state. *)
Missing(kind, img, st) ==
  \/ kind # "init" /\ named["state"] = 0
  \/ kind \in {"destroy", "open", "switch", "list"} /\ st.session = NoId
  \/ kind \in {"look", "edit"} /\ st.active = NoId
  \/ kind = "close" /\ img = NoId /\ st.active = NoId

SameFiles == UNCHANGED <<node, named, raced>>

(* A command that lacks something ends before it calls the engine. *)
Start(p, kind, img, force) ==
  /\ proc[p].at = "idle"
  /\ ~Missing(kind, img, Content)
  /\ kind = "init" => Content.session = NoId \/ force
  /\ proc' = [proc EXCEPT ![p] = [at |-> "call", kind |-> kind, fd |-> 0,
                                  st |-> IF kind = "init" THEN NoState ELSE Content,
                                  img |-> IF img = NoId THEN Content.active ELSE img]]
  /\ UNCHANGED <<engine, kills>> /\ SameFiles

(* switch names an image, close may. *)
Commands(p) ==
  \E kind \in Kinds, img \in 0..nimg, force \in BOOLEAN :
    /\ kind = "switch" => img # NoId
    /\ kind \notin {"switch", "close"} => img = NoId
    /\ force => kind = "init"
    /\ Start(p, kind, img, force)

(***************************************************************************)
(* The engine call of a command. auth_req attaches session and token when  *)
(* both are known; no handler of the engine looks at them, it goes by the  *)
(* ids in the message.                                                     *)
(***************************************************************************)
Ends(p) == proc' = [proc EXCEPT ![p] = Quiet]
Writes(p, st) == proc' = [proc EXCEPT ![p] = [Quiet EXCEPT !.at = "write", !.st = st]]

(* Mutant: the active image of the old session stays. *)
session_init_keeps(p) ==
  /\ proc[p].kind = "init" /\ nsess < MaxSessionIds
  /\ nsess' = nsess + 1 /\ esess' = esess \cup {nsess + 1}
  /\ Writes(p, [session |-> nsess + 1, token |-> nsess + 1, active |-> Content.active])
  /\ UNCHANGED <<eimg, live, nimg>>

session_init(p) ==
  /\ proc[p].kind = "init" /\ nsess < MaxSessionIds
  /\ nsess' = nsess + 1 /\ esess' = esess \cup {nsess + 1}
  /\ Writes(p, [session |-> nsess + 1, token |-> nsess + 1, active |-> NoId])
  /\ UNCHANGED <<eimg, live, nimg>>

(* The engine's side of it, and of the GC: the images go with the session.  *)
SessionGone(s) ==
  /\ esess' = esess \ {s} /\ live' = {i \in live : eimg[i] # s}
  /\ UNCHANGED <<eimg, nsess, nimg>>

(* A session that is gone may be destroyed once more. *)
session_destroy(p) ==
  /\ proc[p].kind = "destroy"
  /\ SessionGone(proc[p].st.session)
  /\ proc' = [proc EXCEPT ![p] = [Quiet EXCEPT !.at = "unlink"]]

image_open(p) ==
  /\ proc[p].kind = "open" /\ nimg < MaxImageIds /\ proc[p].st.session \in esess
  /\ nimg' = nimg + 1 /\ live' = live \cup {nimg + 1} /\ eimg' = [eimg EXCEPT ![nimg + 1] = proc[p].st.session]
  /\ Writes(p, [proc[p].st EXCEPT !.active = nimg + 1])
  /\ UNCHANGED <<esess, nsess>>

(* Only an image that images_list shows for the session. *)
image_switch(p) ==
  /\ proc[p].kind = "switch"
  /\ proc[p].img \in live /\ eimg[proc[p].img] = proc[p].st.session
  /\ Writes(p, [proc[p].st EXCEPT !.active = proc[p].img])
  /\ UNCHANGED engine

(* Any image by its id; the state is written only if it was the active one. *)
image_close(p) ==
  /\ proc[p].kind = "close" /\ proc[p].img \in live
  /\ live' = live \ {proc[p].img}
  /\ IF proc[p].st.active = proc[p].img THEN Writes(p, [proc[p].st EXCEPT !.active = NoId]) ELSE Ends(p)
  /\ UNCHANGED <<esess, eimg, nsess, nimg>>

look_at(p) == proc[p].kind = "look" /\ proc[p].img \in live /\ Ends(p) /\ UNCHANGED engine

(* An artifact goes to the session of the image, not of the request. *)
edit_image(p) ==
  /\ proc[p].kind = "edit" /\ proc[p].img \in live
  /\ Ends(p) /\ UNCHANGED engine

artifacts_list(p) == proc[p].kind = "list" /\ Ends(p) /\ UNCHANGED engine
sessions_list(p) == proc[p].kind = "plain" /\ Ends(p) /\ UNCHANGED engine

(* No engine on the socket, a bad argument, or the engine refuses: the       *)
(* error is printed, the state stays as it is.                              *)
CallFails(p) == Ends(p) /\ UNCHANGED engine

EngineCall(p) ==
  /\ proc[p].at = "call"
  /\ \/ session_init(p) \/ session_destroy(p) \/ image_open(p) \/ image_switch(p) \/ image_close(p)
     \/ look_at(p) \/ edit_image(p) \/ artifacts_list(p) \/ sessions_list(p) \/ CallFails(p)
  /\ SameFiles /\ UNCHANGED kills

(***************************************************************************)
(* write_state: create or truncate .uefipatcher.tmp, write it, rename it.  *)
(***************************************************************************)
InUse == {named["state"], named["tmp"]} \cup {proc[p].fd : p \in Procs}
Unused == CHOOSE n \in Nodes : n \notin InUse

truncate_tmp(p) ==
  /\ proc[p].at = "write"
  /\ LET n == IF named["tmp"] = 0 THEN Unused ELSE named["tmp"]
     IN  /\ named' = [named EXCEPT !["tmp"] = n] /\ node' = [node EXCEPT ![n] = Empty]
         /\ proc' = [proc EXCEPT ![p] = [@ EXCEPT !.fd = n, !.at = "fill"]]
  /\ raced' = (raced \/ \E q \in Procs \ {p} : proc[q].at \in {"fill", "rename"})
  /\ UNCHANGED <<engine, kills>>

fill_tmp(p) ==
  /\ proc[p].at = "fill"
  /\ node' = [node EXCEPT ![proc[p].fd] = proc[p].st]
  /\ proc' = [proc EXCEPT ![p].at = "rename"]
  /\ UNCHANGED <<engine, named, raced, kills>>

(* A file without a name and an open handle is gone. *)
Freed == node' = [n \in Nodes |-> IF n \in InUse' THEN node[n] ELSE Empty]

(* The name may be gone: another command has renamed it. *)
rename_tmp(p) ==
  /\ proc[p].at = "rename"
  /\ named' = IF named["tmp"] = 0 THEN named ELSE [named EXCEPT !["state"] = named["tmp"], !["tmp"] = 0]
  /\ Ends(p) /\ Freed /\ UNCHANGED <<engine, raced, kills>>

remove_state(p) ==
  /\ proc[p].at = "unlink"
  /\ named' = [named EXCEPT !["state"] = 0]
  /\ Ends(p) /\ Freed /\ UNCHANGED <<engine, raced, kills>>

Killed(p) ==
  /\ proc[p].at # "idle" /\ kills < MaxKills /\ kills' = kills + 1
  /\ Ends(p) /\ UNCHANGED <<engine, named, raced>> /\ Freed

(* The GC ends a session. *)
SessionExpires ==
  \E s \in esess : /\ kills < MaxKills /\ kills' = kills + 1
                   /\ SessionGone(s) /\ UNCHANGED proc /\ SameFiles

CSTInit ==
  /\ esess = {} /\ eimg = [i \in 1..MaxImageIds |-> NoId] /\ live = {} /\ nsess = 0 /\ nimg = 0
  /\ node = [n \in Nodes |-> Empty] /\ named = [state |-> 0, tmp |-> 0]
  /\ proc = [p \in Procs |-> Quiet] /\ raced = FALSE /\ kills = 0

CSTNext ==
  \/ \E p \in Procs : \/ Commands(p) \/ EngineCall(p) \/ truncate_tmp(p) \/ fill_tmp(p) \/ rename_tmp(p)
                      \/ remove_state(p) \/ Killed(p)
  \/ SessionExpires

CSTSpec == CSTInit /\ [][CSTNext]_cstvars

(***************************************************************************)
(* Properties.                                                             *)
(***************************************************************************)
(* A state's active image was opened by the session next to it. *)
OfItsSession(st) == st.active # NoId => st.session # NoId /\ eimg[st.active] = st.session

(* The active image in the file, and in every process, was opened by the    *)
(* session next to it, whatever commands overlapped, were killed or          *)
(* replaced the session in between.                                         *)
ActiveOfSession == OfItsSession(Content) /\ \A p \in Procs : OfItsSession(proc[p].st)

(* So no command looks at or changes the active image of another session,   *)
(* or leaves an artifact with it (only one that names its image may): the   *)
(* engine, which goes by the id alone, would let it.                        *)
ActsInSession ==
  \A p \in Procs : proc[p].at = "call" /\ proc[p].kind \in {"look", "edit"} => eimg[proc[p].img] = proc[p].st.session

(* As long as no two commands write the state at the same time, the state   *)
(* file is never read half written, even if a command is killed while it    *)
(* writes.                                                                  *)
StateFileWhole == ~raced /\ named["state"] # 0 => node[named["state"]] # Empty

(* Whoever reads the state file reads a whole state of one session, and     *)
(* acts on what that session opened.                                        *)
StateFileSound == ActiveOfSession /\ ActsInSession /\ StateFileWhole

(***************************************************************************)
(* What the steps preserve.                                                *)
(***************************************************************************)
States == [session : Nat, token : Nat, active : 0..MaxImageIds]

CliTypeOK ==
  /\ esess \subseteq Nat \ {0} /\ eimg \in [1..MaxImageIds -> Nat] /\ live \subseteq 1..MaxImageIds
  /\ nsess \in Nat /\ nimg \in 0..MaxImageIds
  /\ node \in [Nodes -> States \cup {Empty}] /\ named \in [{"state", "tmp"} -> Nodes \cup {0}]
  /\ proc \in [Procs -> [at : {"idle", "call", "write", "fill", "rename", "unlink"}, kind : Kinds \cup {"none"},
                         st : States, img : 0..MaxImageIds, fd : Nodes \cup {0}]]
  /\ raced \in BOOLEAN /\ kills \in Nat

(* A state names an image that exists, and its session. *)
Sound(st) == st.active # NoId => /\ st.session # NoId /\ st.active \in 1..nimg /\ eimg[st.active] = st.session

StatesSound == /\ \A p \in Procs : Sound(proc[p].st)
               /\ \A n \in Nodes : node[n] # Empty => Sound(node[n])

(* A command in its call has what Missing asks for. *)
CallsReady ==
  \A p \in Procs : proc[p].at = "call" =>
    /\ proc[p].kind \in {"look", "edit"} => proc[p].img = proc[p].st.active /\ proc[p].img # NoId
    /\ proc[p].kind \in {"open", "switch"} => proc[p].st.session # NoId
    /\ proc[p].kind = "switch" => proc[p].img \in 1..nimg

Writing(p) == proc[p].at \in {"fill", "rename"}

(* The temporary file has one writer, and what it renames is whole; the     *)
(* state file is another one.                                               *)
WritersApart ==
  /\ named["state"] # 0 => named["state"] # named["tmp"]
  /\ \A p \in Procs : Writing(p) => proc[p].fd # 0
  /\ ~raced => /\ \A p, q \in Procs : Writing(p) /\ Writing(q) => p = q
               /\ \A p \in Procs : Writing(p) => proc[p].fd = named["tmp"]
               /\ \A p \in Procs : proc[p].at = "rename" => node[proc[p].fd] = proc[p].st

CliInv == CliTypeOK /\ StatesSound /\ CallsReady /\ WritersApart /\ StateFileWhole
==============================================================================
