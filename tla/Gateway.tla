------------------------------- MODULE Gateway -------------------------------
(* The HTTP gateway: browsers call its routes, a handler forwards the call  *)
(* to the engine over one connection behind one mutex and attaches the      *)
(* token the gateway keeps, in memory only, for the session of the cookie.  *)
(* A session and the token the engine issued with it have the same number.  *)
EXTENDS Integers, Sequences, FiniteSets

CONSTANTS Requests,      \* handlers that can run at the same time
          MaxCreated,    \* bound on the sessions the engine creates
          MaxFaults      \* bound on dropped handlers, restarts, expiries and failures

VARIABLES
  alive, created,   \* the engine: its live sessions, how many it has created
  tokens,           \* SessionMap: the sessions whose token the gateway has
  handler,          \* what each handler does: [at, op, sid, failed]
  owner, turn,      \* the client's mutex: {} or who has it, and who waits for it, in order
  tmp,              \* the handlers whose file is under /tmp
  ended,            \* history: sessions whose DELETE was answered with ok
  known,            \* history: sessions whose cookie this gateway process handed out
  excused,          \* history: handlers that were dropped, or for which a write, a read or the
                    \* removal of their file, or the call that was to write it, failed
  answer, faults

gwvars == <<alive, created, tokens, handler, owner, turn, tmp, ended, known, excused, answer, faults>>

NoCookie == 0
Idle == [at |-> "idle", op |-> "none", sid |-> NoCookie, failed |-> FALSE]
(* "download" stands for images and for artifacts. *)
Routes == {"create", "destroy", "list", "call", "call_destroy", "upload", "artifact_upload", "download"}
WithToken == {"call", "call_destroy", "upload", "artifact_upload", "download"}

At(r, place) == handler[r].at = place
Fault == faults < MaxFaults /\ faults' = faults + 1

(* lock().await: a free mutex is taken at once. *)
Lock(r) ==
  /\ owner' = IF owner = {} THEN {r} ELSE owner
  /\ turn' = IF owner = {} THEN turn ELSE Append(turn, r)

(* The guard, or the place in the queue, is dropped with the handler: the  *)
(* next in turn has the mutex.                                             *)
Unlock(r) ==
  IF r \in owner
  THEN /\ owner' = IF turn = <<>> THEN {} ELSE {Head(turn)}
       /\ turn' = IF turn = <<>> THEN turn ELSE Tail(turn)
  ELSE owner' = owner /\ turn' = SelectSeq(turn, LAMBDA x : x # r)

Lockless == UNCHANGED <<owner, turn>>

(* Mutant: the mutex is kept when an error is answered. *)
Answered_keeps_turn(r, a) ==
  /\ handler' = [handler EXCEPT ![r] = Idle]
  /\ IF a = "ok" THEN Unlock(r) ELSE Lockless
  /\ answer' = [answer EXCEPT ![r] = a]

(* The handler returns and gives the mutex up. *)
Answered(r, a) ==
  /\ handler' = [handler EXCEPT ![r] = Idle] /\ Unlock(r)
  /\ answer' = [answer EXCEPT ![r] = a]

(* extract_session_id: every route but create wants a cookie, upload and    *)
(* artifact_upload a file as well; artifact_upload writes it before it      *)
(* waits for the client. File names are fresh UUIDs: a handler whose file   *)
(* stayed under /tmp is not used for another request.                       *)
Arrive(r, op, sid) ==
  /\ At(r, "idle") /\ r \notin tmp
  /\ op = "create" => created + Cardinality({x \in Requests : handler[x].op = "create" /\ At(x, "wait")}) < MaxCreated
  /\ handler' = [handler EXCEPT ![r] = [at |-> IF op = "artifact_upload" THEN "write" ELSE "wait", op |-> op, sid |-> sid, failed |-> FALSE]]
  /\ IF op = "artifact_upload" THEN Lockless ELSE Lock(r)
  /\ excused' = excused \ {r} /\ answer' = [answer EXCEPT ![r] = "none"]
  /\ UNCHANGED <<alive, created, tokens, tmp, ended, known, faults>>

Unauthorized(r, op) ==
  /\ At(r, "idle") /\ op # "create"
  /\ answer' = [answer EXCEPT ![r] = "auth"]
  /\ UNCHANGED <<alive, created, tokens, handler, owner, turn, tmp, ended, known, excused, faults>>

NoFile(r, op) ==
  /\ At(r, "idle") /\ op \in {"upload", "artifact_upload"}
  /\ answer' = [answer EXCEPT ![r] = "bad_request"]
  /\ UNCHANGED <<alive, created, tokens, handler, owner, turn, tmp, ended, known, excused, faults>>

(* A file operation failed: the file, if it was created, stays, for the     *)
(* handler returns without removing it.                                     *)
LeftBehind(r) == UNCHANGED <<tmp, excused>> \/ (tmp' = tmp \cup {r} /\ excused' = excused \cup {r})

WriteUpload(r) ==
  /\ At(r, "write")
  /\ \/ /\ tmp' = tmp \cup {r} /\ handler' = [handler EXCEPT ![r].at = "wait"] /\ Lock(r)
        /\ UNCHANGED <<answer, faults, excused>>
     \/ Fault /\ Answered(r, "internal") /\ LeftBehind(r)
  /\ UNCHANGED <<alive, created, tokens, ended, known>>

Holds(r) == At(r, "wait") /\ owner = {r}

(* get_token: without one nothing is sent. The engine itself goes by the    *)
(* ids in the message: an upload needs the session, another call may find   *)
(* or not find what it names.                                               *)
Refused(r) == handler[r].op \in WithToken /\ handler[r].sid \notin tokens
Uploads == {"upload", "artifact_upload"}
Replies(h) == IF h.op \in Uploads THEN {IF h.sid \in alive THEN "ok" ELSE "not_found"}
              ELSE IF h.op \in {"call", "download"} THEN {"ok", "not_found"} ELSE {"ok"}

Leave(r, place, failed) == handler' = [handler EXCEPT ![r].at = place, ![r].failed = failed]

(* An error is answered, by artifact_upload after it has removed its file.  *)
Failed(r, a) ==
  IF handler[r].op = "artifact_upload" THEN Leave(r, "remove", TRUE) /\ UNCHANGED <<owner, turn, answer>> ELSE Answered(r, a)

(* A call may also fail in the engine or on its way; for a download, after  *)
(* the engine has created the file.                                         *)
Call(r) ==
  /\ Holds(r)
  /\ LET h == handler[r]
     IN  \/ /\ Refused(r) /\ Failed(r, "auth") /\ UNCHANGED <<alive, created, tmp, excused, faults>>
         \/ /\ ~Refused(r) /\ "not_found" \in Replies(h) /\ Failed(r, "not_found") /\ UNCHANGED <<alive, created, tmp, excused, faults>>
         \/ /\ h.op = "create"
            /\ created' = created + 1 /\ alive' = alive \cup {created + 1}
            /\ handler' = [handler EXCEPT ![r].at = "insert", ![r].sid = created + 1]
            /\ UNCHANGED <<owner, turn, answer, tmp, excused, faults>>
         \/ /\ h.op = "destroy" /\ alive' = alive \ {h.sid} /\ Leave(r, "forget", FALSE)
            /\ UNCHANGED <<created, owner, turn, answer, tmp, excused, faults>>
         \/ /\ ~Refused(r) /\ h.op \in {"list", "call", "upload"} /\ "ok" \in Replies(h) /\ Answered(r, "ok")
            /\ UNCHANGED <<alive, created, tmp, excused, faults>>
         \/ /\ ~Refused(r) /\ h.op = "call_destroy"
            /\ \E s \in 1..created : alive' = alive \ {s}
            /\ Answered(r, "ok") /\ UNCHANGED <<created, tmp, excused, faults>>
         \/ /\ ~Refused(r) /\ h.op = "artifact_upload" /\ "ok" \in Replies(h) /\ Leave(r, "remove", FALSE)
            /\ UNCHANGED <<alive, created, owner, turn, answer, tmp, excused, faults>>
         \/ /\ ~Refused(r) /\ h.op = "download" /\ tmp' = tmp \cup {r} /\ Leave(r, "read", FALSE)
            /\ UNCHANGED <<alive, created, owner, turn, answer, excused, faults>>
         \/ /\ Fault /\ Failed(r, "internal") /\ UNCHANGED <<alive, created>>
            /\ IF h.op = "download" THEN LeftBehind(r) ELSE UNCHANGED <<tmp, excused>>
  /\ UNCHANGED <<tokens, ended, known>>

InsertToken(r) ==
  /\ At(r, "insert")
  /\ tokens' = tokens \cup {handler[r].sid}
  /\ Answered(r, "ok") /\ known' = known \cup {handler[r].sid}
  /\ UNCHANGED <<alive, created, tmp, ended, excused, faults>>

(* Mutant: the token stays. *)
Forget_keeps(r) ==
  /\ At(r, "forget") /\ Answered(r, "ok") /\ ended' = ended \cup {handler[r].sid}
  /\ UNCHANGED <<alive, created, tokens, tmp, known, excused, faults>>

ForgetToken(r) ==
  /\ At(r, "forget")
  /\ tokens' = tokens \ {handler[r].sid} /\ Answered(r, "ok") /\ ended' = ended \cup {handler[r].sid}
  /\ UNCHANGED <<alive, created, tmp, known, excused, faults>>

ReadDownload(r) ==
  /\ At(r, "read")
  /\ \/ Leave(r, "remove", FALSE) /\ UNCHANGED <<owner, turn, answer, excused, faults>>
     \/ Fault /\ Answered(r, "internal") /\ excused' = excused \cup {r}
  /\ UNCHANGED <<alive, created, tokens, tmp, ended, known>>

(* Mutant: an error of the import is answered before the file is removed. *)
Remove_on_success(r) ==
  /\ At(r, "remove")
  /\ tmp' = IF handler[r].failed THEN tmp ELSE tmp \ {r}
  /\ Answered(r, IF handler[r].failed THEN "error" ELSE "ok")
  /\ UNCHANGED <<alive, created, tokens, ended, known, excused, faults>>

(* The file is removed before the outcome of the import is looked at; that  *)
(* it could not be removed changes nothing in the answer.                   *)
RemoveTmp(r) ==
  /\ At(r, "remove")
  /\ \/ tmp' = tmp \ {r} /\ UNCHANGED <<excused, faults>>
     \/ Fault /\ excused' = excused \cup {r} /\ UNCHANGED tmp
  /\ Answered(r, IF handler[r].failed THEN "error" ELSE "ok")
  /\ UNCHANGED <<alive, created, tokens, ended, known>>

(* The browser goes away: the handler is dropped where it awaits. The       *)
(* mutex is given up; nobody removes its file.                              *)
Dropped(r) ==
  /\ ~At(r, "idle") /\ Fault
  /\ handler' = [handler EXCEPT ![r] = Idle] /\ Unlock(r)
  /\ answer' = [answer EXCEPT ![r] = "none"] /\ excused' = excused \cup {r}
  /\ UNCHANGED <<alive, created, tokens, tmp, ended, known>>

(* The gateway process ends and serve starts again with an empty map. *)
GatewayRestart ==
  /\ Fault
  /\ tokens' = {} /\ known' = {} /\ owner' = {} /\ turn' = <<>>
  /\ handler' = [r \in Requests |-> Idle] /\ answer' = [r \in Requests |-> "none"]
  /\ excused' = excused \cup {r \in Requests : ~At(r, "idle")}
  /\ UNCHANGED <<alive, created, tmp, ended>>

(* The engine's GC ends a session that nobody used. *)
Expire == \E s \in alive : Fault /\ alive' = alive \ {s} /\ UNCHANGED <<created, tokens, handler, owner, turn, tmp, ended, known, excused, answer>>

HandlerStep(r) == WriteUpload(r) \/ Call(r) \/ InsertToken(r) \/ ForgetToken(r) \/ ReadDownload(r) \/ RemoveTmp(r)

GWInit ==
  /\ alive = {} /\ created = 0 /\ tokens = {} /\ owner = {} /\ turn = <<>> /\ tmp = {} /\ ended = {} /\ known = {} /\ excused = {} /\ faults = 0
  /\ handler = [r \in Requests |-> Idle] /\ answer = [r \in Requests |-> "none"]

GWNext ==
  \/ \E r \in Requests :
       \/ Arrive(r, "create", NoCookie)
       \/ \E op \in Routes \ {"create"}, sid \in 1..created : Arrive(r, op, sid)
       \/ \E op \in Routes : Unauthorized(r, op) \/ NoFile(r, op)
       \/ HandlerStep(r) \/ Dropped(r)
  \/ GatewayRestart \/ Expire

GWFairness == \A r \in Requests : WF_gwvars(HandlerStep(r))

GWSpec == GWInit /\ [][GWNext]_gwvars /\ GWFairness

(***************************************************************************)
(* Properties.                                                             *)
(***************************************************************************)
(* A cookie the gateway handed out works as long as the engine keeps the   *)
(* session: whatever fails or is dropped, the token goes only with the     *)
(* session (or the gateway process).                                       *)
CookieWorks == \A s \in known \cap alive : s \in tokens

(* Once a DELETE is answered the gateway has no token for that session and  *)
(* never gets one again, whatever a create, another destroy or a dropped    *)
(* handler did in between.                                                  *)
DestroyedIsForgotten == ended \cap tokens = {}

(* The gateway has a token for a session from the answer to its creation   *)
(* until the session ends, and not a moment longer for one it ended itself. *)
TokensFollowSessions == CookieWorks /\ DestroyedIsForgotten

(* A request that was answered leaves no file under /tmp, whatever the      *)
(* engine answered: an upload that is refused for want of a token, finds    *)
(* its session gone or fails in the engine removes its file like one that   *)
(* succeeds. Only a handler that was dropped, a file operation that failed  *)
(* and a download whose call failed may leave one (nobody retries).         *)
TmpFilesGo == \A r \in tmp : At(r, "idle") => r \in excused

(* Every request is answered or dropped: the mutex is given up on every     *)
(* path, and whoever waits for it gets it in turn.                          *)
RequestsEnd == \A r \in Requests : ~At(r, "idle") ~> At(r, "idle")
==============================================================================
