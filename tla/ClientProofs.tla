---------------------------- MODULE ClientProofs ----------------------------
(* The gateway, the state file of the command line client and the import of *)
(* form packages, for any number of requests, commands and imports running  *)
(* at once, any number of sessions, images and faults, and kills at any     *)
(* point: GInv, CliInv and FPInv are inductive, and from them follow that a *)
(* cookie keeps working and the files under /tmp go away, StateFileSound    *)
(* and ImportsForeseen.                                                     *)
EXTENDS Gateway, CliState, FormPackage, FiniteSetTheorems, WellFoundedInduction, TLAPS

(***************************************************************************)
(* The gateway: tokens and files under /tmp.                               *)
(***************************************************************************)
Places == {"idle", "write", "wait", "insert", "forget", "read", "remove"}
Handlers == [at : Places, op : Routes \cup {"none"}, sid : Nat, failed : BOOLEAN]

(* Ids are those of sessions the engine has created. *)
IdsIssued ==
  /\ created \in Nat
  /\ alive \subseteq 0..created /\ known \subseteq 0..created
  /\ \A r \in Requests : handler[r].sid \in 0..created

(* A token is about to be forgotten only after the engine ended its session, *)
(* and ids are not issued twice, so the session cannot be alive again.       *)
ForgottenIsDead == \A r \in Requests : At(r, "forget") => handler[r].sid \notin alive

(* Only an upload of an artifact writes a file before it waits.              *)
WritesUpload == \A r \in Requests : At(r, "write") => handler[r].op = "artifact_upload"

(* A file under /tmp belongs to a handler that has still to remove it, or    *)
(* that was dropped or for which a file operation or its call failed.        *)
TmpHasOwner ==
  /\ tmp \subseteq Requests
  /\ \A r \in tmp : \/ At(r, "idle") /\ r \in excused
                    \/ At(r, "wait") /\ handler[r].op = "artifact_upload"
                    \/ At(r, "read") \/ At(r, "remove")

GInv ==
  /\ handler \in [Requests -> Handlers]
  /\ IdsIssued /\ ForgottenIsDead /\ CookieWorks /\ WritesUpload /\ TmpHasOwner

(* The gateway starts with no session, no token and no request. *)
LEMMA InitLemma == GWInit => GInv
  BY DEF GWInit, GInv, IdsIssued, ForgottenIsDead, CookieWorks, WritesUpload, TmpHasOwner, Idle, NoCookie, At, Handlers, Places

(* What most steps do: one handler moves on, sessions only end, tokens stay. *)
LEMMA MoveLemma ==
  ASSUME GInv, NEW r \in Requests, NEW h \in Handlers,
         handler' = [handler EXCEPT ![r] = h], h.sid \in 0..created,
         h.at = "forget" => h.sid \notin alive', h.at = "write" => h.op = "artifact_upload",
         alive' \subseteq alive, created' = created, tokens' = tokens, known' = known
  PROVE  /\ handler' \in [Requests -> Handlers]
         /\ IdsIssued' /\ ForgottenIsDead' /\ CookieWorks' /\ WritesUpload'
  <1>1. handler' \in [Requests -> Handlers]
    BY DEF GInv
  <1>2. IdsIssued'
    BY DEF GInv, IdsIssued
  <1>3. ForgottenIsDead'
    BY DEF GInv, ForgottenIsDead, At
  <1>4. CookieWorks'
    BY DEF GInv, CookieWorks
  <1>5. WritesUpload'
    BY DEF GInv, WritesUpload, At
  <1> QED
    BY <1>1, <1>2, <1>3, <1>4, <1>5

(* A request that is not being handled is a handler with nothing in it. *)
LEMMA IdleLemma == Idle \in Handlers /\ Idle.at = "idle" /\ Idle.sid = 0
  BY DEF Idle, Handlers, Places, NoCookie

(* A handler that answers gives its place up; its file must be gone by then, *)
(* or its loss excused.                                                      *)
LEMMA AnsweredLemma ==
  ASSUME GInv, NEW r \in Requests,
         handler' = [handler EXCEPT ![r] = Idle],
         alive' \subseteq alive, created' = created, tokens' = tokens, known' = known,
         tmp' \subseteq tmp \cup {r}, excused \subseteq excused', r \in tmp' => r \in excused'
  PROVE  GInv'
  <1>1. /\ handler' \in [Requests -> Handlers]
        /\ IdsIssued' /\ ForgottenIsDead' /\ CookieWorks' /\ WritesUpload'
    <2>1. Idle.sid \in 0..created
      BY IdleLemma DEF GInv, IdsIssued
    <2> QED
      BY <2>1, IdleLemma, MoveLemma
  <1>2. TmpHasOwner'
    BY IdleLemma DEF GInv, TmpHasOwner, At
  <1> QED
    BY <1>1, <1>2 DEF GInv

(* A handler that goes to another place keeps its request. *)
LEMMA LeaveLemma ==
  ASSUME GInv, NEW r \in Requests, NEW place \in Places \ {"write"}, NEW failed \in BOOLEAN, Leave(r, place, failed),
         place = "forget" => handler[r].sid \notin alive',
         alive' \subseteq alive, created' = created, tokens' = tokens, known' = known, excused' = excused,
         tmp' \subseteq tmp \cup {r}, r \in tmp' => place \in {"read", "remove"}
  PROVE  GInv'
  <1> DEFINE h == [handler[r] EXCEPT !.at = place, !.failed = failed]
  <1>1. /\ handler' = [handler EXCEPT ![r] = h]
        /\ h \in Handlers /\ h.sid = handler[r].sid /\ h.at = place
    BY DEF GInv, Handlers, Leave
  <1>2. /\ handler' \in [Requests -> Handlers]
        /\ IdsIssued' /\ ForgottenIsDead' /\ CookieWorks' /\ WritesUpload'
    <2> HIDE DEF h
    <2> QED BY <1>1, MoveLemma DEF GInv, IdsIssued
  <1>3. TmpHasOwner'
    <2> HIDE DEF h
    <2> QED BY <1>1 DEF GInv, TmpHasOwner, At
  <1> QED
    BY <1>2, <1>3 DEF GInv

(* A request arrives: nothing is known of it yet. *)
LEMMA ArriveLemma ==
  ASSUME GInv, NEW r \in Requests, NEW op \in Routes, NEW sid \in 0..created, Arrive(r, op, sid)
  PROVE  GInv'
  <1> DEFINE h == [at |-> IF op = "artifact_upload" THEN "write" ELSE "wait", op |-> op, sid |-> sid, failed |-> FALSE]
  <1>1. /\ h \in Handlers /\ h.sid \in 0..created /\ h.at # "forget"
        /\ (h.at = "write" => h.op = "artifact_upload")
    BY DEF GInv, IdsIssued, Handlers, Places
  <1>2. /\ handler' \in [Requests -> Handlers]
        /\ IdsIssued' /\ ForgottenIsDead' /\ CookieWorks' /\ WritesUpload'
    BY <1>1, MoveLemma DEF Arrive
  <1>3. TmpHasOwner'
    BY DEF GInv, TmpHasOwner, At, Arrive
  <1> QED
    BY <1>2, <1>3 DEF GInv

(* The body of an upload is written before the client mutex is taken. *)
LEMMA WriteUploadLemma ==
  ASSUME GInv, NEW r \in Requests, WriteUpload(r)
  PROVE  GInv'
  <1>1. CASE tmp' = tmp \cup {r} /\ handler' = [handler EXCEPT ![r].at = "wait"] /\ UNCHANGED excused
    <2> DEFINE h == [handler[r] EXCEPT !.at = "wait"]
    <2>1. /\ handler' = [handler EXCEPT ![r] = h]
          /\ h \in Handlers /\ h.sid = handler[r].sid /\ h.at = "wait" /\ h.op = handler[r].op
      BY <1>1 DEF GInv, Handlers, Places
    <2>2. /\ handler' \in [Requests -> Handlers]
          /\ IdsIssued' /\ ForgottenIsDead' /\ CookieWorks' /\ WritesUpload'
      <3> HIDE DEF h
      <3> QED BY <2>1, MoveLemma DEF GInv, IdsIssued, WriteUpload
    <2>3. TmpHasOwner'
      <3> HIDE DEF h
      <3> QED BY <1>1, <2>1 DEF GInv, TmpHasOwner, WritesUpload, At, WriteUpload
    <2> QED
      BY <2>2, <2>3 DEF GInv
  <1>2. CASE Answered(r, "internal") /\ LeftBehind(r)
    <2>1. r \notin tmp
      BY DEF GInv, TmpHasOwner, At, WriteUpload
    <2>2. tmp' \subseteq tmp \cup {r} /\ excused \subseteq excused' /\ (r \in tmp' => r \in excused')
      BY <1>2, <2>1 DEF LeftBehind
    <2> QED
      BY <1>2, <2>2, AnsweredLemma DEF WriteUpload, Answered
  <1> QED
    BY <1>1, <1>2 DEF WriteUpload

(* What a call does when it is refused or fails: artifact_upload goes on to  *)
(* remove its file, the others have none.                                    *)
LEMMA FailedLemma ==
  ASSUME GInv, NEW r \in Requests, At(r, "wait"), NEW a, Failed(r, a),
         UNCHANGED <<alive, created, tokens, tmp, known, excused>>
  PROVE  GInv'
  <1>1. CASE handler[r].op = "artifact_upload"
    BY <1>1, LeaveLemma DEF Failed, Places
  <1>2. CASE handler[r].op # "artifact_upload"
    <2>1. r \notin tmp
      BY <1>2 DEF GInv, TmpHasOwner, At
    <2> QED
      BY <1>2, <2>1, AnsweredLemma DEF Failed, Answered
  <1> QED
    BY <1>1, <1>2

(* The engine creates a session: its id is new, so no token of it is about   *)
(* to be forgotten, and no cookie of it is out.                              *)
LEMMA CreateLemma ==
  ASSUME GInv, NEW r \in Requests, At(r, "wait"), handler[r].op = "create",
         created' = created + 1, alive' = alive \cup {created + 1},
         handler' = [handler EXCEPT ![r].at = "insert", ![r].sid = created + 1],
         UNCHANGED <<tokens, tmp, known, excused>>
  PROVE  GInv'
  <1>1. created \in Nat /\ created + 1 \in Nat /\ created + 1 \notin 0..created /\ 0..created \subseteq 0..(created + 1)
    BY DEF GInv, IdsIssued
  <1>2. handler' \in [Requests -> Handlers]
    BY <1>1 DEF GInv, Handlers, Places
  <1>3. /\ handler'[r].at = "insert" /\ handler'[r].sid = created + 1
        /\ \A x \in Requests \ {r} : handler'[x] = handler[x]
    BY DEF GInv, Handlers
  <1>4. IdsIssued'
    BY <1>1, <1>3 DEF GInv, IdsIssued
  <1>5. ForgottenIsDead'
    BY <1>1, <1>3 DEF GInv, IdsIssued, ForgottenIsDead, At
  <1>6. CookieWorks'
    BY <1>1 DEF GInv, IdsIssued, CookieWorks
  <1>7. WritesUpload'
    BY <1>3 DEF GInv, WritesUpload, At
  <1>8. TmpHasOwner'
    BY <1>3 DEF GInv, TmpHasOwner, At
  <1> QED
    BY <1>2, <1>4, <1>5, <1>6, <1>7, <1>8 DEF GInv

(* The call to the engine: each answer moves the handler on. *)
LEMMA CallLemma ==
  ASSUME GInv, NEW r \in Requests, Call(r)
  PROVE  GInv'
  <1> DEFINE h == handler[r]
  <1>1. At(r, "wait") /\ UNCHANGED <<tokens, ended, known>>
    BY DEF Call, Holds
  <1>2. h.op # "artifact_upload" => r \notin tmp
    BY <1>1 DEF GInv, TmpHasOwner, At
  <1>3. CASE \E a \in {"auth", "not_found", "internal"} : Failed(r, a) /\ UNCHANGED <<alive, created, tmp, excused>>
    BY <1>1, <1>3, FailedLemma
  <1>4. CASE /\ h.op = "create"
             /\ created' = created + 1 /\ alive' = alive \cup {created + 1}
             /\ handler' = [handler EXCEPT ![r].at = "insert", ![r].sid = created + 1]
             /\ UNCHANGED <<tmp, excused>>
    BY <1>1, <1>4, CreateLemma
  <1>5. CASE h.op = "destroy" /\ alive' = alive \ {h.sid} /\ Leave(r, "forget", FALSE) /\ UNCHANGED <<created, tmp, excused>>
    BY <1>1, <1>2, <1>5, LeaveLemma DEF Places
  <1>6. CASE h.op \in {"list", "call", "upload"} /\ Answered(r, "ok") /\ UNCHANGED <<alive, created, tmp, excused>>
    BY <1>1, <1>2, <1>6, AnsweredLemma DEF Answered
  <1>7. CASE /\ h.op = "call_destroy" /\ \E s \in 1..created : alive' = alive \ {s}
             /\ Answered(r, "ok") /\ UNCHANGED <<created, tmp, excused>>
    BY <1>1, <1>2, <1>7, AnsweredLemma DEF Answered
  <1>8. CASE h.op = "artifact_upload" /\ Leave(r, "remove", FALSE) /\ UNCHANGED <<alive, created, tmp, excused>>
    BY <1>1, <1>8, LeaveLemma DEF Places
  <1>9. CASE h.op = "download" /\ tmp' = tmp \cup {r} /\ Leave(r, "read", FALSE) /\ UNCHANGED <<alive, created, excused>>
    BY <1>1, <1>9, LeaveLemma DEF Places
  <1>10. CASE h.op = "download" /\ Failed(r, "internal") /\ LeftBehind(r) /\ UNCHANGED <<alive, created>>
    <2>1. tmp' \subseteq tmp \cup {r} /\ excused \subseteq excused' /\ (r \in tmp' => r \in excused')
      BY <1>2, <1>10 DEF LeftBehind
    <2> QED
      BY <1>1, <1>10, <2>1, AnsweredLemma DEF Failed, Answered
  <1> QED
    BY <1>10, <1>3, <1>4, <1>5, <1>6, <1>7, <1>8, <1>9 DEF Call

(* The token is stored, with the mutex held since the call. *)
LEMMA InsertTokenLemma ==
  ASSUME GInv, NEW r \in Requests, InsertToken(r)
  PROVE  GInv'
  <1>1. /\ At(r, "insert") /\ handler' = [handler EXCEPT ![r] = Idle] /\ UNCHANGED <<alive, created, tmp, excused>>
        /\ tokens' = tokens \cup {handler[r].sid} /\ known' = known \cup {handler[r].sid}
    BY DEF InsertToken, Answered
  <1>2. created \in Nat /\ handler[r].sid \in 0..created /\ 0 \in 0..created
    BY DEF GInv, IdsIssued
  <1>3. handler' \in [Requests -> Handlers]
    BY <1>1, IdleLemma DEF GInv
  <1>4. handler'[r] = Idle /\ \A x \in Requests \ {r} : handler'[x] = handler[x]
    BY <1>1 DEF GInv
  <1>5. IdsIssued'
    BY <1>1, <1>2, <1>4, IdleLemma DEF GInv, IdsIssued
  <1>6. ForgottenIsDead' /\ WritesUpload'
    BY <1>1, <1>4, IdleLemma DEF GInv, ForgottenIsDead, WritesUpload, At
  <1>7. CookieWorks'
    BY <1>1 DEF GInv, CookieWorks
  <1>8. TmpHasOwner'
    BY <1>1, <1>4, IdleLemma DEF GInv, TmpHasOwner, At
  <1> QED
    BY <1>3, <1>5, <1>6, <1>7, <1>8 DEF GInv

(* The engine has ended the session by the time its token is forgotten. *)
LEMMA ForgetTokenLemma ==
  ASSUME GInv, NEW r \in Requests, ForgetToken(r)
  PROVE  GInv'
  <1>1. /\ At(r, "forget") /\ handler' = [handler EXCEPT ![r] = Idle] /\ UNCHANGED <<alive, created, tmp, known, excused>>
        /\ tokens' = tokens \ {handler[r].sid}
    BY DEF ForgetToken, Answered
  <1>2. created \in Nat /\ 0 \in 0..created
    BY DEF GInv, IdsIssued
  <1>3. handler' \in [Requests -> Handlers]
    BY <1>1, IdleLemma DEF GInv
  <1>4. handler'[r] = Idle /\ \A x \in Requests \ {r} : handler'[x] = handler[x]
    BY <1>1 DEF GInv
  <1>5. IdsIssued'
    BY <1>1, <1>2, <1>4, IdleLemma DEF GInv, IdsIssued
  <1>6. ForgottenIsDead' /\ WritesUpload'
    BY <1>1, <1>4, IdleLemma DEF GInv, ForgottenIsDead, WritesUpload, At
  <1>7. CookieWorks'
    BY <1>1 DEF GInv, ForgottenIsDead, CookieWorks
  <1>8. TmpHasOwner'
    BY <1>1, <1>4, IdleLemma DEF GInv, TmpHasOwner, At
  <1> QED
    BY <1>3, <1>5, <1>6, <1>7, <1>8 DEF GInv

(* Reading and removing the file touches no session and no token. *)
LEMMA FileStepsLemma ==
  ASSUME GInv, NEW r \in Requests, ReadDownload(r) \/ RemoveTmp(r)
  PROVE  GInv'
  <1>1. CASE ReadDownload(r)
    <2>1. CASE Leave(r, "remove", FALSE) /\ UNCHANGED excused
      BY <1>1, <2>1, LeaveLemma DEF ReadDownload, Places, GInv, TmpHasOwner
    <2>2. CASE Answered(r, "internal") /\ excused' = excused \cup {r}
      BY <1>1, <2>2, AnsweredLemma DEF ReadDownload, Answered
    <2> QED
      BY <1>1, <2>1, <2>2 DEF ReadDownload
  <1>2. CASE RemoveTmp(r)
    BY <1>2, AnsweredLemma DEF RemoveTmp, Answered
  <1> QED
    BY <1>1, <1>2

(* Faults: a dropped handler, a restarted gateway, a session the GC ended.   *)
LEMMA FaultsLemma ==
  ASSUME GInv, GatewayRestart \/ Expire \/ \E r \in Requests : Dropped(r)
  PROVE  GInv'
  <1>1. CASE \E r \in Requests : Dropped(r)
    BY <1>1, AnsweredLemma DEF Dropped
  <1>2. CASE GatewayRestart
    <2>1. /\ handler' = [r \in Requests |-> Idle] /\ UNCHANGED <<alive, created, tmp>> /\ tokens' = {} /\ known' = {}
          /\ excused' = excused \cup {r \in Requests : ~At(r, "idle")}
      BY <1>2 DEF GatewayRestart
    <2>2. created \in Nat /\ 0 \in 0..created
      BY DEF GInv, IdsIssued
    <2>3. handler' \in [Requests -> Handlers]
      BY <2>1, IdleLemma
    <2>4. IdsIssued' /\ ForgottenIsDead' /\ CookieWorks' /\ WritesUpload'
      BY <2>1, <2>2, IdleLemma DEF GInv, IdsIssued, ForgottenIsDead, CookieWorks, WritesUpload, At
    <2>5. TmpHasOwner'
      BY <2>1, IdleLemma DEF GInv, TmpHasOwner, At
    <2> QED
      BY <2>3, <2>4, <2>5 DEF GInv
  <1>3. CASE Expire
    BY <1>3 DEF Expire, GInv, IdsIssued, ForgottenIsDead, CookieWorks, WritesUpload, TmpHasOwner, At
  <1> QED
    BY <1>1, <1>2, <1>3

(* GInv is inductive. *)
LEMMA StepLemma == GInv /\ [GWNext]_gwvars => GInv'
  <1> SUFFICES ASSUME GInv, [GWNext]_gwvars PROVE GInv'
    OBVIOUS
  <1>1. created \in Nat /\ 0 \in 0..created /\ 1..created \subseteq 0..created
    BY DEF GInv, IdsIssued
  <1>2. CASE \E r \in Requests : Arrive(r, "create", NoCookie)
    BY <1>1, <1>2, ArriveLemma DEF Routes, NoCookie
  <1>3. CASE \E r \in Requests, op \in Routes \ {"create"}, sid \in 1..created : Arrive(r, op, sid)
    BY <1>1, <1>3, ArriveLemma
  <1>4. CASE UNCHANGED <<alive, created, tokens, handler, tmp, known, excused>>
    BY <1>4 DEF GInv, IdsIssued, ForgottenIsDead, CookieWorks, WritesUpload, TmpHasOwner, At
  <1>5. CASE \E r \in Requests, op \in Routes : Unauthorized(r, op) \/ NoFile(r, op)
    BY <1>4, <1>5 DEF Unauthorized, NoFile
  <1>6. CASE \E r \in Requests : HandlerStep(r)
    BY <1>6, WriteUploadLemma, CallLemma, InsertTokenLemma, ForgetTokenLemma, FileStepsLemma DEF HandlerStep
  <1>7. CASE GatewayRestart \/ Expire \/ \E r \in Requests : Dropped(r)
    BY <1>7, FaultsLemma
  <1> QED
    BY <1>2, <1>3, <1>4, <1>5, <1>6, <1>7 DEF GWNext, gwvars

(* The inductive invariant of the gateway: ids, tokens and files stay in the *)
(* order its handlers need, whatever is dropped, fails or restarts.          *)
THEOREM GatewayInvariant == GWSpec => []GInv
  BY InitLemma, StepLemma, PTL DEF GWSpec

-----------------------------------------------------------------------------
(* A token that was forgotten stays forgotten. That takes the client mutex:  *)
(* without it a destroy could be answered between the engine's answer to a   *)
(* create and the insertion of the token.                                    *)

(* Only the owner of the mutex is about to insert or to forget a token.      *)
MapBehindMutex == \A r \in Requests : At(r, "insert") \/ At(r, "forget") => owner = {r}

(* A token that is about to be inserted is of a session nobody has ended.    *)
InsertsFresh == \A r \in Requests : At(r, "insert") => handler[r].sid \notin ended

FInv == ended \subseteq 0..created /\ MapBehindMutex /\ InsertsFresh /\ DestroyedIsForgotten

(* At the start nothing was destroyed and no handler is at the session map. *)
LEMMA FInitLemma == GWInit => FInv
  BY DEF GWInit, FInv, MapBehindMutex, InsertsFresh, DestroyedIsForgotten, At, Idle

(* A handler that takes, keeps or gives up its place at the mutex without    *)
(* touching the map leaves whoever touches it the owner.                     *)
LEMMA PassLemma ==
  ASSUME GInv, FInv, NEW r \in Requests, NEW h, handler' = [handler EXCEPT ![r] = h],
         h.at # "insert", h.at # "forget", Lock(r) \/ Unlock(r) \/ Lockless,
         UNCHANGED <<tokens, ended, created>>
  PROVE  FInv'
  <1>1. handler'[r] = h /\ \A x \in Requests \ {r} : handler'[x] = handler[x]
    BY DEF GInv
  <1>2. MapBehindMutex'
    <2> SUFFICES ASSUME NEW x \in Requests, At(x, "insert")' \/ At(x, "forget")'
                 PROVE  owner' = {x}
      BY DEF MapBehindMutex
    <2>1. x # r /\ owner = {x}
      BY <1>1 DEF FInv, MapBehindMutex, At
    <2> QED
      BY <2>1 DEF Lock, Unlock, Lockless
  <1>3. InsertsFresh'
    BY <1>1 DEF FInv, InsertsFresh, At
  <1> QED
    BY <1>2, <1>3 DEF FInv, DestroyedIsForgotten

(* A handler that leaves for another place is not at the session map. *)
LEMMA PlacesLemma ==
  ASSUME GInv, NEW r \in Requests, NEW place \in Places \ {"insert", "forget"}, NEW failed, Leave(r, place, failed)
  PROVE  \E h : handler' = [handler EXCEPT ![r] = h] /\ h.at # "insert" /\ h.at # "forget"
  <1> DEFINE h == [handler[r] EXCEPT !.at = place, !.failed = failed]
  <1>1. handler' = [handler EXCEPT ![r] = h] /\ h.at = place
    BY DEF GInv, Handlers, Leave
  <1> HIDE DEF h
  <1> QED
    BY <1>1

(* A step that does not bring its handler to the session map keeps FInv. *)
LEMMA FPassLemma ==
  ASSUME GInv, FInv, NEW r \in Requests, UNCHANGED <<tokens, ended, created>>,
         \/ \E a : Answered(r, a)
         \/ \E a : Failed(r, a)
         \/ \E place \in Places \ {"insert", "forget"}, failed \in BOOLEAN : Leave(r, place, failed) /\ UNCHANGED <<owner, turn>>
  PROVE  FInv'
  <1>1. CASE \E a : Answered(r, a)
    BY <1>1, PassLemma, IdleLemma DEF Answered
  <1>2. CASE \E place \in Places \ {"insert", "forget"}, failed \in BOOLEAN : Leave(r, place, failed) /\ UNCHANGED <<owner, turn>>
    BY <1>2, PassLemma, PlacesLemma DEF Lockless
  <1>3. CASE \E a : Failed(r, a)
    <2>1. CASE handler[r].op = "artifact_upload"
      BY <1>2, <1>3, <2>1 DEF Failed, Places
    <2>2. CASE handler[r].op # "artifact_upload"
      BY <1>1, <1>3, <2>2 DEF Failed
    <2> QED
      BY <2>1, <2>2
  <1> QED
    BY <1>1, <1>2, <1>3

(* The steps of a request in front of the call. *)
LEMMA FFrontLemma ==
  ASSUME GInv, FInv, NEW r \in Requests,
         (\E op, sid : Arrive(r, op, sid)) \/ WriteUpload(r)
  PROVE  FInv'
  <1>1. CASE \E op, sid : Arrive(r, op, sid)
    <2>1. PICK op, sid : Arrive(r, op, sid)
      BY <1>1
    <2> DEFINE h == [at |-> IF op = "artifact_upload" THEN "write" ELSE "wait", op |-> op, sid |-> sid, failed |-> FALSE]
    <2>2. h.at # "insert" /\ h.at # "forget"
      OBVIOUS
    <2>3. handler' = [handler EXCEPT ![r] = h] /\ (Lock(r) \/ Lockless) /\ UNCHANGED <<tokens, ended, created>>
      BY <2>1 DEF Arrive
    <2> HIDE DEF h
    <2> QED
      BY <2>2, <2>3, PassLemma
  <1>2. CASE WriteUpload(r)
    <2>1. CASE handler' = [handler EXCEPT ![r].at = "wait"] /\ Lock(r)
      <3> DEFINE h == [handler[r] EXCEPT !.at = "wait"]
      <3>1. handler' = [handler EXCEPT ![r] = h] /\ h.at = "wait"
        BY <2>1 DEF GInv, Handlers
      <3> HIDE DEF h
      <3> QED
        BY <1>2, <2>1, <3>1, PassLemma DEF WriteUpload
    <2>2. CASE Answered(r, "internal")
      BY <1>2, <2>2, FPassLemma DEF WriteUpload
    <2> QED
      BY <1>2, <2>1, <2>2 DEF WriteUpload
  <1> QED
    BY <1>1, <1>2

(* The engine answers: the owner of the mutex goes on to the map, with an id *)
(* that is new if it creates.                                                *)
LEMMA FCallLemma ==
  ASSUME GInv, FInv, NEW r \in Requests, Call(r)
  PROVE  FInv'
  <1>1. owner = {r} /\ UNCHANGED <<tokens, ended>>
    BY DEF Call, Holds
  <1>2. CASE /\ created' = created + 1 /\ UNCHANGED owner
             /\ handler' = [handler EXCEPT ![r].at = "insert", ![r].sid = created + 1]
    <2>1. created \in Nat /\ created + 1 \notin 0..created /\ 0..created \subseteq 0..(created + 1)
      BY DEF GInv, IdsIssued
    <2>2. /\ handler'[r].at = "insert" /\ handler'[r].sid = created + 1
          /\ \A x \in Requests \ {r} : handler'[x] = handler[x]
      BY <1>2 DEF GInv, Handlers
    <2>3. MapBehindMutex'
      BY <1>1, <1>2, <2>2 DEF FInv, MapBehindMutex, At
    <2>4. created + 1 \notin ended
      BY <2>1 DEF FInv
    <2>5. InsertsFresh'
      BY <1>1, <2>2, <2>4 DEF FInv, InsertsFresh, At
    <2> QED
      BY <1>1, <1>2, <2>1, <2>3, <2>5 DEF FInv, DestroyedIsForgotten
  <1>3. CASE Leave(r, "forget", FALSE) /\ UNCHANGED <<created, owner>>
    <2>1. /\ handler'[r].at = "forget"
          /\ \A x \in Requests \ {r} : handler'[x] = handler[x]
      BY <1>3 DEF GInv, Handlers, Leave
    <2>2. MapBehindMutex' /\ InsertsFresh'
      BY <1>1, <1>3, <2>1 DEF FInv, MapBehindMutex, InsertsFresh, At
    <2> QED
      BY <1>1, <1>3, <2>2 DEF FInv, DestroyedIsForgotten
  <1>4. CASE /\ UNCHANGED created
             /\ \/ \E a : Answered(r, a)
                \/ \E a : Failed(r, a)
                \/ \E place \in {"remove", "read"} : Leave(r, place, FALSE) /\ UNCHANGED <<owner, turn>>
    BY <1>1, <1>4, FPassLemma DEF Places
  <1> QED
    BY <1>2, <1>3, <1>4 DEF Call

(* The owner of the mutex is alone at the map, so a token that is forgotten  *)
(* is not being inserted by another handler.                                 *)
LEMMA FMapLemma ==
  ASSUME GInv, FInv, NEW r \in Requests, InsertToken(r) \/ ForgetToken(r)
  PROVE  FInv'
  <1>1. /\ handler' = [handler EXCEPT ![r] = Idle] /\ UNCHANGED created
        /\ At(r, "insert") \/ At(r, "forget")
    BY DEF InsertToken, ForgetToken, Answered
  <1>2. /\ handler'[r] = Idle /\ \A x \in Requests \ {r} : handler'[x] = handler[x]
        /\ handler[r].sid \in 0..created
    BY <1>1 DEF GInv, IdsIssued
  <1>3. \A x \in Requests : ~At(x, "insert")' /\ ~At(x, "forget")'
    BY <1>1, <1>2, IdleLemma DEF FInv, MapBehindMutex, At
  <1>4. MapBehindMutex' /\ InsertsFresh'
    BY <1>3 DEF MapBehindMutex, InsertsFresh
  <1>5. (ended \subseteq 0..created)' /\ DestroyedIsForgotten'
    <2>1. CASE InsertToken(r)
      BY <1>1, <2>1 DEF InsertToken, FInv, InsertsFresh, DestroyedIsForgotten
    <2>2. CASE ForgetToken(r)
      BY <1>1, <1>2, <2>2 DEF ForgetToken, FInv, DestroyedIsForgotten
    <2> QED
      BY <2>1, <2>2
  <1> QED
    BY <1>4, <1>5 DEF FInv

(* FInv is inductive. *)
LEMMA FStepLemma == GInv /\ FInv /\ [GWNext]_gwvars => FInv'
  <1> SUFFICES ASSUME GInv, FInv, [GWNext]_gwvars PROVE FInv'
    OBVIOUS
  <1>1. CASE \E r \in Requests : (\E op, sid : Arrive(r, op, sid)) \/ WriteUpload(r)
    BY <1>1, FFrontLemma
  <1>2. CASE \E r \in Requests : Call(r)
    BY <1>2, FCallLemma
  <1>3. CASE \E r \in Requests : InsertToken(r) \/ ForgetToken(r)
    BY <1>3, FMapLemma
  <1>4. CASE \E r \in Requests : ReadDownload(r) \/ RemoveTmp(r)
    BY <1>4, FPassLemma DEF ReadDownload, RemoveTmp, Places
  <1>5. CASE \E r \in Requests : Dropped(r)
    BY <1>5, PassLemma, IdleLemma DEF Dropped
  <1>6. CASE GatewayRestart
    <2>1. /\ handler' = [r \in Requests |-> Idle] /\ UNCHANGED <<created, ended>> /\ tokens' = {}
      BY <1>6 DEF GatewayRestart
    <2> QED
      BY <2>1, IdleLemma DEF FInv, MapBehindMutex, InsertsFresh, DestroyedIsForgotten, At
  <1>7. CASE UNCHANGED <<created, tokens, handler, owner, ended>>
    BY <1>7 DEF FInv, MapBehindMutex, InsertsFresh, DestroyedIsForgotten, At
  <1>8. CASE Expire \/ \E r \in Requests, op \in Routes : Unauthorized(r, op) \/ NoFile(r, op)
    BY <1>7, <1>8 DEF Expire, Unauthorized, NoFile
  <1> QED
    BY <1>1, <1>2, <1>3, <1>4, <1>5, <1>6, <1>7, <1>8 DEF GWNext, HandlerStep, gwvars

(* TokensFollowSessions: the token of a cookie the gateway handed out goes   *)
(* only with the session (destroy forgets it after the engine's answer) or   *)
(* the process, and one that destroy has forgotten never comes back.         *)
THEOREM TokensTheorem == GWSpec => []TokensFollowSessions
  <1>1. GInv /\ FInv => TokensFollowSessions
    BY DEF GInv, FInv, TokensFollowSessions
  <1>2. GWSpec => []FInv
    BY FInitLemma, FStepLemma, GatewayInvariant, PTL DEF GWSpec
  <1> QED
    BY <1>1, <1>2, GatewayInvariant, PTL

(* TmpFilesGo: an answered artifact_upload, artifact_download or image_download *)
(* has left no file under /tmp, unless it was dropped, a write, read or      *)
(* removal of the file failed, or the call behind a download did.            *)
THEOREM TmpFilesTheorem == GWSpec => []TmpFilesGo
  <1>1. GInv => TmpFilesGo
    BY DEF GInv, TmpHasOwner, TmpFilesGo, At
  <1> QED
    BY <1>1, GatewayInvariant, PTL

(***************************************************************************)
(* The state file: files and kinds.                                        *)
(***************************************************************************)
(* There is always a file left to create: every process holds at most one,  *)
(* and the two names at most two.                                           *)
LEMMA FileLeft ==
  ASSUME NEW f \in [Procs -> Nodes \cup {0}], NEW s
  PROVE  \E n \in Nodes : n \notin {s, 0} \cup {f[p] : p \in Procs}
<1> DEFINE T == {f[p] : p \in Procs}
<1>1. IsFiniteSet(Procs) /\ Cardinality(Procs) \in Nat
  BY CliAssumption, FS_CardinalityType
<1>2. f \in Surjection(Procs, T)
  BY DEF Surjection
<1>3. IsFiniteSet(T) /\ Cardinality(T) <= Cardinality(Procs) /\ Cardinality(T) \in Nat
  BY <1>1, <1>2, FS_Surjection, FS_CardinalityType, Zenon
<1>4. IsFiniteSet(T \cup {s}) /\ Cardinality(T \cup {s}) <= Cardinality(Procs) + 1
  <2>1. Cardinality(T \cup {s}) = IF s \in T THEN Cardinality(T) ELSE Cardinality(T) + 1
    BY <1>3, FS_AddElement
  <2>2. IsFiniteSet(T \cup {s})
    BY <1>3, FS_AddElement
  <2> HIDE DEF T
  <2> QED  BY <1>1, <1>3, <2>1, <2>2
<1>5. IsFiniteSet(Nodes) /\ Cardinality(Nodes) = Cardinality(Procs) + 2
  <2>1. /\ IsFiniteSet(1..(2 + Cardinality(Procs)))
        /\ Cardinality(1..(2 + Cardinality(Procs))) = IF 1 > 2 + Cardinality(Procs) THEN 0 ELSE 2 + Cardinality(Procs) - 1 + 1
    BY <1>1, FS_Interval
  <2> QED  BY <1>1, <2>1 DEF Nodes
<1>6. ~(Nodes \subseteq T \cup {s})
  <2> SUFFICES ASSUME Nodes \subseteq T \cup {s}  PROVE FALSE
    OBVIOUS
  <2>1. Cardinality(Nodes) <= Cardinality(T \cup {s})
    BY <1>4, FS_Subset, Zenon
  <2>2. Cardinality(T \cup {s}) \in Nat
    BY <1>4, FS_CardinalityType
  <2> HIDE DEF T
  <2> QED  BY <1>1, <1>4, <1>5, <2>1, <2>2
<1>7. 0 \notin Nodes
  BY <1>1 DEF Nodes
<1> QED  BY <1>6, <1>7

(* The kinds by name. *)
LEMMA KindsAre == Kinds = {"init", "plain", "destroy", "open", "switch", "close", "look", "list", "edit"}
BY DEF Kinds, Tables, SessionCommands, ImageCommands, NodeCommands, HiiFormCommands, HiiPackageCommands,
       HiiItemCommands, NvarCommands, TseCommands, ArtifactCommands
(***************************************************************************)
(* Steps that leave the files alone.                                       *)
(***************************************************************************)
ProcRec == [at : {"idle", "call", "write", "fill", "rename", "unlink"}, kind : Kinds \cup {"none"},
            st : States, img : 0..MaxImageIds, fd : Nodes \cup {0}]

(* Constants of the client are what they should be. *)
LEMMA Basics ==
  /\ 0 \notin Nodes /\ Nodes \subseteq Nat /\ Empty \notin States /\ NoState \in States /\ Quiet \in ProcRec
  /\ NoState.active = NoId /\ Quiet.st = NoState /\ Quiet.at = "idle" /\ Quiet.fd = 0
<1>1. Cardinality(Procs) \in Nat /\ MaxImageIds \in Nat
  BY CliAssumption, FS_CardinalityType
<1> QED  BY <1>1 DEF Nodes, Empty, States, NoState, Quiet, ProcRec, NoId

(* What a command reads is a state whose image is its session's. *)
LEMMA ContentSound ==
  ASSUME CliInv
  PROVE  Content \in States /\ Sound(Content)
BY Basics DEF CliInv, CliTypeOK, StatesSound, Sound, Content, NoId

EngineOK ==
  /\ esess \subseteq Nat \ {0} /\ eimg \in [1..MaxImageIds -> Nat] /\ live \subseteq 1..MaxImageIds
  /\ nsess \in Nat /\ nimg \in 0..MaxImageIds

(* The engine gives an id once, and an image stays its session's. *)
Grows == EngineOK' /\ nimg <= nimg' /\ \A i \in 1..nimg : eimg'[i] = eimg[i]

Ready(r) ==
  /\ r.kind \in {"look", "edit"} => r.img = r.st.active /\ r.img # NoId
  /\ r.kind \in {"open", "switch"} => r.st.session # NoId
  /\ r.kind = "switch" => r.img \in 1..nimg

(* A sound state stays sound while the engine grows. *)
LEMMA StaysSound ==
  ASSUME CliInv, Grows, NEW st \in States, Sound(st)
  PROVE  Sound(st)'
BY CliAssumption DEF CliInv, CliTypeOK, Grows, EngineOK, Sound, States

(* One process goes on, and is not among the writers. *)
LEMMA ProcessStep ==
  ASSUME CliInv, Grows, NEW p \in Procs, NEW r \in ProcRec, proc' = [proc EXCEPT ![p] = r],
         r.at \notin {"fill", "rename"}, Sound(r.st)', r.at = "call" => Ready(r)',
         UNCHANGED <<node, named, raced>>, kills' \in Nat
  PROVE  CliInv'
<1>1. CliTypeOK'
  BY DEF CliInv, CliTypeOK, Grows, EngineOK, ProcRec
<1>2. \A q \in Procs : proc[q] \in ProcRec /\ proc'[q] = IF q = p THEN r ELSE proc[q]
  BY DEF CliInv, CliTypeOK, ProcRec
<1>3. StatesSound'
  <2>1. ASSUME NEW q \in Procs PROVE Sound(proc[q].st)'
    <3>1. CASE q = p
      BY <3>1, <1>2 DEF Sound
    <3>2. CASE q # p
      <4>1. proc[q].st \in States /\ Sound(proc[q].st)
        BY <1>2 DEF ProcRec, CliInv, StatesSound
      <4>2. PICK st : st = proc[q].st  OBVIOUS
      <4>3. Sound(st)'
        BY <4>1, <4>2, StaysSound
      <4> QED  BY <4>2, <4>3, <3>2, <1>2 DEF Sound
    <3> QED  BY <3>1, <3>2
  <2>2. ASSUME NEW n \in Nodes, node'[n] # Empty PROVE Sound(node[n])'
    <3>1. node[n] \in States /\ Sound(node[n])
      BY <2>2 DEF CliInv, CliTypeOK, StatesSound
    <3>2. PICK st : st = node[n]  OBVIOUS
    <3>3. Sound(st)'
      BY <3>1, <3>2, StaysSound
    <3> QED  BY <3>2, <3>3 DEF Sound
  <2> QED  BY <2>1, <2>2 DEF StatesSound
<1>4. CallsReady'
  <2> SUFFICES ASSUME NEW q \in Procs, proc'[q].at = "call" PROVE Ready(proc[q])'
    BY DEF CallsReady, Ready
  <2>1. CASE q = p
    BY <2>1, <1>2 DEF Ready
  <2>2. CASE q # p
    <3>1. proc'[q] = proc[q] /\ nimg \in Nat /\ nimg' \in Nat /\ nimg <= nimg'
      BY <2>2, <1>2, CliAssumption DEF Grows, EngineOK, CliInv, CliTypeOK
    <3>2. Ready(proc[q])
      BY <3>1 DEF CliInv, CallsReady, Ready
    <3> QED  BY <3>1, <3>2 DEF Ready
  <2> QED  BY <2>1, <2>2
<1>5. WritersApart'
  BY <1>2 DEF CliInv, WritersApart, Writing
<1>6. StateFileWhole'
  BY DEF CliInv, StateFileWhole
<1> QED  BY <1>1, <1>3, <1>4, <1>5, <1>6 DEF CliInv

(* The engine does nothing. *)
LEMMA EngineStays ==
  ASSUME CliInv, UNCHANGED engine
  PROVE  Grows
BY CliAssumption DEF CliInv, CliTypeOK, engine, Grows, EngineOK

(* A process ends. *)
LEMMA EndsStep ==
  ASSUME CliInv, Grows, NEW p \in Procs, Ends(p), UNCHANGED <<node, named, raced>>, kills' \in Nat
  PROVE  CliInv'
<1>1. Sound(Quiet.st)' /\ Quiet.at = "idle" /\ Quiet \in ProcRec
  BY Basics DEF Sound
<1>2. PICK r : r = Quiet  OBVIOUS
<1> QED  BY <1>1, <1>2, ProcessStep DEF Ends, Sound

(* A process goes on to write a state. *)
LEMMA WritesStep ==
  ASSUME CliInv, Grows, NEW p \in Procs, NEW st \in States, Writes(p, st), Sound(st)',
         UNCHANGED <<node, named, raced>>, kills' \in Nat
  PROVE  CliInv'
<1>1. PICK r : r = [Quiet EXCEPT !.at = "write", !.st = st]  OBVIOUS
<1>2. r \in ProcRec /\ r.at = "write" /\ r.st = st
  BY <1>1, Basics DEF ProcRec, Quiet
<1> QED  BY <1>1, <1>2, ProcessStep DEF Writes, Sound
(***************************************************************************)
(* The actions.                                                            *)
(***************************************************************************)
(* A command reads the state and begins: it holds what Missing asks for. *)
LEMMA StartStep ==
  ASSUME CliInv, NEW p \in Procs, Commands(p)
  PROVE  CliInv'
<1>1. PICK kind \in Kinds, img \in 0..nimg, force \in BOOLEAN :
        /\ kind = "switch" => img # NoId
        /\ kind \notin {"switch", "close"} => img = NoId
        /\ Start(p, kind, img, force)
  BY DEF Commands
<1>2. PICK r : r = [at |-> "call", kind |-> kind, fd |-> 0, st |-> IF kind = "init" THEN NoState ELSE Content,
                    img |-> IF img = NoId THEN Content.active ELSE img]
  OBVIOUS
<1>3. proc' = [proc EXCEPT ![p] = r] /\ UNCHANGED <<node, named, raced>> /\ UNCHANGED engine /\ UNCHANGED kills
  BY <1>1, <1>2 DEF Start, SameFiles
<1>4. Content \in States /\ Sound(Content) /\ Sound(NoState)
  BY ContentSound, Basics DEF Sound
<1>5. Grows
  BY <1>3, EngineStays
<1>6. r \in ProcRec /\ r.at = "call"
  <2>1. img \in 0..MaxImageIds /\ Content.active \in 0..MaxImageIds /\ nimg \in 0..MaxImageIds
    BY <1>1, <1>4, CliAssumption DEF States, CliInv, CliTypeOK
  <2> QED  BY <1>2, <1>4, <2>1, Basics DEF ProcRec
<1>7. Sound(r.st)'
  <2>1. r.st \in States /\ Sound(r.st)
    BY <1>2, <1>4, Basics
  <2> QED  BY <2>1, <1>5, StaysSound
<1>8. Ready(r)
  <2>1. ~Missing(kind, img, Content)
    BY <1>1 DEF Start
  <2>2. kind = "switch" => img \in 1..nimg
    BY <1>1, CliAssumption DEF NoId, CliInv, CliTypeOK
  <2> QED  BY <1>1, <1>2, <2>1, <2>2 DEF Ready, Missing, NoId
<1>9. Ready(r)'
  BY <1>8, <1>3 DEF Ready, engine
<1>10. kills' \in Nat
  BY <1>3 DEF CliInv, CliTypeOK
<1>11. r.at \notin {"fill", "rename"}
  BY <1>6
<1> QED  BY <1>3, <1>5, <1>6, <1>7, <1>9, <1>10, <1>11, ProcessStep

(* The images of a session that goes stay with it. *)
LEMMA GoneGrows ==
  ASSUME CliInv, NEW s, SessionGone(s)
  PROVE  Grows
<1>1. EngineOK
  BY DEF CliInv, CliTypeOK, EngineOK
<1>2. UNCHANGED <<eimg, nsess, nimg>> /\ esess' = esess \ {s} /\ live' \subseteq live
  BY DEF SessionGone
<1>3. EngineOK'
  BY <1>1, <1>2 DEF EngineOK
<1> QED  BY <1>1, <1>2, <1>3, CliAssumption DEF Grows, EngineOK

(* A new session: the state that is written names no image. *)
LEMMA InitStep ==
  ASSUME CliInv, NEW p \in Procs, session_init(p), SameFiles, UNCHANGED kills
  PROVE  CliInv'
<1>1. PICK st : st = [session |-> nsess + 1, token |-> nsess + 1, active |-> NoId]  OBVIOUS
<1>2. st \in States /\ Sound(st)'
  BY <1>1, CliAssumption DEF States, Sound, NoId, CliInv, CliTypeOK
<1>3. Grows
  BY CliAssumption DEF CliInv, CliTypeOK, session_init, Grows, EngineOK
<1>4. Writes(p, st) /\ kills' \in Nat
  BY <1>1 DEF session_init, CliInv, CliTypeOK
<1> QED  BY <1>2, <1>3, <1>4, WritesStep DEF SameFiles

(* A session is destroyed: its process goes on to remove the state file. *)
LEMMA DestroyStep ==
  ASSUME CliInv, NEW p \in Procs, session_destroy(p), SameFiles, UNCHANGED kills
  PROVE  CliInv'
<1>1. PICK r : r = [Quiet EXCEPT !.at = "unlink"]  OBVIOUS
<1>2. r \in ProcRec /\ r.at = "unlink" /\ r.st = NoState
  BY <1>1, Basics DEF ProcRec, Quiet
<1>3. Sound(r.st)'
  BY <1>2, Basics DEF Sound
<1>4. Grows
  BY GoneGrows DEF session_destroy
<1>5. kills' \in Nat /\ proc' = [proc EXCEPT ![p] = r]
  BY <1>1 DEF CliInv, CliTypeOK, session_destroy
<1> QED  BY <1>2, <1>3, <1>4, <1>5, ProcessStep DEF SameFiles

(* An image is opened for the session the process read, and becomes its     *)
(* active one.                                                              *)
LEMMA OpenStep ==
  ASSUME CliInv, NEW p \in Procs, proc[p].at = "call", image_open(p), SameFiles, UNCHANGED kills
  PROVE  CliInv'
<1>1. PICK old : old = proc[p].st  OBVIOUS
<1>2. PICK st : st = [old EXCEPT !.active = nimg + 1]  OBVIOUS
<1>3. old \in States /\ old.session # NoId
  BY <1>1 DEF CliInv, CliTypeOK, CallsReady, image_open
<1>4. nimg \in Nat /\ nimg < MaxImageIds /\ MaxImageIds \in Nat
  BY CliAssumption DEF CliInv, CliTypeOK, image_open
<1>5. Grows
  <2>1. eimg' = [eimg EXCEPT ![nimg + 1] = old.session] /\ nimg' = nimg + 1 /\ live' = live \cup {nimg + 1}
    BY <1>1 DEF image_open
  <2>2. old.session \in Nat
    BY <1>3 DEF States
  <2> QED  BY <1>4, <2>1, <2>2 DEF CliInv, CliTypeOK, image_open, Grows, EngineOK
<1>6. st \in States /\ Sound(st)'
  <2>1. st = [session |-> old.session, token |-> old.token, active |-> nimg + 1]
    BY <1>2, <1>3 DEF States
  <2>2. eimg'[nimg + 1] = old.session /\ nimg' = nimg + 1
    BY <1>1, <1>4 DEF image_open, CliInv, CliTypeOK
  <2> QED  BY <1>3, <1>4, <2>1, <2>2 DEF States, Sound, NoId
<1>7. Writes(p, st) /\ kills' \in Nat
  BY <1>1, <1>2 DEF image_open, CliInv, CliTypeOK
<1> QED  BY <1>5, <1>6, <1>7, WritesStep DEF SameFiles

(* The image a process switches to is one of its session. *)
LEMMA SwitchStep ==
  ASSUME CliInv, NEW p \in Procs, proc[p].at = "call", image_switch(p), SameFiles, UNCHANGED kills
  PROVE  CliInv'
<1>1. PICK old : old = proc[p].st  OBVIOUS
<1>2. PICK i : i = proc[p].img  OBVIOUS
<1>3. PICK st : st = [old EXCEPT !.active = i]  OBVIOUS
<1>4. old \in States /\ old.session # NoId /\ i \in 1..nimg /\ eimg[i] = old.session /\ i \in 0..MaxImageIds
  BY <1>1, <1>2 DEF CliInv, CliTypeOK, CallsReady, image_switch
<1>5. Grows
  BY EngineStays DEF image_switch
<1>6. st \in States /\ Sound(st)
  <2>1. st = [session |-> old.session, token |-> old.token, active |-> i]
    BY <1>3, <1>4 DEF States
  <2> QED  BY <1>4, <2>1 DEF States, Sound
<1>7. Sound(st)'
  BY <1>5, <1>6, StaysSound
<1>8. Writes(p, st) /\ kills' \in Nat
  BY <1>1, <1>2, <1>3 DEF image_switch, CliInv, CliTypeOK
<1> QED  BY <1>5, <1>6, <1>7, <1>8, WritesStep DEF SameFiles

(* An image is closed: its id is not used again. *)
LEMMA CloseStep ==
  ASSUME CliInv, NEW p \in Procs, image_close(p), SameFiles, UNCHANGED kills
  PROVE  CliInv'
<1>1. PICK old : old = proc[p].st  OBVIOUS
<1>2. PICK st : st = [old EXCEPT !.active = NoId]  OBVIOUS
<1>3. old \in States
  BY <1>1 DEF CliInv, CliTypeOK
<1>4. Grows /\ kills' \in Nat
  BY CliAssumption DEF CliInv, CliTypeOK, image_close, Grows, EngineOK
<1>5. st \in States /\ Sound(st)'
  BY <1>2, <1>3, CliAssumption DEF States, Sound, NoId
<1>6. Writes(p, st) \/ Ends(p)
  BY <1>1, <1>2 DEF image_close
<1> QED  BY <1>4, <1>5, <1>6, WritesStep, EndsStep DEF SameFiles

(* A command makes its call. *)
LEMMA CallStep ==
  ASSUME CliInv, NEW p \in Procs, EngineCall(p)
  PROVE  CliInv'
<1>1. SameFiles /\ UNCHANGED kills /\ proc[p].at = "call"
  BY DEF EngineCall
<1>2. CASE look_at(p) \/ edit_image(p) \/ artifacts_list(p) \/ sessions_list(p) \/ CallFails(p)
  <2>1. Ends(p) /\ UNCHANGED engine
    BY <1>2 DEF look_at, edit_image, artifacts_list, sessions_list, CallFails
  <2>2. kills' \in Nat
    BY <1>1 DEF CliInv, CliTypeOK
  <2> QED  BY <1>1, <2>1, <2>2, EngineStays, EndsStep DEF SameFiles
<1> QED  BY <1>1, <1>2, InitStep, DestroyStep, OpenStep, SwitchStep, CloseStep DEF EngineCall

(* A session ends by itself. *)
LEMMA ExpiryStep ==
  ASSUME CliInv, SessionExpires
  PROVE  CliInv'
<1>1. PICK s \in esess : SessionGone(s)
  BY DEF SessionExpires
<1>2. UNCHANGED proc /\ SameFiles /\ kills' \in Nat
  BY DEF SessionExpires, CliInv, CliTypeOK
<1>3. Grows
  BY <1>1, GoneGrows
<1>4. ASSUME NEW st \in States, Sound(st) PROVE Sound(st)'
  BY <1>3, <1>4, StaysSound
<1>5. ASSUME NEW n \in Nodes, node'[n] # Empty PROVE Sound(node[n])'
  <2>1. node[n] \in States /\ Sound(node[n])
    BY <1>2, <1>5 DEF CliInv, CliTypeOK, StatesSound, SameFiles
  <2>2. PICK st : st = node[n]  OBVIOUS
  <2>3. Sound(st)'
    BY <2>1, <2>2, <1>4
  <2> QED  BY <1>2, <2>2, <2>3 DEF Sound, SameFiles
<1>6. ASSUME NEW q \in Procs PROVE Sound(proc[q].st)'
  <2>1. proc[q].st \in States /\ Sound(proc[q].st)
    BY DEF CliInv, CliTypeOK, StatesSound
  <2>2. PICK st : st = proc[q].st  OBVIOUS
  <2>3. Sound(st)'
    BY <2>1, <2>2, <1>4
  <2> QED  BY <1>2, <2>2, <2>3 DEF Sound
<1>7. CliTypeOK'
  BY <1>2, <1>3 DEF CliInv, CliTypeOK, SameFiles, Grows, EngineOK
<1>8. UNCHANGED <<nimg, proc, node, named, raced>>
  BY <1>1, <1>2 DEF SessionGone, SameFiles
<1>9. CallsReady' /\ WritersApart' /\ StateFileWhole'
  BY <1>8 DEF CliInv, CallsReady, WritersApart, Writing, StateFileWhole
<1> QED  BY <1>5, <1>6, <1>7, <1>9 DEF CliInv, StatesSound
(***************************************************************************)
(* Writing the state file.                                                 *)
(***************************************************************************)
(* The file that is truncated is not the state file. *)
LEMMA TruncatedFile ==
  ASSUME CliInv, NEW n, n = IF named["tmp"] = 0 THEN Unused ELSE named["tmp"]
  PROVE  n \in Nodes /\ n # named["state"]
<1>1. CASE named["tmp"] = 0
  <2>1. PICK f : f = [p \in Procs |-> proc[p].fd]  OBVIOUS
  <2>2. f \in [Procs -> Nodes \cup {0}]
    BY <2>1 DEF CliInv, CliTypeOK
  <2>3. PICK s : s = named["state"]  OBVIOUS
  <2>4. \E m \in Nodes : m \notin {s, 0} \cup {f[p] : p \in Procs}
    BY <2>2, FileLeft
  <2>5. {f[p] : p \in Procs} = {proc[p].fd : p \in Procs}
    BY <2>1
  <2>6. \E m \in Nodes : m \notin InUse
    BY <1>1, <2>3, <2>4, <2>5 DEF InUse
  <2> QED  BY <1>1, <2>6 DEF Unused, InUse
<1>2. CASE named["tmp"] # 0
  BY <1>2 DEF CliInv, CliTypeOK, WritersApart
<1> QED  BY <1>1, <1>2

(* The temporary file is emptied; a second writer is noticed. *)
LEMMA TruncateStep ==
  ASSUME CliInv, NEW p \in Procs, truncate_tmp(p)
  PROVE  CliInv'
<1>1. PICK n : n = IF named["tmp"] = 0 THEN Unused ELSE named["tmp"]  OBVIOUS
<1>2. /\ named' = [named EXCEPT !["tmp"] = n] /\ node' = [node EXCEPT ![n] = Empty]
      /\ proc' = [proc EXCEPT ![p] = [@ EXCEPT !.fd = n, !.at = "fill"]]
      /\ proc[p].at = "write" /\ UNCHANGED engine /\ UNCHANGED kills
      /\ raced' = (raced \/ \E q \in Procs \ {p} : proc[q].at \in {"fill", "rename"})
  BY <1>1 DEF truncate_tmp
<1>3. n \in Nodes /\ n # named["state"] /\ n # 0
  BY <1>1, TruncatedFile, Basics
<1>4. named' = [state |-> named["state"], tmp |-> n] /\ named'["state"] = named["state"] /\ named'["tmp"] = n
  BY <1>2 DEF CliInv, CliTypeOK
<1>5. \A m \in Nodes : node'[m] = IF m = n THEN Empty ELSE node[m]
  BY <1>2 DEF CliInv, CliTypeOK
<1>6. /\ \A q \in Procs : q # p => proc'[q] = proc[q]
      /\ proc'[p].at = "fill" /\ proc'[p].fd = n /\ proc'[p].st = proc[p].st
  BY <1>2 DEF CliInv, CliTypeOK
<1>7. CliTypeOK'
  <2>1. proc' \in [Procs -> ProcRec]
    BY <1>2, <1>3 DEF CliInv, CliTypeOK, ProcRec
  <2>2. node' \in [Nodes -> States \cup {Empty}] /\ named' \in [{"state", "tmp"} -> Nodes \cup {0}]
    BY <1>2, <1>3 DEF CliInv, CliTypeOK
  <2>3. raced' \in BOOLEAN
    BY <1>2 DEF CliInv, CliTypeOK
  <2> QED  BY <1>2, <2>1, <2>2, <2>3 DEF CliInv, CliTypeOK, ProcRec, engine
<1>8. StatesSound'
  BY <1>2, <1>5, <1>6 DEF CliInv, StatesSound, Sound, engine
<1>9. CallsReady'
  BY <1>2, <1>6 DEF CliInv, CallsReady, engine
<1>10. WritersApart'
  <2>1. named'["state"] # 0 => named'["state"] # named'["tmp"]
    BY <1>3, <1>4
  <2>2. \A q \in Procs : Writing(q)' => proc'[q].fd # 0
    BY <1>3, <1>6 DEF CliInv, WritersApart, Writing
  <2>3. ASSUME ~raced' PROVE \A q \in Procs : Writing(q)' => q = p
    BY <2>3, <1>2, <1>6 DEF Writing
  <2> QED  BY <2>1, <2>2, <2>3, <1>4, <1>6 DEF WritersApart, Writing
<1>11. StateFileWhole'
  BY <1>2, <1>3, <1>4, <1>5 DEF CliInv, CliTypeOK, StateFileWhole
<1> QED  BY <1>7, <1>8, <1>9, <1>10, <1>11 DEF CliInv

(* The state is written to the file the process has open. *)
LEMMA FillStep ==
  ASSUME CliInv, NEW p \in Procs, fill_tmp(p)
  PROVE  CliInv'
<1>1. PICK n : n = proc[p].fd  OBVIOUS
<1>2. /\ node' = [node EXCEPT ![n] = proc[p].st] /\ proc' = [proc EXCEPT ![p].at = "rename"]
      /\ proc[p].at = "fill" /\ UNCHANGED engine /\ UNCHANGED <<named, raced, kills>>
  BY <1>1 DEF fill_tmp
<1>3. n \in Nodes /\ proc[p].st \in States /\ proc[p].st # Empty
  BY <1>1, <1>2, Basics DEF CliInv, CliTypeOK, WritersApart, Writing
<1>4. \A m \in Nodes : node'[m] = IF m = n THEN proc[p].st ELSE node[m]
  BY <1>2 DEF CliInv, CliTypeOK
<1>5. /\ \A q \in Procs : q # p => proc'[q] = proc[q]
      /\ proc'[p].at = "rename" /\ proc'[p].fd = n /\ proc'[p].st = proc[p].st
  BY <1>1, <1>2 DEF CliInv, CliTypeOK
<1>6. CliTypeOK'
  <2>1. proc' \in [Procs -> ProcRec]
    BY <1>2 DEF CliInv, CliTypeOK, ProcRec
  <2>2. node' \in [Nodes -> States \cup {Empty}]
    BY <1>2, <1>3 DEF CliInv, CliTypeOK
  <2> QED  BY <1>2, <2>1, <2>2 DEF CliInv, CliTypeOK, ProcRec, engine
<1>7. StatesSound'
  BY <1>2, <1>4, <1>5 DEF CliInv, StatesSound, Sound, engine
<1>8. CallsReady'
  BY <1>2, <1>5 DEF CliInv, CallsReady, engine
<1>9. WritersApart'
  <2>1. \A q \in Procs : Writing(q)' <=> Writing(q)
    BY <1>2, <1>5 DEF Writing
  <2>2. \A q \in Procs : proc'[q].fd = proc[q].fd
    BY <1>1, <1>5
  <2>3. ASSUME ~raced, NEW q \in Procs, proc'[q].at = "rename" PROVE node'[proc'[q].fd] = proc'[q].st
    <3>1. q = p
      BY <2>3, <1>2, <1>5 DEF CliInv, WritersApart, Writing
    <3> QED  BY <3>1, <1>3, <1>4, <1>5
  <2> QED  BY <2>1, <2>2, <2>3, <1>2 DEF CliInv, WritersApart
<1>10. StateFileWhole'
  BY <1>2, <1>3, <1>4 DEF CliInv, CliTypeOK, StateFileWhole
<1> QED  BY <1>6, <1>7, <1>8, <1>9, <1>10 DEF CliInv

(* A process ends, and the files nobody names or has open are gone. *)
LEMMA FreedStep ==
  ASSUME CliInv, NEW p \in Procs, Ends(p), Freed, UNCHANGED engine, UNCHANGED raced, kills' \in Nat,
         named' \in [{"state", "tmp"} -> Nodes \cup {0}]
  PROVE  /\ CliTypeOK' /\ StatesSound' /\ CallsReady'
         /\ \A q \in Procs : proc'[q] = IF q = p THEN Quiet ELSE proc[q]
         /\ \A q \in Procs \ {p} : proc[q].fd \in Nodes => node'[proc[q].fd] = node[proc[q].fd]
         /\ \A x \in {"state", "tmp"} : named'[x] \in Nodes => node'[named'[x]] = node[named'[x]]
<1>1. \A q \in Procs : proc'[q] = IF q = p THEN Quiet ELSE proc[q]
  BY DEF Ends, CliInv, CliTypeOK
<1>2. \A n \in Nodes : node'[n] = IF n \in InUse' THEN node[n] ELSE Empty
  BY DEF Freed
<1>3. CliTypeOK'
  <2>1. proc' \in [Procs -> ProcRec]
    BY Basics DEF Ends, CliInv, CliTypeOK, ProcRec
  <2>2. node' \in [Nodes -> States \cup {Empty}]
    BY DEF Freed, CliInv, CliTypeOK
  <2> QED  BY <2>1, <2>2 DEF CliInv, CliTypeOK, ProcRec, engine
<1>4. StatesSound'
  BY <1>1, <1>2, Basics DEF CliInv, StatesSound, Sound, engine
<1>5. CallsReady'
  BY <1>1, Basics DEF CliInv, CallsReady, engine
<1>6. \A q \in Procs \ {p} : proc[q].fd \in InUse'
  BY <1>1 DEF InUse
<1>7. \A x \in {"state", "tmp"} : named'[x] \in InUse'
  BY DEF InUse
<1> QED  BY <1>1, <1>2, <1>3, <1>4, <1>5, <1>6, <1>7

(* The temporary file becomes the state file: while no two commands write,  *)
(* it is the one the process has filled.                                    *)
LEMMA RenameStep ==
  ASSUME CliInv, NEW p \in Procs, rename_tmp(p)
  PROVE  CliInv'
<1>1. /\ named' = IF named["tmp"] = 0 THEN named ELSE [named EXCEPT !["state"] = named["tmp"], !["tmp"] = 0]
      /\ Ends(p) /\ Freed /\ UNCHANGED engine /\ UNCHANGED raced /\ UNCHANGED kills /\ proc[p].at = "rename"
  BY DEF rename_tmp
<1>2. kills' \in Nat /\ named' \in [{"state", "tmp"} -> Nodes \cup {0}]
  BY <1>1 DEF CliInv, CliTypeOK
<1>3. IF named["tmp"] = 0 THEN named' = named ELSE named'["state"] = named["tmp"] /\ named'["tmp"] = 0
  BY <1>1 DEF CliInv, CliTypeOK
<1>4. /\ CliTypeOK' /\ StatesSound' /\ CallsReady'
      /\ \A q \in Procs : proc'[q] = IF q = p THEN Quiet ELSE proc[q]
      /\ \A x \in {"state", "tmp"} : named'[x] \in Nodes => node'[named'[x]] = node[named'[x]]
  BY <1>1, <1>2, FreedStep
<1>5. ~raced => \A q \in Procs : ~Writing(q)'
  BY <1>1, <1>4, Basics DEF CliInv, WritersApart, Writing
<1>6. WritersApart'
  <2>1. \A q \in Procs : Writing(q)' => proc'[q].fd # 0
    BY <1>4, Basics DEF CliInv, WritersApart, Writing
  <2> QED  BY <1>1, <1>3, <1>5, <2>1 DEF CliInv, WritersApart, Writing
<1>7. StateFileWhole'
  <2> SUFFICES ASSUME ~raced PROVE named'["state"] # 0 => node'[named'["state"]] # Empty
    BY <1>1 DEF StateFileWhole
  <2>1. proc[p].fd = named["tmp"] /\ named["tmp"] \in Nodes /\ node[named["tmp"]] = proc[p].st /\ proc[p].st # Empty
    BY <1>1, Basics DEF CliInv, CliTypeOK, WritersApart, Writing
  <2>2. named'["state"] = named["tmp"]
    BY <1>3, <2>1, Basics
  <2> QED  BY <1>4, <2>1, <2>2
<1> QED  BY <1>4, <1>6, <1>7 DEF CliInv

(* A process ends without a rename: the files others have open stay. *)
LEMMA LeaveStep ==
  ASSUME CliInv, NEW p \in Procs, Ends(p), Freed, UNCHANGED engine, UNCHANGED raced, kills' \in Nat,
         named' = named \/ named' = [named EXCEPT !["state"] = 0]
  PROVE  CliInv'
<1>1. named' \in [{"state", "tmp"} -> Nodes \cup {0}] /\ named'["tmp"] = named["tmp"] /\ named'["state"] \in {0, named["state"]}
  BY DEF CliInv, CliTypeOK
<1>2. /\ CliTypeOK' /\ StatesSound' /\ CallsReady'
      /\ \A q \in Procs : proc'[q] = IF q = p THEN Quiet ELSE proc[q]
      /\ \A q \in Procs \ {p} : proc[q].fd \in Nodes => node'[proc[q].fd] = node[proc[q].fd]
      /\ \A x \in {"state", "tmp"} : named'[x] \in Nodes => node'[named'[x]] = node[named'[x]]
  BY <1>1, FreedStep
<1>3. \A q \in Procs : Writing(q)' => q # p /\ Writing(q) /\ proc'[q] = proc[q] /\ proc[q].fd \in Nodes
  BY <1>2, Basics DEF CliInv, CliTypeOK, WritersApart, Writing
<1>4. WritersApart'
  <2>1. named'["state"] # 0 => named'["state"] # named'["tmp"]
    BY <1>1 DEF CliInv, WritersApart
  <2>2. \A q \in Procs : Writing(q)' => proc'[q].fd # 0
    BY <1>3, Basics
  <2>3. ASSUME NEW q \in Procs, ~raced, proc'[q].at = "rename" PROVE node'[proc'[q].fd] = proc'[q].st
    <3>1. Writing(q)'
      BY <2>3 DEF Writing
    <3> QED  BY <3>1, <2>3, <1>2, <1>3 DEF CliInv, WritersApart
  <2>4. ~raced => \A q, w \in Procs : Writing(q)' /\ Writing(w)' => q = w
    BY <1>3 DEF CliInv, WritersApart
  <2>5. ~raced => \A q \in Procs : Writing(q)' => proc'[q].fd = named'["tmp"]
    BY <1>1, <1>3 DEF CliInv, WritersApart
  <2> QED  BY <2>1, <2>2, <2>3, <2>4, <2>5 DEF WritersApart
<1>5. StateFileWhole'
  BY <1>1, <1>2 DEF CliInv, CliTypeOK, StateFileWhole
<1> QED  BY <1>2, <1>4, <1>5 DEF CliInv
(***************************************************************************)
(* The theorem.                                                            *)
(***************************************************************************)
(* CliInv holds at the start and every step preserves it. *)
THEOREM CliTheorem == CSTSpec => []CliInv
<1>1. CSTInit => CliInv
  <2> SUFFICES ASSUME CSTInit PROVE CliInv
    OBVIOUS
  <2>1. CliTypeOK
    <3>1. proc \in [Procs -> ProcRec]
      BY Basics DEF CSTInit
    <3>2. named \in [{"state", "tmp"} -> Nodes \cup {0}] /\ node \in [Nodes -> States \cup {Empty}]
      BY DEF CSTInit
    <3>3. EngineOK
      BY CliAssumption DEF CSTInit, EngineOK, NoId
    <3> QED  BY <3>1, <3>2, <3>3 DEF CSTInit, CliTypeOK, ProcRec, EngineOK
  <2>2. StatesSound /\ CallsReady
    BY Basics DEF CSTInit, StatesSound, Sound, CallsReady
  <2>3. WritersApart /\ StateFileWhole
    BY Basics DEF CSTInit, WritersApart, Writing, StateFileWhole
  <2> QED  BY <2>1, <2>2, <2>3 DEF CliInv
<1>2. CliInv /\ [CSTNext]_cstvars => CliInv'
  <2> SUFFICES ASSUME CliInv, [CSTNext]_cstvars PROVE CliInv'
    OBVIOUS
  <2>1. CASE UNCHANGED cstvars
    BY <2>1 DEF cstvars, engine, CliInv, CliTypeOK, StatesSound, Sound, CallsReady, WritersApart, Writing, StateFileWhole
  <2>2. ASSUME NEW p \in Procs, remove_state(p) PROVE CliInv'
    BY <2>2, LeaveStep DEF remove_state, CliInv, CliTypeOK
  <2>3. ASSUME NEW p \in Procs, Killed(p) PROVE CliInv'
    BY <2>3, LeaveStep DEF Killed, CliInv, CliTypeOK
  <2> QED  BY <2>1, <2>2, <2>3, StartStep, CallStep, TruncateStep, FillStep, RenameStep, ExpiryStep DEF CSTNext
<1> QED  BY <1>1, <1>2, PTL DEF CSTSpec

(* What the file says is a state of one session, whole as long as no two    *)
(* commands write at the same time, and no command acts on the image of     *)
(* another session: for any number of processes, sessions, images and       *)
(* kills (state.rs read_state, write_state; commands/session.rs, image.rs). *)
THEOREM StateFileSoundTheorem == CSTSpec => []StateFileSound
<1>1. CliInv => StateFileSound
  <2> SUFFICES ASSUME CliInv PROVE StateFileSound
    OBVIOUS
  <2>1. ActiveOfSession
    BY ContentSound DEF ActiveOfSession, OfItsSession, Sound, CliInv, StatesSound
  <2>2. ActsInSession
    BY DEF ActsInSession, CliInv, CallsReady, StatesSound, Sound
  <2> QED  BY <2>1, <2>2 DEF StateFileSound, CliInv
<1> QED  BY <1>1, CliTheorem, PTL
(***************************************************************************)
(* Form packages: FPInv is inductive, whatever files are imported, by any   *)
(* number of clients at once.                                              *)
(***************************************************************************)
(* A set of ids has a largest one. *)
LEMMA LargestId ==
  ASSUME NEW B \in SUBSET (0..TopQid), B # {}
  PROVE  \E m \in B : \A y \in B : y <= m
<1> DEFINE T == {TopQid - x : x \in B}
<1>1. TopQid \in Nat
  BY PackageAssumption
<1>2. T \subseteq Nat /\ T # {}
  <2>1. ASSUME NEW x \in B PROVE TopQid - x \in Nat
    <3>1. x \in 0..TopQid
      OBVIOUS
    <3> QED  BY ONLY <1>1, <3>1
  <2>2. PICK x : x \in B
    OBVIOUS
  <2>3. TopQid - x \in T
    BY <2>2
  <2> QED  BY <2>1, <2>3
<1>3. \E x \in T : \A y \in T : ~(<<y, x>> \in OpToRel(<, Nat))
  <2> HIDE DEF T
  <2> QED  BY <1>2, NatLessThanWellFounded, WFMin
<1>4. PICK x \in T : \A y \in T : x <= y
  <2>1. ASSUME NEW u \in Nat, NEW v \in Nat, u < v PROVE <<u, v>> \in OpToRel(<, Nat)
    BY <2>1, Zenon DEF OpToRel
  <2>2. PICK x \in T : \A y \in T : ~(<<y, x>> \in OpToRel(<, Nat))
    BY <1>3
  <2> HIDE DEF T
  <2>3. \A y \in T : ~(y < x)
    BY <1>2, <2>1, <2>2
  <2>4. \A y \in T : x <= y
    BY <1>2, <2>3
  <2> QED  BY <2>2, <2>4
<1>5. PICK m \in B : x = TopQid - m
  BY <1>4
<1>6. ASSUME NEW y \in B PROVE y <= m
  <2>1. TopQid - y \in T
    OBVIOUS
  <2>2. x <= TopQid - y
    BY <1>4, <2>1
  <2>3. y \in 0..TopQid /\ m \in 0..TopQid
    OBVIOUS
  <2> QED  BY ONLY <1>1, <1>5, <2>2, <2>3
<1> QED  BY <1>5, <1>6

(* The next id is a new one, unless all of them are used up. *)
LEMMA NextIsNew ==
  ASSUME NEW B \in SUBSET (0..TopQid), next_qid(B) \in B
  PROVE  next_qid(B) = TopQid
<1>1. PICK m : m = CHOOSE x \in B : \A y \in B : y <= x  OBVIOUS
<1>2. m \in B /\ \A y \in B : y <= m
  BY <1>1, LargestId
<1>3. TopQid \in Nat /\ HighQid \in 0..TopQid /\ m \in 0..TopQid
  BY <1>2, PackageAssumption
<1> QED  BY <1>1, <1>2, <1>3 DEF next_qid
(* FPInv says of each client what holds of its record and the image. *)
Sane(r) ==
  /\ RecordOK(r) /\ BodyOK(r.env.body) /\ IsSeq(r.env.refs.entries) /\ BodyOK(r.body) /\ IsSeq(r.inserted)
  /\ r.busy \subseteq 0..TopQid

Leads(r) == r.env.kind \in {"both", "refs"}

Checked(r, img) ==
  /\ r.at \in {"forms", "questions", "stores", "add"} => ~r.added /\ r.inserted = <<>>
  /\ r.at = "questions" => r.seen.forms \subseteq img.forms
  /\ r.at \in {"stores", "add", "refs"} /\ Leads(r) => check_qids(r.env.refs, r.busy) /\ check_targets(img.forms, r.env.refs)
  /\ r.at = "refs" => Leads(r) /\ \A id \in Range(r.inserted) : [set |-> Target, id |-> id] \in img.forms
  /\ r.at = "add" /\ r.planned => \A d \in Range(r.body.stores), t \in r.seen.stores : t.id # d.id

Excused(r) ==
  \/ \E m, n \in DOMAIN r.plan : m # n /\ r.plan[m].qid = r.plan[n].qid
  \/ \E e \in Range(r.env.refs.entries) : e.form = 0 /\ e.set # Here
  \/ \E n \in DOMAIN r.plan, a \in r.seen.asks : a.qid = r.plan[n].qid /\ (a.form # r.plan[n].parent \/ a.qid \notin r.busy)
  \/ \E n \in DOMAIN r.plan : r.plan[n].qid = TopQid /\ TopQid \in r.busy

Taken(r, img) ==
  \/ \E m, n \in DOMAIN r.body.stores : m # n /\ r.body.stores[m].id = r.body.stores[n].id
  \/ \E d \in Range(r.body.stores), t \in img.stores : t.id = d.id /\ t \notin r.seen.stores

Rested(r, img) ==
  r.at = "idle" => /\ r.out \in {"refused", "stores_refused"} => ~r.added
                   /\ r.out = "ref_refused" => Excused(r)
                   /\ r.out = "stores_refused" /\ r.planned => Taken(r, img)

ClientsOK ==
  /\ ImageOK /\ DOMAIN importer = Importers
  /\ \A p \in Importers : Sane(importer[p]) /\ Checked(importer[p], image) /\ Rested(importer[p], image)

(* The invariant, client by client. *)
LEMMA ByClient == FPInv <=> ClientsOK
<1>1. PackageTypeOK <=> ImageOK /\ DOMAIN importer = Importers /\ \A p \in Importers : Sane(importer[p])
  BY DEF PackageTypeOK, Sane
<1>2. AddedLate /\ ChecksHold /\ PlanHolds <=> \A p \in Importers : Checked(importer[p], image)
  BY DEF AddedLate, ChecksHold, PlanHolds, Checked, Is, HasRefs, Leads
<1>3. ImportsForeseen <=> \A p \in Importers : Rested(importer[p], image)
  BY DEF ImportsForeseen, RefusedImportsNothing, RefRefusalForeseen, PlannedStoresAccepted, Rested, Rests, Excused, Taken
<1> QED  BY <1>1, <1>2, <1>3 DEF FPInv, ClientsOK

(* Nothing found is lost while the image grows. *)
LEMMA ImageGrows ==
  ASSUME NEW r, NEW i, NEW j, Checked(r, i), Rested(r, i), i.forms \subseteq j.forms, i.stores \subseteq j.stores
  PROVE  Checked(r, j) /\ Rested(r, j)
<1>1. Checked(r, j)
  BY DEF Checked, check_targets
<1>2. Taken(r, i) => Taken(r, j)
  BY DEF Taken
<1> QED  BY <1>1, <1>2 DEF Rested

(* One client goes on. *)
LEMMA ClientStep ==
  ASSUME ClientsOK, NEW p \in Importers, NEW r, importer' = [importer EXCEPT ![p] = r],
         Sane(r), NEW j, j = image', Checked(r, j), Rested(r, j),
         ImageOK', image.forms \subseteq j.forms, image.stores \subseteq j.stores
  PROVE  ClientsOK'
<1>1. PICK i : i = image  OBVIOUS
<1>2. DOMAIN importer' = Importers
  BY DEF ClientsOK
<1>3. ASSUME NEW q \in Importers
      PROVE  Sane(importer'[q]) /\ Checked(importer'[q], image') /\ Rested(importer'[q], image')
  <2>1. CASE q = p
    <3>1. importer'[q] = r
      BY <2>1 DEF ClientsOK
    <3> QED  BY <3>1
  <2>2. CASE q # p
    <3>1. importer'[q] = importer[q]
      BY <2>2 DEF ClientsOK
    <3>2. PICK x : x = importer[q]  OBVIOUS
    <3>3. Sane(x) /\ Checked(x, i) /\ Rested(x, i)
      BY <1>1, <3>2 DEF ClientsOK
    <3>4. Checked(x, j) /\ Rested(x, j)
      BY <1>1, <3>3, ImageGrows
    <3> QED  BY <3>1, <3>2, <3>3, <3>4
  <2> QED  BY <2>1, <2>2
<1> QED  BY <1>2, <1>3 DEF ClientsOK
(***************************************************************************)
(* The steps of an import.                                                 *)
(***************************************************************************)
(* Empty sequences and bodies. *)
LEMMA Nothing == IsSeq(<<>>) /\ BodyOK(NoBody) /\ IsSeq(NoRefs.entries)
<1>1. IsSeq(<<>>)
  BY DEF IsSeq
<1>2. NoBody.forms = <<>> /\ NoRefs.entries = <<>> /\ Range(<<>>) = {}
  BY DEF NoBody, NoRefs, Range
<1> QED  BY <1>1, <1>2 DEF BodyOK

(* The envelope of a file holds the file's own sections, or nothing. *)
LEMMA EnvelopeOf ==
  ASSUME NEW f, FileOK(f)
  PROVE  /\ split_envelope(f).kind \in {"bad", "bare", "forms", "both", "refs"}
         /\ BodyOK(split_envelope(f).body) /\ IsSeq(split_envelope(f).refs.entries)
<1> DEFINE Good(e) == e.kind \in {"bad", "bare", "forms", "both", "refs"} /\ BodyOK(e.body) /\ IsSeq(e.refs.entries)
<1>1. Good(BadEnvelope)
  BY Nothing DEF BadEnvelope, Envelope
<1>2. \A k \in {"bare", "forms", "both"} : Good(Envelope(k, f.section, f.body)) /\ Good(Envelope(k, NoRefs, f.body))
  BY Nothing DEF Envelope, FileOK
<1>3. Good(refs_only(f))
  BY <1>1, Nothing DEF refs_only, Envelope, FileOK
<1>4. Good(split_envelope(f))
  <2> HIDE DEF Good
  <2>1. CASE ~f.json
    BY <1>1, <2>1 DEF split_envelope
  <2>2. CASE f.json /\ (~f.object \/ (f.meta = "none" /\ f.refs \in {"none", "array"}))
    BY <1>2, <2>2 DEF split_envelope
  <2>3. CASE f.json /\ f.object /\ f.meta = "bad"
    BY <1>1, <2>3 DEF split_envelope
  <2>4. CASE f.json /\ f.object /\ f.meta = "none" /\ f.refs \in {"object", "bad"}
    BY <1>1, <1>2, <1>3, <2>4 DEF split_envelope
  <2>5. CASE f.json /\ f.object /\ f.meta = "ok"
    BY <1>1, <1>2, <1>3, <2>5 DEF split_envelope
  <2> QED  BY <2>1, <2>2, <2>3, <2>4, <2>5 DEF FileOK
<1> QED  BY <1>4

(* What is exported may be imported. *)
LEMMA ExportOK ==
  ASSUME ClientsOK, NEW id
  PROVE  FileOK(wrap_export(image, id))
<1>1. PICK img : img = image  OBVIOUS
<1>2. IsSeq(img.refs) /\ \A a \in img.asks : a.qid \in 0..TopQid
  BY <1>1 DEF ClientsOK, ImageOK
<1>3. PICK f : f = wrap_export(img, id)  OBVIOUS
<1>4. PICK ups : ups = {n \in DOMAIN img.refs : img.refs[n].form = id /\ img.refs[n].set = Here}  OBVIOUS
<1>5. IsFiniteSet(ups) /\ Cardinality(ups) \in Nat
  <2>1. Len(img.refs) \in Nat /\ DOMAIN img.refs = 1..Len(img.refs)
    BY <1>2 DEF IsSeq
  <2>2. IsFiniteSet(1..Len(img.refs))
    BY <2>1, FS_Interval
  <2> QED  BY <1>4, <2>1, <2>2, FS_Subset, FS_CardinalityType
<1>6. IsSeq([n \in 1..Cardinality(ups) |-> [form |-> 0, set |-> Here, qid |-> 0]])
  BY <1>5 DEF IsSeq, Range
<1>7. IsSeq(f.section.entries)
  BY <1>3, <1>4, <1>6, Nothing DEF wrap_export
<1>8. f.body.forms = <<[id |-> id, qids |-> {q.qid : q \in {a \in img.asks : a.form = id}}]>>
  BY <1>3 DEF wrap_export
<1>9. BodyOK(f.body)
  <2>1. {q.qid : q \in {a \in img.asks : a.form = id}} \subseteq 0..TopQid
    BY <1>2
  <2>2. IsSeq(f.body.forms) /\ Range(f.body.forms) = {[id |-> id, qids |-> {q.qid : q \in {a \in img.asks : a.form = id}}]}
    BY <1>8 DEF IsSeq, Range
  <2> QED  BY <2>1, <2>2 DEF BodyOK
<1>10. f.json = TRUE /\ f.object = TRUE /\ f.formset = TRUE /\ f.meta = "ok" /\ f.refs \in {"object", "none"}
  BY <1>3 DEF wrap_export
<1> QED  BY <1>1, <1>3, <1>7, <1>9, <1>10 DEF FileOK
(* The record of a client that begins. *)
LEMMA BegunSane ==
  ASSUME NEW env, NEW at \in {"idle", "forms", "stores"}, NEW out \in {"none", "refused"},
         BodyOK(env.body), IsSeq(env.refs.entries), NEW r, r = Begun(env, at, out)
  PROVE  Sane(r) /\ r.env = env /\ r.at = at /\ r.out = out /\ ~r.added /\ r.inserted = <<>>
<1>1. r = [at |-> at, env |-> env, seen |-> FirstImage, busy |-> {}, body |-> NoBody,
           inserted |-> <<>>, plan |-> <<>>, planned |-> TRUE, added |-> FALSE, out |-> out]
  BY DEF Begun
<1>2. Sane(r)
  BY <1>1, Nothing DEF Sane, RecordOK
<1>3. r.env = env /\ r.at = at /\ r.out = out /\ ~r.added /\ r.inserted = <<>>
  BY <1>1
<1> QED  BY <1>2, <1>3

(* An import begins: it has found nothing yet. *)
LEMMA BeginStep ==
  ASSUME ClientsOK, NEW p \in Importers, NEW f, FileOK(f), BeginImport(p, f)
  PROVE  ClientsOK'
<1>1. PICK env : env = split_envelope(f)  OBVIOUS
<1>2. PICK at \in {"idle", "forms", "stores"}, out \in {"none", "refused"} :
        /\ importer' = [importer EXCEPT ![p] = Begun(env, at, out)]
        /\ at = "stores" => env.kind \notin {"both", "refs"}
        /\ at = "idle" => out = "refused"
  BY <1>1 DEF BeginImport
<1>3. PICK r : r = Begun(env, at, out)  OBVIOUS
<1>4. image' = image /\ ImageOK'
  BY DEF BeginImport, ClientsOK, ImageOK
<1>5. BodyOK(env.body) /\ IsSeq(env.refs.entries)
  BY <1>1, EnvelopeOf
<1>6. Sane(r) /\ r.env = env /\ r.at = at /\ r.out = out /\ ~r.added /\ r.inserted = <<>>
  BY <1>3, <1>5, BegunSane
<1>7. PICK j : j = image  OBVIOUS
<1>8. Checked(r, j)
  BY <1>2, <1>6 DEF Checked, Leads
<1>9. Rested(r, j)
  BY <1>2, <1>6 DEF Rested
<1> QED  BY <1>2, <1>3, <1>4, <1>6, <1>7, <1>8, <1>9, ClientStep

(* `hii form add` begins with its call: it has no references to check. *)
LEMMA FormAddCommandStep ==
  ASSUME ClientsOK, NEW p \in Importers, NEW f, FileOK(f), FormAddCommand(p, f)
  PROVE  ClientsOK'
<1>1. PICK j : j = image  OBVIOUS
<1>2. image' = image /\ ImageOK'
  BY DEF FormAddCommand, ClientsOK, ImageOK
<1>3. CASE ensure_bare_schema(f) /\ f.json
  <2>1. PICK env : env = split_envelope(f)  OBVIOUS
  <2>2. PICK r : r = [Begun(env, "add", "none") EXCEPT !.body = f.body, !.seen = j, !.planned = FALSE]  OBVIOUS
  <2>3. importer' = [importer EXCEPT ![p] = r]
    BY <1>1, <1>3, <2>1, <2>2 DEF FormAddCommand
  <2>4. r = [at |-> "add", env |-> env, seen |-> j, busy |-> {}, body |-> f.body,
             inserted |-> <<>>, plan |-> <<>>, planned |-> FALSE, added |-> FALSE, out |-> "none"]
    BY <2>2 DEF Begun
  <2>5. env.kind = "bare" /\ BodyOK(env.body) /\ IsSeq(env.refs.entries) /\ BodyOK(f.body)
    BY <1>3, <2>1, EnvelopeOf DEF ensure_bare_schema, FileOK
  <2>6. Sane(r)
    BY <2>4, <2>5, Nothing DEF Sane, RecordOK
  <2>7. Checked(r, j) /\ Rested(r, j)
    BY <2>4, <2>5 DEF Checked, Leads, Rested
  <2> QED  BY <1>1, <1>2, <2>3, <2>6, <2>7, ClientStep
<1>4. CASE ~(ensure_bare_schema(f) /\ f.json)
  <2>1. PICK r : r = Begun(BadEnvelope, "idle", "refused")  OBVIOUS
  <2>2. importer' = [importer EXCEPT ![p] = r]
    BY <1>4, <2>1 DEF FormAddCommand
  <2>3. BodyOK(BadEnvelope.body) /\ IsSeq(BadEnvelope.refs.entries)
    BY Nothing DEF BadEnvelope, Envelope
  <2>4. Sane(r) /\ r.at = "idle" /\ r.out = "refused" /\ ~r.added
    BY <2>1, <2>3, BegunSane
  <2>5. Checked(r, j) /\ Rested(r, j)
    BY <2>4 DEF Checked, Rested
  <2> QED  BY <1>1, <1>2, <2>2, <2>4, <2>5, ClientStep
<1> QED  BY <1>3, <1>4

(* A client stops with an answer that the invariant allows. *)
LEMMA StopStep ==
  ASSUME ClientsOK, NEW p \in Importers, NEW old, old = importer[p], NEW out \in {"refused", "stores_refused"},
         Stop(p, out), UNCHANGED image, ~old.added, out = "stores_refused" /\ old.planned => Taken(old, image)
  PROVE  ClientsOK'
<1>1. PICK r : r = [old EXCEPT !.at = "idle", !.out = out]  OBVIOUS
<1>2. PICK j : j = image  OBVIOUS
<1>3. importer' = [importer EXCEPT ![p] = r]
  BY <1>1 DEF Stop
<1>4. Sane(old)
  BY DEF ClientsOK
<1>5. r = [at |-> "idle", env |-> old.env, seen |-> old.seen, busy |-> old.busy, body |-> old.body, inserted |-> old.inserted,
           plan |-> old.plan, planned |-> old.planned, added |-> old.added, out |-> out]
  BY <1>1, <1>4 DEF Sane, RecordOK
<1>6. Sane(r)
  BY <1>4, <1>5 DEF Sane, RecordOK
<1>7. Taken(old, j) => Taken(r, j)
  BY <1>5 DEF Taken
<1>8. Checked(r, j) /\ Rested(r, j)
  BY <1>2, <1>5, <1>7 DEF Checked, Rested
<1>9. ImageOK'
  BY DEF ClientsOK, ImageOK
<1> QED  BY <1>2, <1>3, <1>6, <1>8, <1>9, ClientStep
(* A client that looks and gives up has added nothing. *)
LEMMA RefusedStep ==
  ASSUME ClientsOK, NEW p \in Importers, importer[p].at \in {"forms", "questions", "stores", "add"},
         Stop(p, "refused"), UNCHANGED image
  PROVE  ClientsOK'
<1>1. PICK old : old = importer[p]  OBVIOUS
<1>2. ~old.added
  BY <1>1 DEF ClientsOK, Checked
<1> QED  BY <1>1, <1>2, StopStep

(* The forms are listed, and the parent is one of them. *)
LEMMA ListFormsStep ==
  ASSUME ClientsOK, NEW p \in Importers, ListForms(p)
  PROVE  ClientsOK'
<1>1. PICK old : old = importer[p]  OBVIOUS
<1>2. PICK j : j = image  OBVIOUS
<1>3. importer[p].at = "forms" /\ image' = image /\ ImageOK'
  BY DEF ListForms, ClientsOK, ImageOK
<1>4. CASE Stop(p, "refused")
  BY <1>3, <1>4, RefusedStep
<1>5. CASE importer' = [importer EXCEPT ![p] = [@ EXCEPT !.at = "questions", !.seen = image]]
  <2>1. PICK r : r = [old EXCEPT !.at = "questions", !.seen = j]  OBVIOUS
  <2>2. importer' = [importer EXCEPT ![p] = r]
    BY <1>1, <1>2, <1>5, <2>1
  <2>3. Sane(old) /\ ~old.added /\ old.inserted = <<>>
    BY <1>1, <1>3 DEF ClientsOK, Checked
  <2>4. r = [at |-> "questions", env |-> old.env, seen |-> j, busy |-> old.busy, body |-> old.body, inserted |-> old.inserted,
             plan |-> old.plan, planned |-> old.planned, added |-> old.added, out |-> old.out]
    BY <2>1, <2>3 DEF Sane, RecordOK
  <2>5. Sane(r)
    BY <2>3, <2>4 DEF Sane, RecordOK
  <2>6. Checked(r, j) /\ Rested(r, j)
    BY <2>3, <2>4 DEF Checked, Rested
  <2> QED  BY <1>2, <1>3, <2>2, <2>5, <2>6, ClientStep
<1> QED  BY <1>4, <1>5 DEF ListForms

(* The questions of the parent are listed: the ids and the targets of the   *)
(* package have been compared with what was there.                          *)
LEMMA ListQuestionsStep ==
  ASSUME ClientsOK, NEW p \in Importers, ListQuestions(p)
  PROVE  ClientsOK'
<1>1. PICK old : old = importer[p]  OBVIOUS
<1>2. PICK j : j = image  OBVIOUS
<1>3. PICK busy : busy = {a.qid : a \in {x \in image.asks : x.form = importer[p].env.refs.parent}}  OBVIOUS
<1>4. old.at = "questions" /\ image' = image /\ ImageOK'
  BY <1>1 DEF ListQuestions, ClientsOK, ImageOK
<1>5. Sane(old) /\ ~old.added /\ old.inserted = <<>> /\ old.seen.forms \subseteq j.forms
  BY <1>1, <1>2, <1>4 DEF ClientsOK, Checked
<1>6. busy \subseteq 0..TopQid
  BY <1>3 DEF ClientsOK, ImageOK
<1>7. CASE Stop(p, "refused")
  BY <1>1, <1>4, <1>7, RefusedStep
<1>8. CASE ~Stop(p, "refused")
  <2>1. PICK at : at = IF old.env.kind # "refs" THEN "stores" ELSE "refs"  OBVIOUS
  <2>2. PICK r : r = [old EXCEPT !.busy = busy, !.at = at]  OBVIOUS
  <2>3. /\ importer' = [importer EXCEPT ![p] = r]
        /\ check_qids(old.env.refs, busy) /\ check_targets(old.seen.forms, old.env.refs)
    BY <1>1, <1>3, <1>8, <2>1, <2>2 DEF ListQuestions, HasBody
  <2>4. r = [at |-> at, env |-> old.env, seen |-> old.seen, busy |-> busy, body |-> old.body, inserted |-> old.inserted,
             plan |-> old.plan, planned |-> old.planned, added |-> old.added, out |-> old.out]
    BY <1>5, <2>2 DEF Sane, RecordOK
  <2>5. Sane(r)
    BY <1>5, <1>6, <2>4 DEF Sane, RecordOK
  <2>6. check_targets(j.forms, old.env.refs)
    BY <1>5, <2>3 DEF check_targets
  <2>7. at \in {"stores", "refs"} /\ (at = "refs" => old.env.kind = "refs")
    BY <2>1
  <2>8. \A id \in Range(r.inserted) : [set |-> Target, id |-> id] \in j.forms
    BY <1>5, <2>4 DEF Range
  <2>9. Checked(r, j) /\ Rested(r, j)
    BY <1>5, <2>3, <2>4, <2>6, <2>7, <2>8 DEF Checked, Rested, Leads
  <2> QED  BY <1>2, <1>4, <2>3, <2>5, <2>9, ClientStep
<1> QED  BY <1>7, <1>8
(* The stores are compared: those that stay have an id the form set has     *)
(* not.                                                                     *)
LEMMA ListStoresStep ==
  ASSUME ClientsOK, NEW p \in Importers, ListStores(p)
  PROVE  ClientsOK'
<1>1. PICK old : old = importer[p]  OBVIOUS
<1>2. PICK j : j = image  OBVIOUS
<1>3. PICK plan : plan = plan_varstores(old.env.body, j.stores)  OBVIOUS
<1>4. old.at = "stores" /\ image' = image /\ ImageOK'
  BY <1>1 DEF ListStores, ClientsOK, ImageOK
<1>5. /\ Sane(old) /\ ~old.added /\ old.inserted = <<>>
      /\ Leads(old) => check_qids(old.env.refs, old.busy) /\ check_targets(j.forms, old.env.refs)
  BY <1>1, <1>2, <1>4 DEF ClientsOK, Checked
<1>6. CASE Stop(p, "refused")
  BY <1>1, <1>4, <1>6, RefusedStep
<1>7. CASE plan.ok /\ importer' = [importer EXCEPT ![p] = [@ EXCEPT !.at = "add", !.body = plan.body, !.seen = image]]
  <2>1. PICK body : body = old.env.body  OBVIOUS
  <2>2. PICK kept : kept = {n \in DOMAIN body.stores : body.stores[n] \notin j.stores}  OBVIOUS
  <2>3. /\ plan.body = [forms |-> body.forms, stores |-> Restrict(body.stores, kept)]
        /\ \A d \in Range(body.stores) : ~\E t \in j.stores : t.id = d.id /\ t # d
    BY <1>3, <1>7, <2>1, <2>2 DEF plan_varstores
  <2>4. \A d \in Range(plan.body.stores), t \in j.stores : t.id # d.id
    <3> SUFFICES ASSUME NEW n \in kept, NEW t \in j.stores PROVE t.id # body.stores[n].id
      BY <2>3 DEF Range, Restrict
    <3>1. body.stores[n] \in Range(body.stores) /\ body.stores[n] \notin j.stores
      BY <2>2 DEF Range
    <3> QED  BY <2>3, <3>1
  <2>5. BodyOK(plan.body)
    BY <1>5, <2>1, <2>3 DEF Sane, BodyOK
  <2>6. PICK r : r = [old EXCEPT !.at = "add", !.body = plan.body, !.seen = j]  OBVIOUS
  <2>7. importer' = [importer EXCEPT ![p] = r]
    BY <1>1, <1>2, <1>7, <2>6
  <2>8. r = [at |-> "add", env |-> old.env, seen |-> j, busy |-> old.busy, body |-> plan.body, inserted |-> old.inserted,
             plan |-> old.plan, planned |-> old.planned, added |-> old.added, out |-> old.out]
    BY <1>5, <2>6 DEF Sane, RecordOK
  <2>9. Sane(r)
    BY <1>5, <2>5, <2>8 DEF Sane, RecordOK
  <2>10. Checked(r, j) /\ Rested(r, j)
    BY <1>5, <2>4, <2>8 DEF Checked, Rested, Leads
  <2> QED  BY <1>2, <1>4, <2>7, <2>9, <2>10, ClientStep
<1> QED  BY <1>1, <1>2, <1>3, <1>6, <1>7 DEF ListStores

(* The forms are added, or refused with nothing added. *)
LEMMA FormAddStep ==
  ASSUME ClientsOK, NEW p \in Importers, FormAdd(p)
  PROVE  ClientsOK'
<1>1. PICK old : old = importer[p]  OBVIOUS
<1>2. PICK i : i = image  OBVIOUS
<1>3. PICK body : body = old.body  OBVIOUS
<1>4. old.at = "add"
  BY <1>1 DEF FormAdd
<1>5. /\ Sane(old) /\ ~old.added
      /\ Leads(old) => check_qids(old.env.refs, old.busy) /\ check_targets(i.forms, old.env.refs)
      /\ old.planned => \A d \in Range(body.stores), t \in old.seen.stores : t.id # d.id
  BY <1>1, <1>2, <1>3, <1>4 DEF ClientsOK, Checked
<1>6. CASE Stop(p, "refused") /\ UNCHANGED image
  BY <1>1, <1>4, <1>6, RefusedStep
<1>7. CASE ~StoresFit(image, body) /\ Stop(p, "stores_refused") /\ UNCHANGED image
  <2>1. ASSUME old.planned PROVE Taken(old, image)
    <3>1. CASE \E m, n \in DOMAIN body.stores : body.stores[m].id = body.stores[n].id /\ m # n
      BY <1>3, <3>1 DEF Taken
    <3>2. CASE \E d \in Range(body.stores), t \in image.stores : t.id = d.id
      BY <1>3, <1>5, <2>1, <3>2 DEF Taken
    <3> QED  BY <1>7, <3>1, <3>2 DEF StoresFit
  <2> QED  BY <1>1, <1>5, <1>7, <2>1, StopStep
<1>8. CASE /\ image' = WithForms(image, body)
           /\ importer' = [importer EXCEPT ![p] =
                [@ EXCEPT !.inserted = [n \in DOMAIN body.forms |-> body.forms[n].id], !.added = TRUE,
                          !.at = IF HasRefs(p) THEN "refs" ELSE "idle", !.out = IF HasRefs(p) THEN "none" ELSE "imported"]]
  <2>1. PICK j : j = image'  OBVIOUS
  <2>2. i = ShapeOf(i) /\ IsSeq(i.refs) /\ (\A a \in i.asks : a.qid \in 0..TopQid)
    BY <1>2 DEF ClientsOK, ImageOK
  <2>3. j = [forms  |-> i.forms \cup {[set |-> Target, id |-> f.id] : f \in Range(body.forms)},
             asks   |-> i.asks \cup UNION {{[form |-> f.id, qid |-> q] : q \in f.qids} : f \in Range(body.forms)},
             refs   |-> i.refs, stores |-> i.stores \cup Range(body.stores)]
    BY <1>2, <1>8, <2>1, <2>2 DEF WithForms, ShapeOf
  <2>4. \A f \in Range(body.forms) : f.qids \subseteq 0..TopQid
    BY <1>3, <1>5 DEF Sane, BodyOK
  <2>5. ImageOK'
    <3>1. j = ShapeOf(j)
      BY <2>3 DEF ShapeOf
    <3>2. \A a \in j.asks : a.qid \in 0..TopQid
      BY <2>2, <2>3, <2>4
    <3>3. IsSeq(j.refs)
      BY <2>2, <2>3
    <3> QED  BY <2>1, <3>1, <3>2, <3>3 DEF ImageOK
  <2>6. PICK ids : ids = [n \in DOMAIN body.forms |-> body.forms[n].id]  OBVIOUS
  <2>7. IsSeq(ids)
    <3>1. body.forms \in Seq(Range(body.forms))
      BY <1>3, <1>5 DEF Sane, BodyOK, IsSeq
    <3>2. Len(body.forms) \in Nat /\ DOMAIN body.forms = 1..Len(body.forms)
      BY <3>1
    <3> QED  BY <2>6, <3>2 DEF IsSeq, Range
  <2>8. \A id \in Range(ids) : [set |-> Target, id |-> id] \in j.forms
    BY <2>3, <2>6 DEF Range
  <2>9. PICK at : at = IF Leads(old) THEN "refs" ELSE "idle"  OBVIOUS
  <2>10. PICK out : out = IF Leads(old) THEN "none" ELSE "imported"  OBVIOUS
  <2>11. PICK r : r = [old EXCEPT !.inserted = ids, !.added = TRUE, !.at = at, !.out = out]  OBVIOUS
  <2>12. importer' = [importer EXCEPT ![p] = r]
    BY <1>1, <1>8, <2>6, <2>9, <2>10, <2>11 DEF HasRefs, Leads
  <2>13. r = [at |-> at, env |-> old.env, seen |-> old.seen, busy |-> old.busy, body |-> old.body, inserted |-> ids,
              plan |-> old.plan, planned |-> old.planned, added |-> TRUE, out |-> out]
    BY <1>5, <2>11 DEF Sane, RecordOK
  <2>14. Sane(r)
    BY <1>5, <2>7, <2>13 DEF Sane, RecordOK
  <2>15. check_targets(i.forms, old.env.refs) => check_targets(j.forms, old.env.refs)
    BY <2>3 DEF check_targets
  <2>16. Checked(r, j) /\ Rested(r, j)
    BY <1>5, <2>8, <2>9, <2>10, <2>13, <2>15 DEF Checked, Rested, Leads
  <2>17. image.forms \subseteq j.forms /\ image.stores \subseteq j.stores
    BY <1>2, <2>3
  <2> QED  BY <2>1, <2>5, <2>12, <2>14, <2>16, <2>17, ClientStep
<1> QED  BY <1>1, <1>3, <1>6, <1>7, <1>8 DEF FormAdd
(* The plan of the reference step is a sequence. *)
LEMMA PlanIsSeq ==
  ASSUME NEW r, Sane(r), NEW plan, plan = plan_ref_step(r.env.refs, r.inserted, r.busy)
  PROVE  IsSeq(plan.records)
<1>1. PICK entries : entries = IF r.env.refs.entries = <<>> THEN <<[form |-> 0, set |-> Here, qid |-> 0]>> ELSE r.env.refs.entries
  OBVIOUS
<1>2. Len(entries) \in Nat /\ DOMAIN entries = 1..Len(entries)
  <2>1. CASE r.env.refs.entries = <<>>
    BY <1>1, <2>1
  <2>2. CASE r.env.refs.entries # <<>>
    BY <1>1, <2>2 DEF Sane, IsSeq
  <2> QED  BY <2>1, <2>2
<1>3. DOMAIN plan.records = DOMAIN entries /\ plan.records = [n \in DOMAIN plan.records |-> plan.records[n]]
  BY <1>1 DEF plan_ref_step
<1> QED  BY <1>2, <1>3 DEF IsSeq, Range

(* Why the engine refuses a reference that passed the checks. *)
LEMMA RefusalExcused ==
  ASSUME NEW r, NEW img, Sane(r), r.at = "refs", Checked(r, img),
         NEW plan, plan = plan_ref_step(r.env.refs, r.inserted, r.busy), plan.ok,
         NEW k \in DOMAIN plan.records, ~RefFits(img, plan.records, k),
         NEW s, s.plan = plan.records, s.seen = img, s.env = r.env, s.busy = r.busy
  PROVE  Excused(s)
<1>1. PICK refs : refs = r.env.refs  OBVIOUS
<1>2. PICK entries : entries = IF refs.entries = <<>> THEN <<[form |-> 0, set |-> Here, qid |-> 0]>> ELSE refs.entries
  OBVIOUS
<1>3. /\ DOMAIN plan.records = DOMAIN entries
      /\ plan.records[k].parent = refs.parent /\ plan.records[k].set = entries[k].set
      /\ plan.records[k].qid = IF entries[k].qid = 0 THEN next_qid(r.busy) ELSE entries[k].qid
      /\ plan.records[k].form = IF entries[k].form # 0 THEN entries[k].form ELSE IF r.inserted = <<>> THEN 0 ELSE r.inserted[1]
      /\ r.inserted # <<>> \/ \A e \in Range(entries) : e.form # 0
  BY <1>1, <1>2 DEF plan_ref_step
<1>4. /\ check_qids(refs, r.busy) /\ check_targets(img.forms, refs)
      /\ \A id \in Range(r.inserted) : [set |-> Target, id |-> id] \in img.forms
  BY <1>1 DEF Checked
<1>5. entries[k] \in Range(entries)
  BY <1>3 DEF Range
<1>6. refs.entries = <<>> => entries[k] = [form |-> 0, set |-> Here, qid |-> 0]
  BY <1>2, <1>3
<1>7. CASE ~validate_ref_target(img, plan.records[k])
  <2>1. CASE entries[k].form # 0
    <3>1. entries[k] \in Range(refs.entries)
      BY <1>2, <1>5, <1>6, <2>1
    <3> QED  BY <1>3, <1>4, <1>7, <2>1, <3>1 DEF validate_ref_target, check_targets
  <2>2. CASE entries[k].form = 0
    <3>1. r.inserted # <<>>
      BY <1>3, <1>5, <2>2
    <3>2. r.inserted[1] \in Range(r.inserted)
      BY <3>1 DEF Sane, IsSeq, Range
    <3>3. entries[k].set # Here
      BY <1>3, <1>4, <1>7, <2>2, <3>1, <3>2 DEF validate_ref_target
    <3>4. entries[k] \in Range(refs.entries)
      BY <1>2, <1>5, <1>6, <3>3
    <3> QED  BY <1>1, <2>2, <3>3, <3>4 DEF Excused
  <2> QED  BY <2>1, <2>2
<1>8. CASE ~check_ref_slots(img, plan.records, k)
  <2>1. CASE \E m \in 1..(k - 1) : plan.records[m].qid = plan.records[k].qid
    <3>1. IsSeq(plan.records)
      BY PlanIsSeq
    <3>2. Len(plan.records) \in Nat /\ DOMAIN plan.records = 1..Len(plan.records)
      BY <3>1 DEF IsSeq
    <3>3. PICK m \in 1..(k - 1) : plan.records[m].qid = plan.records[k].qid
      BY <2>1
    <3>4. m \in DOMAIN plan.records /\ m # k
      BY <3>2, <3>3
    <3> QED  BY <3>3, <3>4 DEF Excused
  <2>2. CASE \E a \in img.asks : a.qid = plan.records[k].qid
    <3>1. PICK a \in img.asks : a.qid = plan.records[k].qid
      BY <2>2
    <3>2. CASE a.qid \notin r.busy
      BY <3>1, <3>2 DEF Excused
    <3>3. CASE a.qid \in r.busy
      <4>1. CASE entries[k].qid = 0
        <5>1. PICK B : B = r.busy  OBVIOUS
        <5>2. B \in SUBSET (0..TopQid) /\ next_qid(B) \in B /\ plan.records[k].qid = next_qid(B)
          BY <1>3, <3>1, <3>3, <4>1, <5>1 DEF Sane
        <5>3. next_qid(B) = TopQid
          BY <5>2, NextIsNew
        <5> QED  BY <5>1, <5>2, <5>3 DEF Excused
      <4>2. CASE entries[k].qid # 0
        <5>1. entries[k] \in Range(refs.entries)
          BY <1>2, <1>5, <1>6, <4>2
        <5> QED  BY <1>3, <1>4, <3>1, <3>3, <4>2, <5>1 DEF check_qids
      <4> QED  BY <4>1, <4>2
    <3> QED  BY <3>2, <3>3
  <2> QED  BY <1>8, <2>1, <2>2 DEF check_ref_slots
<1> QED  BY <1>7, <1>8 DEF RefFits

(* Sequences one behind the other. *)
LEMMA JoinIsSeq ==
  ASSUME NEW a, NEW b, IsSeq(a), IsSeq(b)
  PROVE  IsSeq(a \o b)
<1>1. PICK S : S = Range(a) \cup Range(b)  OBVIOUS
<1>2. a \in Seq(S) /\ b \in Seq(S)
  <2>1. Len(a) \in Nat /\ DOMAIN a = 1..Len(a) /\ Len(b) \in Nat /\ DOMAIN b = 1..Len(b)
    BY DEF IsSeq
  <2>2. a \in [1..Len(a) -> Range(a)] /\ b \in [1..Len(b) -> Range(b)]
    BY <2>1 DEF IsSeq
  <2> QED  BY <1>1, <2>1, <2>2
<1>3. PICK c : c = a \o b  OBVIOUS
<1>4. c \in Seq(S)
  BY <1>2, <1>3
<1>5. Len(c) \in Nat /\ DOMAIN c = 1..Len(c) /\ c = [n \in 1..Len(c) |-> c[n]]
  BY <1>4
<1>6. \A n \in 1..Len(c) : c[n] \in Range(c)
  BY <1>5 DEF Range
<1>7. c \in Seq(Range(c))
  BY <1>5, <1>6
<1> QED  BY <1>3, <1>7 DEF IsSeq

(* The references are added, or not: the forms are there by now. *)
LEMMA RefStepStep ==
  ASSUME ClientsOK, NEW p \in Importers, RefStep(p)
  PROVE  ClientsOK'
<1>1. PICK old : old = importer[p]  OBVIOUS
<1>2. PICK i : i = image  OBVIOUS
<1>3. PICK plan : plan = plan_ref_step(old.env.refs, old.inserted, old.busy)  OBVIOUS
<1>4. old.at = "refs" /\ Sane(old) /\ Checked(old, i)
  BY <1>1, <1>2 DEF RefStep, ClientsOK
<1>5. PICK out \in {"no_form", "imported", "ref_refused", "ref_failed"} :
        /\ importer' = [importer EXCEPT ![p] = [@ EXCEPT !.at = "idle", !.out = out, !.plan = plan.records, !.seen = image]]
        /\ image' = image \/ image' = [image EXCEPT !.refs = @ \o plan.records]
        /\ out = "ref_refused" => plan.ok /\ \E n \in DOMAIN plan.records : ~RefFits(image, plan.records, n)
  BY <1>1, <1>3 DEF RefStep
<1>6. PICK j : j = image'  OBVIOUS
<1>7. ImageOK' /\ j.forms = i.forms /\ j.stores = i.stores
  <2>1. i = ShapeOf(i) /\ IsSeq(i.refs) /\ (\A a \in i.asks : a.qid \in 0..TopQid)
    BY <1>2 DEF ClientsOK, ImageOK
  <2>2. CASE image' = image
    BY <1>2, <1>6, <2>2 DEF ClientsOK, ImageOK
  <2>3. CASE image' = [image EXCEPT !.refs = @ \o plan.records]
    <3>1. j = [forms |-> i.forms, asks |-> i.asks, refs |-> i.refs \o plan.records, stores |-> i.stores]
      BY <1>2, <1>6, <2>1, <2>3 DEF ShapeOf
    <3>2. IsSeq(plan.records)
      BY <1>3, <1>4, PlanIsSeq
    <3>3. IsSeq(i.refs \o plan.records)
      BY <2>1, <3>2, JoinIsSeq
    <3>4. j = ShapeOf(j) /\ j.asks = i.asks /\ IsSeq(j.refs)
      BY <3>1, <3>3 DEF ShapeOf
    <3> QED  BY <1>6, <2>1, <3>1, <3>4 DEF ImageOK
  <2> QED  BY <1>5, <2>2, <2>3
<1>8. PICK r : r = [old EXCEPT !.at = "idle", !.out = out, !.plan = plan.records, !.seen = i]  OBVIOUS
<1>9. importer' = [importer EXCEPT ![p] = r]
  BY <1>1, <1>2, <1>5, <1>8
<1>10. r = [at |-> "idle", env |-> old.env, seen |-> i, busy |-> old.busy, body |-> old.body, inserted |-> old.inserted,
            plan |-> plan.records, planned |-> old.planned, added |-> old.added, out |-> out]
  BY <1>4, <1>8 DEF Sane, RecordOK
<1>11. Sane(r)
  BY <1>4, <1>10 DEF Sane, RecordOK
<1>12. out = "ref_refused" => Excused(r)
  <2> SUFFICES ASSUME out = "ref_refused" PROVE Excused(r)
    OBVIOUS
  <2>1. PICK k \in DOMAIN plan.records : ~RefFits(i, plan.records, k)
    BY <1>2, <1>5
  <2>2. plan.ok
    BY <1>5
  <2>3. r.plan = plan.records /\ r.seen = i /\ r.env = old.env /\ r.busy = old.busy
    BY <1>10
  <2> QED  BY <1>3, <1>4, <2>1, <2>2, <2>3, RefusalExcused
<1>13. Checked(r, j) /\ Rested(r, j)
  BY <1>5, <1>10, <1>12 DEF Checked, Rested
<1> QED  BY <1>2, <1>6, <1>7, <1>9, <1>11, <1>13, ClientStep
(***************************************************************************)
(* The theorem.                                                            *)
(***************************************************************************)
(* The invariant of the imports holds at the start and every step keeps it. *)
THEOREM PackageTheorem == FPSpec => []FPInv
<1>1. FPInit => ClientsOK
  <2> SUFFICES ASSUME FPInit PROVE ClientsOK
    OBVIOUS
  <2>1. PICK r : r = Begun(BadEnvelope, "idle", "none")  OBVIOUS
  <2>2. BodyOK(BadEnvelope.body) /\ IsSeq(BadEnvelope.refs.entries)
    BY Nothing DEF BadEnvelope, Envelope
  <2>3. Sane(r) /\ r.at = "idle" /\ r.out = "none"
    BY <2>1, <2>2, BegunSane
  <2>4. PICK i : i = FirstImage  OBVIOUS
  <2>5. Checked(r, i) /\ Rested(r, i)
    BY <2>3 DEF Checked, Rested
  <2>6. ImageOK
    BY PackageAssumption DEF FPInit, ImageOK
  <2>7. importer = [p \in Importers |-> r] /\ image = i
    BY <2>1, <2>4 DEF FPInit, Resting
  <2> QED  BY <2>3, <2>5, <2>6, <2>7 DEF ClientsOK
<1>2. ClientsOK /\ [FPNext]_fpvars => ClientsOK'
  <2> SUFFICES ASSUME ClientsOK, [FPNext]_fpvars PROVE ClientsOK'
    OBVIOUS
  <2>1. CASE UNCHANGED fpvars
    BY <2>1 DEF fpvars, ClientsOK, ImageOK
  <2>2. ASSUME NEW p \in Importers, NEW f \in Files, BeginImport(p, f) \/ FormAddCommand(p, f) PROVE ClientsOK'
    BY <2>2, BeginStep, FormAddCommandStep, PackageAssumption
  <2>3. ASSUME NEW p \in Importers, ImportExported(p) PROVE ClientsOK'
    <3>1. PICK g \in image.forms : BeginImport(p, wrap_export(image, g.id))
      BY <2>3 DEF ImportExported
    <3>2. PICK f : f = wrap_export(image, g.id)  OBVIOUS
    <3>3. FileOK(f)
      BY <3>2, ExportOK
    <3> QED  BY <3>1, <3>2, <3>3, BeginStep
  <2>4. ASSUME NEW p \in Importers, LookFails(p) PROVE ClientsOK'
    BY <2>4, RefusedStep DEF LookFails
  <2> QED  BY <2>1, <2>2, <2>3, <2>4, ListFormsStep, ListQuestionsStep, ListStoresStep, FormAddStep, RefStepStep DEF FPNext
<1> QED  BY <1>1, <1>2, ByClient, PTL DEF FPSpec

(* An import that will not go through is refused before it changes the      *)
(* image, but for the races and the repeated ids the property names: for    *)
(* any files, any image and any number of clients that import at once       *)
(* (commands/hii.rs import, envelope.rs plan_varstores, plan_ref_step).     *)
THEOREM ImportsForeseenTheorem == FPSpec => []ImportsForeseen
<1>1. FPInv => ImportsForeseen
  BY DEF FPInv
<1> QED  BY <1>1, PackageTheorem, PTL
==============================================================================
