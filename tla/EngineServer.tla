---------------------------- MODULE EngineServer ----------------------------
(***************************************************************************)
(* The gRPC server of uefi-engine (rpc/server.rs) over Storage: the cache  *)
(* of parsed images, the handlers, which tonic runs concurrently on a      *)
(* multi-threaded runtime, and the session GC (session.rs).                *)
(*                                                                         *)
(* A handler is a program counter and a frame.  A step is what the code    *)
(* does under one lock or in one system call: whatever lies between two    *)
(* acquisitions of the images mutex (tokio) or of the db mutex is a point  *)
(* where the other handlers and the GC can run.  Reading a node tree,      *)
(* parsing and building are functions of the content and part of the step  *)
(* that uses them.  A cached tree is the set of edits applied to it.       *)
(***************************************************************************)
EXTENDS Storage

CONSTANTS
    Calls,          \* the operations clients use
    Modes,          \* the modes in which they open images
    Overlap,        \* may two clients call on one image at the same time?
    Faults,         \* which of "crash", "io", "cancel" happen
    Purge,          \* UEFIPATCHER_PURGE_ARTIFACTS
    TTL,            \* UEFIPATCHER_SESSION_TTL_SECS
    MaxClock,       \* bound on the clock
    WriteGated,     \* edits refused on an image opened read-only (HII, NVAR, TSE)
    SkipIfApplied,  \* edits that flush only if they changed a byte (unlock, set_value)
    Partial,        \* edits that can fail half-way without a rollback
    Unbuildable,    \* edits whose tree build_image rejects
    Shrinking,      \* edits after which the image is smaller
    Inserting,      \* edits that add a file
    Removing        \* edits that remove one

Ops == {"session_create", "session_destroy", "image_open", "image_close",
        "mutate", "nodes_list", "nodes_search", "image_save", "node_extract",
        "artifact_import", "artifact_export",
        "snapshot_create", "snapshot_restore"}

ASSUME EngineAssumption ==
    /\ Calls \subseteq Ops
    /\ Modes \subseteq {"read", "write"}
    /\ Overlap \in BOOLEAN /\ Purge \in BOOLEAN
    /\ Faults \subseteq {"crash", "io", "cancel"}
    /\ TTL \in Nat /\ MaxClock \in Nat
    /\ None \notin Edits

ASSUME EditAssumption ==
    /\ IsFiniteSet(Edits)
    /\ \A C \in {WriteGated, SkipIfApplied, Partial, Unbuildable, Shrinking,
                 Inserting, Removing} : C \subseteq Edits

VARIABLES
    cache,       \* images: the parsed trees
    pc, frame,   \* where each handler is, and its request and ids
    buf,         \* the bytes a handler holds
    gcTodo,      \* the expired sessions the GC has listed
    gcPurging,   \* the one whose directory it is about to remove
    now,         \* SystemTime, in seconds
    (* what the clients have been told: history, no step depends on it *)
    acked,       \* edits whose RPC returned Ok, since the last restore
    lastOp       \* when the last image RPC of a session returned Ok

handlerVars == <<pc, frame, buf>>
gcVars      == <<gcTodo, gcPurging>>
historyVars == <<acked, lastOp>>
vars == <<tableVars, idVars, fileVars, cache, handlerVars, gcVars, now, historyVars>>

Labels == {"idle", "sess_insert", "destroy_rows", "destroy_files",
           "open_check", "w_open", "w_write", "w_rename", "open_row", "open_cache",
           "load_check", "load_row", "load_read", "load_insert", "read", "save",
           "src_row", "src_read", "mutate",
           "flush_build", "flush_size", "flush_validate", "flush_swap", "touch",
           "close_row", "close_delete", "close_file", "close_evict",
           "art_check", "art_store", "art_insert", "exp_row", "exp_read",
           "snap_row", "snap_read", "snap_store", "snap_insert",
           "rest_snap", "rest_row", "rest_read", "rest_evict"}

NoFrame == [op |-> "none", session |-> None, image |-> None, edit |-> None,
            snapshot |-> None, artifact |-> None, mode |-> "read"]

Frames == [op : Ops \cup {"none"}, session : Sessions \cup {None},
           image : Images \cup {None}, edit : Edits \cup {None},
           snapshot : Snapshots \cup {None}, artifact : Artifacts \cup {None},
           mode : {"read", "write"}]

TypeOK ==
    /\ StorageTypeOK
    /\ cache \in [Images -> {None} \cup Contents]
    /\ pc \in [Rpcs -> Labels]
    /\ frame \in [Rpcs -> Frames]
    /\ buf \in [Rpcs -> {None} \cup Contents]
    /\ gcTodo \subseteq Sessions
    /\ gcPurging \in Sessions \cup {None}
    /\ now \in Nat
    /\ acked \in [Images -> SUBSET Edits]
    /\ lastOp \in [Sessions -> Nat]

Init ==
    /\ StorageInit
    /\ cache = [i \in Images |-> None]
    /\ pc = [r \in Rpcs |-> "idle"]
    /\ frame = [r \in Rpcs |-> NoFrame]
    /\ buf = [r \in Rpcs |-> None]
    /\ gcTodo = {} /\ gcPurging = None
    /\ now = 0
    /\ acked = [i \in Images |-> {}]
    /\ lastOp = [s \in Sessions |-> 0]

-----------------------------------------------------------------------------
(* Parsing and building, as far as the handlers depend on them. *)

(* build_image: an error for a tree no volume of the image can hold. *)
Buildable(tree) == tree = Torn \/ tree \cap Unbuildable = {}

(* The length of the bytes.  An empty file has none. *)
Size(c) == IF c = Torn THEN 0 ELSE 1 + Cardinality(Shrinking \ c)

(* The files of a tree; the ones marked for removal are not live. *)
FileCount(c) == IF c = Torn THEN 0
                ELSE 1 + Cardinality(Inserting \cap c) + Cardinality(Removing \ c)

(* The bytes parse back to no fewer files than the current tree has, and to
   some volume if it has one.                                              *)
validate_flush_bytes(current, bytes) ==
    /\ FileCount(bytes) >= FileCount(current)
    /\ bytes = Torn => current = Torn

-----------------------------------------------------------------------------
(* Control flow of the handlers. *)

At(r, l)   == pc[r] = l
Goto(r, l) == pc' = [pc EXCEPT ![r] = l] /\ UNCHANGED <<frame, buf>>
GotoWith(r, l, b) ==
    pc' = [pc EXCEPT ![r] = l] /\ buf' = [buf EXCEPT ![r] = b] /\ UNCHANGED frame

img(r) == frame[r].image

(* The frame is gone; the client is told nothing. *)
Drop(r) ==
    /\ pc' = [pc EXCEPT ![r] = "idle"]
    /\ frame' = [frame EXCEPT ![r] = NoFrame]
    /\ buf' = [buf EXCEPT ![r] = None]

(* The client is told Err(Status). *)
Fail(r) == Drop(r) /\ UNCHANGED historyVars

(* The client is told Ok. *)
Succeed(r) ==
    /\ Drop(r)
    /\ acked' = IF frame[r].op = "mutate"
                THEN [acked EXCEPT ![img(r)] = @ \cup {frame[r].edit}]
                ELSE acked
    /\ lastOp' = IF img(r) # None /\ frame[r].op # "image_close"
                 THEN [lastOp EXCEPT ![imageSession[img(r)]] = now]
                 ELSE lastOp

(* let _ = self.sm.touch(session_id): the last thing most handlers do. *)
Touch(r) ==
    /\ At(r, "touch")
    /\ touch_session(imageSession[img(r)], now)
    /\ Succeed(r)
    /\ UNCHANGED <<idVars, fileVars, cache, gcVars, now>>

-----------------------------------------------------------------------------
(* Requests.  A client names ids it was once given, alive or not. *)

Opened == {i \in Images : imageSession[i] # None}
Taken  == {k \in Snapshots : snapshotImage[k] # None}
Stored == {a \in Artifacts : artifactSession[a] # None}

ImageOps == {"image_close", "nodes_list", "nodes_search", "image_save",
             "node_extract", "snapshot_create"}

SessionRequest(op, s, m) ==
    [op |-> op, session |-> s, image |-> None, edit |-> None,
     snapshot |-> None, artifact |-> None, mode |-> m]

ImageRequest(op, i, e, k, a) ==
    [op |-> op, session |-> None, image |-> i, edit |-> e,
     snapshot |-> k, artifact |-> a, mode |-> "read"]

(* The first step of a handler. *)
Entry(f) ==
    CASE f.op = "session_create"   -> "sess_insert"
      [] f.op = "session_destroy"  -> "destroy_rows"
      [] f.op = "image_open"       -> "open_check"
      [] f.op = "image_close"      -> "close_row"
      [] f.op = "artifact_import"  -> "art_check"
      [] f.op = "artifact_export"  -> "exp_row"
      [] f.op = "snapshot_create"  -> "snap_row"
      [] f.op = "snapshot_restore" -> "rest_snap"
      [] f.op = "mutate" /\ f.artifact # None -> "src_row"
      [] OTHER -> "load_check"

(* Bound: a call that mints an id is made only while one is left for it. *)
Makes(op) ==
    CASE op = "session_create"  -> Sessions \ minted
      [] op = "image_open"      -> Images \ Opened
      [] op = "snapshot_create" -> Snapshots \ Taken
      [] OTHER                  -> Artifacts \ Stored

IdsLeft(op) ==
    op \in {"session_create", "image_open", "snapshot_create",
            "artifact_import", "node_extract"} =>
        Cardinality({q \in Rpcs : frame[q].op = op \/ {op, frame[q].op} =
                                       {"artifact_import", "node_extract"}})
            < Cardinality(Makes(op))

Start(r, f) ==
    /\ f.op \in Calls /\ IdsLeft(f.op)
    /\ Overlap \/ f.image = None \/ \A q \in Rpcs : img(q) # f.image
    /\ frame' = [frame EXCEPT ![r] = f]
    /\ pc' = [pc EXCEPT ![r] = Entry(f)]
    /\ UNCHANGED buf

Call(r) ==
    /\ At(r, "idle")
    /\ \/ Start(r, SessionRequest("session_create", None, "read"))
       \/ \E s \in minted : \E op \in {"session_destroy", "artifact_import"} :
            Start(r, SessionRequest(op, s, "read"))
       \/ \E s \in minted : \E m \in Modes :
            Start(r, SessionRequest("image_open", s, m))
       \/ \E i \in Opened : \E op \in ImageOps :
            Start(r, ImageRequest(op, i, None, None, None))
       \/ \E i \in Opened : \E e \in Edits : \E a \in Stored \cup {None} :
            Start(r, ImageRequest("mutate", i, e, None, a))
       \/ \E a \in Stored :
            Start(r, ImageRequest("artifact_export", None, None, None, a))
       \/ \E i \in Opened : \E k \in Taken :
            Start(r, ImageRequest("snapshot_restore", i, None, k, None))
    /\ UNCHANGED <<tableVars, idVars, fileVars, cache, gcVars, now, historyVars>>

-----------------------------------------------------------------------------
(* Sessions (session.rs). *)

create_session(r) ==
    /\ At(r, "sess_insert")
    /\ \E s \in Sessions \ minted :
         /\ minted' = minted \cup {s}
         /\ insert_session(s, now)
    /\ Succeed(r)
    /\ UNCHANGED <<imageSession, imageMode, snapshotImage, artifactSession,
                   fileVars, cache, gcVars, now>>

(* Mutant: the directory goes whatever purge_artifacts says. *)
destroy_rows_purging(r) ==
    /\ At(r, "destroy_rows")
    /\ delete_session(frame[r].session)
    /\ Goto(r, "destroy_files")
    /\ UNCHANGED <<idVars, fileVars, cache, gcVars, now, historyVars>>

(* destroy_session: the rows, then the directory if asked to.  The cached
   trees of the session stay.                                              *)
destroy_rows(r) ==
    /\ At(r, "destroy_rows")
    /\ delete_session(frame[r].session)
    /\ IF Purge THEN Goto(r, "destroy_files") /\ UNCHANGED historyVars
                ELSE Succeed(r)
    /\ UNCHANGED <<idVars, fileVars, cache, gcVars, now>>

destroy_files(r) ==
    /\ At(r, "destroy_files")
    /\ remove_session_dir(frame[r].session)
    /\ Succeed(r)
    /\ UNCHANGED <<tableVars, idVars, cache, gcVars, now>>

(* spawn_gc: a tick lists the expired sessions and then destroys them one by
   one, without another look at last_activity.                             *)
GcTick ==
    /\ gcTodo = {} /\ gcPurging = None
    /\ list_expired(now, TTL) # {}
    /\ gcTodo' = list_expired(now, TTL)
    /\ UNCHANGED <<tableVars, idVars, fileVars, cache, handlerVars, gcPurging, now, historyVars>>

(* Mutant: the DELETE of a listed session is lost. *)
GcDelete_lost(s) ==
    /\ s \in gcTodo /\ gcPurging = None
    /\ gcTodo' = gcTodo \ {s}
    /\ UNCHANGED <<tableVars, idVars, fileVars, cache, handlerVars, gcPurging, now, historyVars>>

GcDelete(s) ==
    /\ s \in gcTodo /\ gcPurging = None
    /\ delete_session(s)
    /\ gcTodo' = gcTodo \ {s}
    /\ gcPurging' = IF Purge THEN s ELSE None
    /\ UNCHANGED <<idVars, fileVars, cache, handlerVars, now, historyVars>>

GcPurge ==
    /\ gcPurging # None
    /\ remove_session_dir(gcPurging)
    /\ gcPurging' = None
    /\ UNCHANGED <<tableVars, idVars, cache, handlerVars, gcTodo, now, historyVars>>

Tick ==
    /\ now < MaxClock
    /\ now' = now + 1
    /\ UNCHANGED <<tableVars, idVars, fileVars, cache, handlerVars, gcVars, historyVars>>

-----------------------------------------------------------------------------
(* atomic_write of buf[r] to the image file of img(r), shared by
   open_from_bytes, flush_image and image_snapshot_restore.                *)

(* Mutant: the rename comes before the bytes are written. *)
WriteOpen_unwritten(r) ==
    /\ At(r, "w_open")
    /\ open_tmp(r, img(r))
    /\ Goto(r, "w_rename")
    /\ UNCHANGED <<tableVars, idVars, cache, gcVars, now, historyVars>>

WriteOpen(r) ==
    /\ At(r, "w_open")
    /\ open_tmp(r, img(r))
    /\ Goto(r, "w_write")
    /\ UNCHANGED <<tableVars, idVars, cache, gcVars, now, historyVars>>

WriteBytes(r) ==
    /\ At(r, "w_write")
    /\ write_fd(r, buf[r])
    /\ Goto(r, "w_rename")
    /\ UNCHANGED <<tableVars, idVars, cache, gcVars, now, historyVars>>

(* From here on a restore answers for the content of the snapshot. *)
WriteRename(r) ==
    /\ At(r, "w_rename")
    /\ rename_tmp(img(r))
    /\ Goto(r, CASE frame[r].op = "image_open" -> "open_row"
                 [] frame[r].op = "mutate"     -> "flush_swap"
                 [] OTHER                      -> "rest_evict")
    /\ acked' = IF frame[r].op = "snapshot_restore"
                THEN [acked EXCEPT ![img(r)] =
                                IF buf[r] = Torn THEN {} ELSE buf[r]]
                ELSE acked
    /\ UNCHANGED <<tableVars, idVars, cache, gcVars, now, lastOp>>

(* Mutant: a writer that lost its tmp file starts over. *)
WriteRenameFails_retry(r) ==
    /\ At(r, "w_rename")
    /\ tmpFile[img(r)] = None
    /\ Goto(r, "w_open")
    /\ UNCHANGED <<tableVars, idVars, fileVars, cache, gcVars, now, historyVars>>

(* The tmp file is gone: another writer renamed it, or it was purged. *)
WriteRenameFails(r) ==
    /\ At(r, "w_rename")
    /\ tmpFile[img(r)] = None
    /\ Fail(r)
    /\ UNCHANGED <<tableVars, idVars, fileVars, cache, gcVars, now>>

-----------------------------------------------------------------------------
(* image_open, image_upload: open_from_bytes. *)

(* session_exists, then a fresh image id. *)
OpenCheck(r) ==
    /\ At(r, "open_check")
    /\ \/ /\ frame[r].session \notin sessions
          /\ Fail(r)
          /\ UNCHANGED idVars
       \/ /\ frame[r].session \in sessions
          /\ \E i \in Images \ Opened :
               /\ imageSession' = [imageSession EXCEPT ![i] = frame[r].session]
               /\ imageMode' = [imageMode EXCEPT ![i] = frame[r].mode]
               /\ frame' = [frame EXCEPT ![r].image = i]
          /\ pc' = [pc EXCEPT ![r] = "w_open"]
          /\ buf' = [buf EXCEPT ![r] = {}]
          /\ UNCHANGED <<minted, snapshotImage, artifactSession, historyVars>>
    /\ UNCHANGED <<tableVars, fileVars, cache, gcVars, now>>

(* The INSERT fails on its foreign key if the session is gone by now. *)
OpenRow(r) ==
    /\ At(r, "open_row")
    /\ \/ insert_image(img(r)) /\ Goto(r, "open_cache") /\ UNCHANGED historyVars
       \/ imageSession[img(r)] \notin sessions /\ Fail(r) /\ UNCHANGED tableVars
    /\ UNCHANGED <<idVars, fileVars, cache, gcVars, now>>

OpenCache(r) ==
    /\ At(r, "open_cache")
    /\ cache' = [cache EXCEPT ![img(r)] = buf[r]]
    /\ Goto(r, "touch")
    /\ UNCHANGED <<tableVars, idVars, fileVars, gcVars, now, historyVars>>

-----------------------------------------------------------------------------
(* ensure_image_loaded: contains_key under one lock, row and file without
   it, insert under another.                                               *)

AfterLoad(r) == IF frame[r].op = "mutate" THEN "mutate" ELSE "read"

LoadCheck(r) ==
    /\ At(r, "load_check")
    /\ Goto(r, IF cache[img(r)] # None THEN AfterLoad(r) ELSE "load_row")
    /\ UNCHANGED <<tableVars, idVars, fileVars, cache, gcVars, now, historyVars>>

LoadRow(r) ==
    /\ At(r, "load_row")
    /\ \/ img(r) \in images /\ Goto(r, "load_read") /\ UNCHANGED historyVars
       \/ img(r) \notin images /\ Fail(r)
    /\ UNCHANGED <<tableVars, idVars, fileVars, cache, gcVars, now>>

LoadRead(r) ==
    /\ At(r, "load_read")
    /\ \/ /\ imageFile[img(r)] # None
          /\ GotoWith(r, "load_insert", imageFile[img(r)])
          /\ UNCHANGED historyVars
       \/ imageFile[img(r)] = None /\ Fail(r)
    /\ UNCHANGED <<tableVars, idVars, fileVars, cache, gcVars, now>>

LoadInsert(r) ==
    /\ At(r, "load_insert")
    /\ cache' = [cache EXCEPT ![img(r)] = buf[r]]
    /\ Goto(r, AfterLoad(r))
    /\ UNCHANGED <<tableVars, idVars, fileVars, gcVars, now, historyVars>>

(* get_or_load_image clones the tree and releases the lock: the reading
   handlers (nodes, forms, strings, gates, questions, values, NVAR and TSE
   reports) work on the clone.  All but the search touch the session.      *)
Read(r) ==
    /\ At(r, "read")
    /\ \/ /\ cache[img(r)] = None
          /\ Fail(r)
       \/ /\ cache[img(r)] # None
          /\ frame[r].op = "nodes_search"
          /\ Succeed(r)
       \/ /\ cache[img(r)] # None
          /\ frame[r].op # "nodes_search"
          /\ GotoWith(r, CASE frame[r].op = "image_save"   -> "save"
                           [] frame[r].op = "node_extract" -> "art_store"
                           [] OTHER                        -> "touch",
                      cache[img(r)])
          /\ UNCHANGED historyVars
    /\ UNCHANGED <<tableVars, idVars, fileVars, cache, gcVars, now>>

(* image_save builds from the clone and writes the client's file. *)
Save(r) ==
    /\ At(r, "save")
    /\ IF Buildable(buf[r]) THEN Succeed(r) ELSE Fail(r)
    /\ UNCHANGED <<tableVars, idVars, fileVars, cache, gcVars, now>>

-----------------------------------------------------------------------------
(* The mutating handlers: image_node_insert, _remove, _replace, _rebuild,
   hii_set_form_visibility, hii_form_set_add, hii_form_add, hii_form_hijack,
   hii_unlock, hii_set_value, hii_question_add, hii_page_add, nvar_set and
   tse_unhide.  get_or_load_image's own look at the cache fails only where
   the get_mut after it could fail as well, so they are one step.          *)

(* insert and replace can take their bytes from an artifact. *)
SourceRow(r) ==
    /\ At(r, "src_row")
    /\ \/ frame[r].artifact \in artifacts /\ Goto(r, "src_read") /\ UNCHANGED historyVars
       \/ frame[r].artifact \notin artifacts /\ Fail(r)
    /\ UNCHANGED <<tableVars, idVars, fileVars, cache, gcVars, now>>

SourceRead(r) ==
    /\ At(r, "src_read")
    /\ \/ artifactFile[frame[r].artifact] /\ Goto(r, "load_check") /\ UNCHANGED historyVars
       \/ ~artifactFile[frame[r].artifact] /\ Fail(r)
    /\ UNCHANGED <<tableVars, idVars, fileVars, cache, gcVars, now>>

(* Mutant: a rollback goes back to the image as it was opened. *)
MutateRefused_reset(r) ==
    /\ At(r, "mutate")
    /\ cache' = [cache EXCEPT ![img(r)] = IF @ = None THEN None ELSE {}]
    /\ Fail(r)
    /\ UNCHANGED <<tableVars, idVars, fileVars, gcVars, now>>

(* No tree to mutate, or the operation refuses: no such target, a barrier,
   NotWritable, a check phase that fails, a rollback.                      *)
MutateRefused(r) ==
    /\ At(r, "mutate")
    /\ Fail(r)
    /\ UNCHANGED <<tableVars, idVars, fileVars, cache, gcVars, now>>

(* Mutant: the mode the image was opened in is not looked at. *)
Writable_any(r) ==
    cache[img(r)] \notin {None, Torn}

Writable(r) ==
    /\ cache[img(r)] \notin {None, Torn}
    /\ frame[r].edit \in WriteGated => imageMode[img(r)] = "write"

(* An operation without with_rollback returns Err after its first write. *)
MutatePartly(r) ==
    /\ At(r, "mutate")
    /\ Writable(r) /\ frame[r].edit \in Partial
    /\ cache' = [cache EXCEPT ![img(r)] = @ \cup {frame[r].edit}]
    /\ Fail(r)
    /\ UNCHANGED <<tableVars, idVars, fileVars, gcVars, now>>

Mutate(r) ==
    /\ At(r, "mutate")
    /\ Writable(r)
    /\ cache' = [cache EXCEPT ![img(r)] = @ \cup {frame[r].edit}]
    /\ Goto(r, IF frame[r].edit \in SkipIfApplied \cap cache[img(r)]
               THEN "touch"
               ELSE "flush_build")
    /\ UNCHANGED <<tableVars, idVars, fileVars, gcVars, now, historyVars>>

-----------------------------------------------------------------------------
(* flush_image. *)

FlushBuild(r) ==
    /\ At(r, "flush_build")
    /\ \/ /\ cache[img(r)] # None
          /\ Buildable(cache[img(r)])
          /\ GotoWith(r, "flush_size", cache[img(r)])
          /\ UNCHANGED historyVars
       \/ /\ cache[img(r)] # None => ~Buildable(cache[img(r)])
          /\ Fail(r)
    /\ UNCHANGED <<tableVars, idVars, fileVars, cache, gcVars, now>>

Smaller(r) ==
    imageFile[img(r)] # None /\ Size(buf[r]) < Size(imageFile[img(r)])

(* Mutant: a smaller image is not flushed, and nobody is told. *)
FlushSize_silent(r) ==
    /\ At(r, "flush_size")
    /\ Goto(r, IF Smaller(r) THEN "touch" ELSE "flush_validate")
    /\ UNCHANGED <<tableVars, idVars, fileVars, cache, gcVars, now, historyVars>>

FlushSize(r) ==
    /\ At(r, "flush_size")
    /\ \/ ~Smaller(r) /\ Goto(r, "flush_validate") /\ UNCHANGED historyVars
       \/ Smaller(r) /\ Fail(r)
    /\ UNCHANGED <<tableVars, idVars, fileVars, cache, gcVars, now>>

Valid(r) == cache[img(r)] # None /\ validate_flush_bytes(cache[img(r)], buf[r])

(* Mutant: the tree is swapped, the bytes are not stored. *)
FlushValidate_unstored(r) ==
    /\ At(r, "flush_validate")
    /\ \/ Valid(r) /\ Goto(r, "flush_swap") /\ UNCHANGED historyVars
       \/ ~Valid(r) /\ Fail(r)
    /\ UNCHANGED <<tableVars, idVars, fileVars, cache, gcVars, now>>

FlushValidate(r) ==
    /\ At(r, "flush_validate")
    /\ \/ Valid(r) /\ Goto(r, "w_open") /\ UNCHANGED historyVars
       \/ ~Valid(r) /\ Fail(r)
    /\ UNCHANGED <<tableVars, idVars, fileVars, cache, gcVars, now>>

(* *img = refreshed: the tree parsed back from the bytes just written. *)
FlushSwap(r) ==
    /\ At(r, "flush_swap")
    /\ cache' = IF cache[img(r)] # None
                THEN [cache EXCEPT ![img(r)] = buf[r]]
                ELSE cache
    /\ Goto(r, "touch")
    /\ UNCHANGED <<tableVars, idVars, fileVars, gcVars, now, historyVars>>

-----------------------------------------------------------------------------
(* image_close. *)

CloseRow(r) ==
    /\ At(r, "close_row")
    /\ \/ img(r) \in images /\ Goto(r, "close_delete") /\ UNCHANGED historyVars
       \/ img(r) \notin images /\ Fail(r)
    /\ UNCHANGED <<tableVars, idVars, fileVars, cache, gcVars, now>>

(* Mutant: the row of a closed image stays. *)
CloseDelete_skipped(r) ==
    /\ At(r, "close_delete")
    /\ Goto(r, "close_file")
    /\ UNCHANGED <<tableVars, idVars, fileVars, cache, gcVars, now, historyVars>>

CloseDelete(r) ==
    /\ At(r, "close_delete")
    /\ delete_image(img(r))
    /\ Goto(r, "close_file")
    /\ UNCHANGED <<idVars, fileVars, cache, gcVars, now, historyVars>>

CloseFile(r) ==
    /\ At(r, "close_file")
    /\ remove_image_file(img(r))
    /\ Goto(r, "close_evict")
    /\ UNCHANGED <<tableVars, idVars, cache, gcVars, now, historyVars>>

(* Mutant: the tree of a closed image stays. *)
CloseEvict_skipped(r) ==
    /\ At(r, "close_evict")
    /\ Succeed(r)
    /\ UNCHANGED <<tableVars, idVars, fileVars, cache, gcVars, now>>

CloseEvict(r) ==
    /\ At(r, "close_evict")
    /\ cache' = [cache EXCEPT ![img(r)] = None]
    /\ Succeed(r)
    /\ UNCHANGED <<tableVars, idVars, fileVars, gcVars, now>>

-----------------------------------------------------------------------------
(* artifact_import, image_node_extract, artifact_export. *)

ArtifactCheck(r) ==
    /\ At(r, "art_check")
    /\ \/ frame[r].session \in sessions /\ Goto(r, "art_store") /\ UNCHANGED historyVars
       \/ frame[r].session \notin sessions /\ Fail(r)
    /\ UNCHANGED <<tableVars, idVars, fileVars, cache, gcVars, now>>

(* An extracted artifact goes to the session of the cached image. *)
ArtifactStore(r) ==
    /\ At(r, "art_store")
    /\ \E a \in Artifacts \ Stored :
         /\ artifactSession' = [artifactSession EXCEPT ![a] =
                                  IF frame[r].op = "node_extract"
                                  THEN imageSession[img(r)]
                                  ELSE frame[r].session]
         /\ store_artifact_file(a)
         /\ frame' = [frame EXCEPT ![r].artifact = a]
    /\ pc' = [pc EXCEPT ![r] = "art_insert"]
    /\ UNCHANGED <<tableVars, minted, imageSession, imageMode, snapshotImage,
                   cache, buf, gcVars, now, historyVars>>

ArtifactInsert(r) ==
    /\ At(r, "art_insert")
    /\ \/ insert_artifact(frame[r].artifact) /\ Succeed(r)
       \/ /\ artifactSession[frame[r].artifact] \notin sessions
          /\ Fail(r)
          /\ UNCHANGED tableVars
    /\ UNCHANGED <<idVars, fileVars, cache, gcVars, now>>

ExportRow(r) ==
    /\ At(r, "exp_row")
    /\ \/ frame[r].artifact \in artifacts /\ Goto(r, "exp_read") /\ UNCHANGED historyVars
       \/ frame[r].artifact \notin artifacts /\ Fail(r)
    /\ UNCHANGED <<tableVars, idVars, fileVars, cache, gcVars, now>>

ExportRead(r) ==
    /\ At(r, "exp_read")
    /\ \/ artifactFile[frame[r].artifact] /\ Succeed(r)
       \/ ~artifactFile[frame[r].artifact] /\ Fail(r)
    /\ UNCHANGED <<tableVars, idVars, fileVars, cache, gcVars, now>>

-----------------------------------------------------------------------------
(* image_snapshot_create copies the stored file, not the cached tree. *)

SnapshotRow(r) ==
    /\ At(r, "snap_row")
    /\ \/ img(r) \in images /\ Goto(r, "snap_read") /\ UNCHANGED historyVars
       \/ img(r) \notin images /\ Fail(r)
    /\ UNCHANGED <<tableVars, idVars, fileVars, cache, gcVars, now>>

SnapshotRead(r) ==
    /\ At(r, "snap_read")
    /\ \/ /\ imageFile[img(r)] # None
          /\ GotoWith(r, "snap_store", imageFile[img(r)])
          /\ UNCHANGED historyVars
       \/ imageFile[img(r)] = None /\ Fail(r)
    /\ UNCHANGED <<tableVars, idVars, fileVars, cache, gcVars, now>>

SnapshotStore(r) ==
    /\ At(r, "snap_store")
    /\ \E k \in Snapshots \ Taken :
         /\ snapshotImage' = [snapshotImage EXCEPT ![k] = img(r)]
         /\ store_snapshot_file(k, buf[r])
         /\ frame' = [frame EXCEPT ![r].snapshot = k]
    /\ pc' = [pc EXCEPT ![r] = "snap_insert"]
    /\ UNCHANGED <<tableVars, minted, imageSession, imageMode, artifactSession,
                   cache, buf, gcVars, now, historyVars>>

SnapshotInsert(r) ==
    /\ At(r, "snap_insert")
    /\ \/ insert_image_snapshot(frame[r].snapshot) /\ Goto(r, "touch") /\ UNCHANGED historyVars
       \/ img(r) \notin images /\ Fail(r) /\ UNCHANGED tableVars
    /\ UNCHANGED <<idVars, fileVars, cache, gcVars, now>>

(* image_snapshot_restore overwrites the stored file and drops the tree. *)
RestoreSnapshot(r) ==
    /\ At(r, "rest_snap")
    /\ LET found == /\ frame[r].snapshot \in snapshots
                    /\ snapshotImage[frame[r].snapshot] = img(r)
       IN \/ found /\ Goto(r, "rest_row") /\ UNCHANGED historyVars
          \/ ~found /\ Fail(r)
    /\ UNCHANGED <<tableVars, idVars, fileVars, cache, gcVars, now>>

RestoreRow(r) ==
    /\ At(r, "rest_row")
    /\ \/ img(r) \in images /\ Goto(r, "rest_read") /\ UNCHANGED historyVars
       \/ img(r) \notin images /\ Fail(r)
    /\ UNCHANGED <<tableVars, idVars, fileVars, cache, gcVars, now>>

RestoreRead(r) ==
    /\ At(r, "rest_read")
    /\ LET bytes == snapshotFile[frame[r].snapshot]
       IN \/ bytes # None /\ GotoWith(r, "w_open", bytes) /\ UNCHANGED historyVars
          \/ bytes = None /\ Fail(r)
    /\ UNCHANGED <<tableVars, idVars, fileVars, cache, gcVars, now>>

(* Mutant: the tree from before the restore stays. *)
RestoreEvict_skipped(r) ==
    /\ At(r, "rest_evict")
    /\ Succeed(r)
    /\ UNCHANGED <<tableVars, idVars, fileVars, cache, gcVars, now>>

RestoreEvict(r) ==
    /\ At(r, "rest_evict")
    /\ cache' = [cache EXCEPT ![img(r)] = None]
    /\ Succeed(r)
    /\ UNCHANGED <<tableVars, idVars, fileVars, gcVars, now>>

-----------------------------------------------------------------------------
(* Faults. *)

(* A system call fails (ENOSPC, EIO): the handler returns Err there.  A
   write that fails leaves the file truncated.                             *)
IoError(r) ==
    /\ "io" \in Faults
    /\ pc[r] \in {"w_open", "w_write", "w_rename", "load_read", "save", "src_read",
                  "close_file", "art_store", "snap_read", "snap_store", "rest_read"}
    /\ Fail(r)
    /\ fd' = [fd EXCEPT ![r] = None]
    /\ UNCHANGED <<tableVars, idVars, imageFile, tmpFile, snapshotFile, artifactFile,
                   cache, gcVars, now>>

(* The client goes away and tonic drops the handler where it awaits the
   images mutex.                                                           *)
Cancel(r) ==
    /\ "cancel" \in Faults
    /\ pc[r] \in {"load_check", "load_insert", "read", "mutate", "flush_build",
                  "flush_validate", "flush_swap", "open_cache", "close_evict", "rest_evict"}
    /\ Fail(r)
    /\ UNCHANGED <<tableVars, idVars, fileVars, cache, gcVars, now>>

(* The process dies and serve starts again with an empty cache. *)
Crash ==
    /\ "crash" \in Faults
    /\ cache' = [i \in Images |-> None]
    /\ pc' = [r \in Rpcs |-> "idle"]
    /\ frame' = [r \in Rpcs |-> NoFrame]
    /\ buf' = [r \in Rpcs |-> None]
    /\ fd' = [r \in Rpcs |-> None]
    /\ gcTodo' = {} /\ gcPurging' = None
    /\ UNCHANGED <<tableVars, idVars, imageFile, tmpFile, snapshotFile, artifactFile,
                   now, historyVars>>

-----------------------------------------------------------------------------
SessionStep(r) == create_session(r) \/ destroy_rows(r) \/ destroy_files(r)
WriteStep(r) == WriteOpen(r) \/ WriteBytes(r) \/ WriteRename(r) \/ WriteRenameFails(r)
OpenStep(r) == OpenCheck(r) \/ OpenRow(r) \/ OpenCache(r)
LoadStep(r) == LoadCheck(r) \/ LoadRow(r) \/ LoadRead(r) \/ LoadInsert(r)
ReadStep(r) == Read(r) \/ Save(r) \/ Touch(r)
MutateStep(r) == \/ SourceRow(r) \/ SourceRead(r)
                 \/ MutateRefused(r) \/ MutatePartly(r) \/ Mutate(r)
FlushStep(r) == FlushBuild(r) \/ FlushSize(r) \/ FlushValidate(r) \/ FlushSwap(r)
CloseStep(r) == CloseRow(r) \/ CloseDelete(r) \/ CloseFile(r) \/ CloseEvict(r)
ArtifactStep(r) == \/ ArtifactCheck(r) \/ ArtifactStore(r) \/ ArtifactInsert(r)
                   \/ ExportRow(r) \/ ExportRead(r)
SnapshotStep(r) == \/ SnapshotRow(r) \/ SnapshotRead(r) \/ SnapshotStore(r)
                   \/ SnapshotInsert(r)
RestoreStep(r) == \/ RestoreSnapshot(r) \/ RestoreRow(r) \/ RestoreRead(r)
                  \/ RestoreEvict(r)

(* A step of the code of a running handler. *)
HandlerStep(r) ==
    \/ SessionStep(r) \/ WriteStep(r) \/ OpenStep(r) \/ LoadStep(r) \/ ReadStep(r)
    \/ MutateStep(r) \/ FlushStep(r) \/ CloseStep(r) \/ ArtifactStep(r)
    \/ SnapshotStep(r) \/ RestoreStep(r)

GcStep == GcTick \/ (\E s \in Sessions : GcDelete(s)) \/ GcPurge

Next ==
    \/ \E r \in Rpcs : Call(r) \/ HandlerStep(r) \/ IoError(r) \/ Cancel(r)
    \/ GcStep
    \/ Tick
    \/ Crash

Spec == Init /\ [][Next]_vars

(* The runtime keeps polling a handler that can run, and the GC's ticker
   keeps ticking.                                                          *)
FairSpec ==
    /\ Spec
    /\ \A r \in Rpcs : WF_vars(HandlerStep(r))
    /\ WF_vars(GcStep)

-----------------------------------------------------------------------------
(* Properties that hold whatever the clients do. *)

(* Every row names a file: a handler or a client that finds a row of an
   image, a snapshot or an artifact can read its file.  Rows are inserted
   after their file is stored, and deleted before it is removed, by handlers
   and a GC that do not wait for one another.                              *)
RowHasFile ==
    /\ \A i \in images : imageFile[i] # None
    /\ \A k \in snapshots : snapshotFile[k] # None
    /\ \A a \in artifacts : artifactFile[a]

(* The foreign keys of schema.rs. *)
ForeignKeys ==
    /\ \A i \in images : imageSession[i] \in sessions
    /\ \A k \in snapshots : snapshotImage[k] \in images
    /\ \A a \in artifacts : artifactSession[a] \in sessions

(* Ids: rows and files belong to ids that were minted, and the session whose
   directory is about to be removed has no row, and never will.            *)
IdsOK ==
    /\ sessions \subseteq minted
    /\ \A i \in Images : imageSession[i] # None => imageSession[i] \in minted
    /\ \A a \in Artifacts : artifactSession[a] # None => artifactSession[a] \in minted
    /\ images \subseteq Opened
    /\ gcTodo \subseteq minted
    /\ gcPurging # None => gcPurging \in minted \ sessions
    /\ \A r \in Rpcs : pc[r] = "destroy_files" => frame[r].session \in minted \ sessions

(* Labels at which a handler uses its image, its session, its bytes. *)
ImageLabels ==
    {"w_open", "w_write", "w_rename", "open_row", "open_cache", "src_row", "src_read",
     "load_check", "load_row", "load_read", "load_insert", "read", "save", "mutate",
     "flush_build", "flush_size", "flush_validate", "flush_swap", "touch",
     "close_row", "close_delete", "close_file", "close_evict",
     "snap_row", "snap_read", "snap_store", "snap_insert",
     "rest_snap", "rest_row", "rest_read", "rest_evict"}
BytesLabels ==
    {"w_open", "w_write", "w_rename", "open_row", "open_cache", "load_insert",
     "flush_size", "flush_validate", "flush_swap", "snap_store"}

FrameOK(r) ==
    /\ img(r) # None => img(r) \in Opened
    /\ frame[r].session # None => frame[r].session \in minted
    /\ pc[r] \in ImageLabels => img(r) # None
    /\ pc[r] \in BytesLabels => buf[r] # None
    /\ pc[r] \in {"open_check", "destroy_rows", "art_check"} => frame[r].session # None
    /\ pc[r] = "art_store" => IF frame[r].op = "node_extract"
                              THEN img(r) # None ELSE frame[r].session # None
    /\ pc[r] \in {"src_row", "src_read", "mutate", "flush_build", "flush_size", "flush_validate"}
         => frame[r].op = "mutate"
    /\ pc[r] \in {"rest_snap", "rest_row", "rest_read"} => frame[r].op = "snapshot_restore"
    /\ frame[r].op = "mutate" => img(r) # None /\ frame[r].edit # None
    /\ frame[r].op = "node_extract" => img(r) # None
    /\ frame[r].op = "snapshot_restore" => frame[r].snapshot # None
    /\ pc[r] = "open_row" => frame[r].op = "image_open"

FramesOK == \A r \in Rpcs : FrameOK(r)

Opening(r) ==
    frame[r].op = "image_open" /\ pc[r] \in {"w_open", "w_write", "w_rename", "open_row"}

(* A handler that is about to insert a row has stored the file, unless the
   session is gone (and with it the right to insert).                      *)
StoredFirst(r) ==
    /\ Opening(r) => img(r) \notin images
    /\ pc[r] = "close_file" => img(r) \notin images
    /\ pc[r] = "open_row" =>
          imageFile[img(r)] # None \/ imageSession[img(r)] \notin sessions
    /\ pc[r] = "snap_insert" =>
          /\ frame[r].snapshot \in Snapshots
          /\ snapshotImage[frame[r].snapshot] = img(r)
          /\ \/ snapshotFile[frame[r].snapshot] # None
             \/ imageSession[img(r)] \notin sessions
    /\ pc[r] = "art_insert" =>
          /\ frame[r].artifact \in Artifacts
          /\ artifactSession[frame[r].artifact] # None
          /\ \/ artifactFile[frame[r].artifact]
             \/ artifactSession[frame[r].artifact] \notin sessions

(* No other handler opens, or is closing, the image that a handler opens. *)
OpensAlone(r, q) ==
    /\ Opening(r) /\ img(r) = img(q)
    /\ Opening(q) \/ pc[q] \in {"close_delete", "close_file"}
    => r = q

InFlightOK ==
    /\ \A r \in Rpcs : StoredFirst(r)
    /\ \A r, q \in Rpcs : OpensAlone(r, q)

(* The inductive invariant behind RowHasFile: what the tables, the files and
   the handlers in flight owe to one another at every step.                *)
IInv == TypeOK /\ IdsOK /\ FramesOK /\ ForeignKeys /\ RowHasFile /\ InFlightOK

-----------------------------------------------------------------------------
(* Properties of clients that do not overlap calls on one image. *)

Quiet(i) == \A r \in Rpcs : img(r) # i

(* An edit that was answered with Ok is in the stored file, across failures
   of later edits, crashes, cancelled calls and the GC.                     *)
AckedIsStored == \A i \in images : acked[i] \subseteq imageFile[i]

(* The stored file is never a truncated one, at any point where the process
   could die or another handler could read it.                              *)
NeverTorn == \A i \in images : imageFile[i] # Torn

(* Between calls, the tree that the handlers serve has every edit that is
   in the file (it can have more: the ones whose flush failed).             *)
CacheNotBehind ==
    \A i \in images : Quiet(i) /\ cache[i] # None => imageFile[i] \subseteq cache[i]

(* When image_snapshot_restore answers Ok, the stored file is the snapshot
   and no tree from before is left to be flushed over it.                   *)
RestoreIsExact ==
    [][\A r \in Rpcs : RestoreEvict(r) =>
          /\ img(r) \in images => imageFile[img(r)] = snapshotFile[frame[r].snapshot]
          /\ cache'[img(r)] = None]_vars

(* An image that was opened read-only never stores an edit that needs write
   mode, whatever was reloaded, restored or retried on the way (the node
   operations do not need it).                                              *)
GatedNeedsWrite ==
    \A i \in images : imageMode[i] = "read" /\ imageFile[i] # Torn
                       => imageFile[i] \cap WriteGated = {}

(* image_save writes a file that has every edit that was answered with Ok. *)
SaveHasAcked ==
    [][\A r \in Rpcs : Save(r) /\ Buildable(buf[r]) => acked[img(r)] \subseteq buf[r]]_vars

(* When image_close has answered, and while the session lives, neither the
   file nor the tree of the image is left (as long as no process died and no
   system call failed on the way).                                          *)
ClosedIsGone ==
    \A i \in Opened : /\ i \notin images
                      /\ imageSession[i] \in sessions
                      /\ Quiet(i)
                      => imageFile[i] = None /\ cache[i] = None

-----------------------------------------------------------------------------
(* Properties of sessions and of the GC. *)

(* Without --purge-artifacts nothing but image_close removes a file: the
   GC and session_destroy delete rows only.                                 *)
FilesKept ==
    [][~Purge =>
         /\ \A i \in Images : imageFile[i] # None /\ imageFile'[i] = None
                              => \E r \in Rpcs : CloseFile(r) /\ img(r) = i
         /\ \A k \in Snapshots : snapshotFile[k] # None => snapshotFile'[k] # None
         /\ \A a \in Artifacts : artifactFile[a] => artifactFile'[a]]_vars

(* A session that expires is deleted, or a client comes back to it. *)
ExpiredIsCollected ==
    \A s \in Sessions : s \in list_expired(now, TTL) ~> s \notin list_expired(now, TTL)

(* Every call is answered, whatever the other handlers and the GC do. *)
CallEnds == \A r \in Rpcs : pc[r] # "idle" ~> pc[r] = "idle"
=============================================================================
