------------------------- MODULE EngineServerProofs -------------------------
(***************************************************************************)
(* Proofs about EngineServer, for every number of sessions, images,        *)
(* snapshots, artifacts, edits and concurrent handlers, every choice of    *)
(* faults and any clock.                                                   *)
(*                                                                         *)
(* IInv is inductive.  RowHasFile alone is not: an INSERT keeps it only    *)
(* because its handler has stored the file and nobody could remove it      *)
(* since, a removal only because the row is gone and cannot come back.     *)
(* IdsOK, FramesOK, ForeignKeys and InFlightOK say that of every handler   *)
(* in flight.  The steps fall into two kinds: those that change no row, id *)
(* or named file (LocalStep), and those that do (WorldStep), for which the *)
(* handlers that stand by must be shown undisturbed (Bystander).           *)
(***************************************************************************)
EXTENDS EngineServer, TLAPS

-----------------------------------------------------------------------------
(* The parts of TypeOK. *)

TableType ==
    /\ sessions \subseteq Sessions
    /\ images \subseteq Images
    /\ snapshots \subseteq Snapshots
    /\ artifacts \subseteq Artifacts
    /\ lastActivity \in [Sessions -> Nat]

IdType ==
    /\ minted \subseteq Sessions
    /\ imageSession \in [Images -> Sessions \cup {None}]
    /\ imageMode \in [Images -> {"read", "write"}]
    /\ snapshotImage \in [Snapshots -> Images \cup {None}]
    /\ artifactSession \in [Artifacts -> Sessions \cup {None}]

FileType ==
    /\ imageFile \in [Images -> {None} \cup Contents]
    /\ tmpFile \in [Images -> {None} \cup Contents]
    /\ snapshotFile \in [Snapshots -> {None} \cup Contents]
    /\ artifactFile \in [Artifacts -> BOOLEAN]
    /\ fd \in [Rpcs -> Fds]

CacheType == cache \in [Images -> {None} \cup Contents]

HandlerType ==
    /\ pc \in [Rpcs -> Labels]
    /\ frame \in [Rpcs -> Frames]
    /\ buf \in [Rpcs -> {None} \cup Contents]

GcType == gcTodo \subseteq Sessions /\ gcPurging \in Sessions \cup {None}

HistoryType ==
    /\ acked \in [Images -> SUBSET Edits]
    /\ lastOp \in [Sessions -> Nat]

(* TypeOK is the conjunction of its parts. *)
LEMMA TypeParts ==
    TypeOK <=> /\ TableType /\ IdType /\ FileType /\ CacheType /\ HandlerType
               /\ GcType /\ now \in Nat /\ HistoryType
  BY DEF TypeOK, StorageTypeOK, TableType, IdType, FileType, CacheType, HandlerType,
         GcType, HistoryType

(* The same for the next state. *)
LEMMA TypePartsNext ==
    TypeOK' <=> /\ TableType' /\ IdType' /\ FileType' /\ CacheType' /\ HandlerType'
                /\ GcType' /\ now' \in Nat /\ HistoryType'
  BY DEF TypeOK, StorageTypeOK, TableType, IdType, FileType, CacheType, HandlerType,
         GcType, HistoryType

(* A step that leaves the variables of a part alone keeps its type. *)
LEMMA TypeUnchanged ==
    /\ TableType /\ UNCHANGED tableVars => TableType'
    /\ IdType /\ UNCHANGED idVars => IdType'
    /\ FileType /\ UNCHANGED fileVars => FileType'
    /\ CacheType /\ UNCHANGED cache => CacheType'
    /\ HandlerType /\ UNCHANGED handlerVars => HandlerType'
    /\ GcType /\ UNCHANGED gcVars => GcType'
    /\ HistoryType /\ UNCHANGED historyVars => HistoryType'
  BY DEF TableType, IdType, FileType, CacheType, HandlerType, GcType, HistoryType,
         tableVars, idVars, fileVars, handlerVars, gcVars, historyVars

-----------------------------------------------------------------------------
(* What a step of handler r leaves of the handlers. *)

Others(r) == \A q \in Rpcs : q # r =>
                pc'[q] = pc[q] /\ frame'[q] = frame[q] /\ buf'[q] = buf[q]

(* A handler that returns leaves an empty frame and moves no other one. *)
LEMMA DropMoves ==
    ASSUME NEW r \in Rpcs, HandlerType, Drop(r)
    PROVE  /\ HandlerType' /\ Others(r)
           /\ pc'[r] = "idle" /\ frame'[r] = NoFrame /\ buf'[r] = None
  <1>1. NoFrame \in Frames
    BY DEF NoFrame, Frames
  <1>2. "idle" \in Labels
    BY DEF Labels
  <1> QED BY <1>1, <1>2 DEF HandlerType, Drop, Others

(* Goto moves one program counter and nothing else of the handlers. *)
LEMMA GotoMoves ==
    ASSUME NEW r \in Rpcs, NEW l \in Labels, HandlerType, Goto(r, l)
    PROVE  /\ HandlerType' /\ Others(r)
           /\ pc'[r] = l /\ frame'[r] = frame[r] /\ buf'[r] = buf[r]
  BY DEF HandlerType, Goto, Others

(* GotoWith also changes the bytes that the handler holds. *)
LEMMA GotoWithMoves ==
    ASSUME NEW r \in Rpcs, NEW l \in Labels, NEW b \in {None} \cup Contents,
           HandlerType, GotoWith(r, l, b)
    PROVE  /\ HandlerType' /\ Others(r)
           /\ pc'[r] = l /\ frame'[r] = frame[r] /\ buf'[r] = b
  BY DEF HandlerType, GotoWith, Others

(* Err is told by dropping the frame; the history does not change. *)
LEMMA FailType ==
    ASSUME NEW r \in Rpcs, HandlerType, HistoryType, Fail(r)
    PROVE  Drop(r) /\ HistoryType'
  BY TypeUnchanged DEF Fail

(* Ok is told by dropping the frame; the history stays typed. *)
LEMMA SucceedType ==
    ASSUME NEW r \in Rpcs, HandlerType, HistoryType, now \in Nat, FrameOK(r), Succeed(r)
    PROVE  Drop(r) /\ HistoryType'
  <1>1. frame[r].op = "mutate" => frame[r].edit \in Edits
    BY DEF HandlerType, Frames, FrameOK
  <1>2. acked' \in [Images -> SUBSET Edits]
    BY <1>1 DEF Succeed, HistoryType
  <1>3. lastOp' \in [Sessions -> Nat]
    BY DEF Succeed, HistoryType
  <1> QED BY <1>2, <1>3 DEF Succeed, HistoryType

-----------------------------------------------------------------------------
(* The operations of Storage keep the types. *)

(* The statements of storage/mod.rs keep the types of the tables. *)
LEMMA TablesStayTyped ==
    ASSUME TableType
    PROVE  /\ \A s \in Sessions, t \in Nat : insert_session(s, t) => TableType'
           /\ \A s, t : t \in Nat /\ touch_session(s, t) => TableType'
           /\ \A s : delete_session(s) => TableType'
           /\ \A i \in Images : insert_image(i) => TableType'
           /\ \A i : delete_image(i) => TableType'
           /\ \A k \in Snapshots : insert_image_snapshot(k) => TableType'
           /\ \A a \in Artifacts : insert_artifact(a) => TableType'
  <1>1. ASSUME NEW s \in Sessions, NEW t \in Nat, insert_session(s, t) PROVE TableType'
    BY <1>1 DEF TableType, insert_session
  <1>2. ASSUME NEW s, NEW t \in Nat, touch_session(s, t) PROVE TableType'
    BY <1>2 DEF TableType, touch_session
  <1>3. ASSUME NEW s, delete_session(s) PROVE TableType'
    BY <1>3 DEF TableType, delete_session
  <1>4. ASSUME NEW i \in Images, insert_image(i) PROVE TableType'
    BY <1>4 DEF TableType, insert_image
  <1>5. ASSUME NEW i, delete_image(i) PROVE TableType'
    BY <1>5 DEF TableType, delete_image
  <1>6. ASSUME NEW k \in Snapshots, insert_image_snapshot(k) PROVE TableType'
    BY <1>6 DEF TableType, insert_image_snapshot
  <1>7. ASSUME NEW a \in Artifacts, insert_artifact(a) PROVE TableType'
    BY <1>7 DEF TableType, insert_artifact
  <1> QED BY <1>1, <1>2, <1>3, <1>4, <1>5, <1>6, <1>7

(* The open of a tmp file keeps the types of the files. *)
LEMMA OpenTmpType ==
    ASSUME FileType, NEW r \in Rpcs, NEW i \in Images, open_tmp(r, i)
    PROVE  FileType'
  <1>1. Torn \in Contents /\ <<i, "tmp">> \in Fds
    BY DEF Contents, Fds
  <1> QED BY <1>1 DEF FileType, open_tmp

(* So does the write through a descriptor, wherever it points by now, *)
LEMMA WriteFdType ==
    ASSUME FileType, NEW r \in Rpcs, NEW b \in {None} \cup Contents, write_fd(r, b)
    PROVE  FileType'
  <1>1. None \in Fds
    BY DEF Fds
  <1> QED BY <1>1 DEF FileType, write_fd

(* the rename of a tmp file over the image, *)
LEMMA RenameTmpType ==
    ASSUME FileType, NEW i \in Images, rename_tmp(i)
    PROVE  FileType'
  <1>1. None \in Fds /\ <<i, "image">> \in Fds
    BY DEF Fds
  <1>2. fd' \in [Rpcs -> Fds]
    BY <1>1 DEF FileType, rename_tmp
  <1> QED BY <1>2 DEF FileType, rename_tmp

(* the removal of an image file, *)
LEMMA RemoveImageFileType ==
    ASSUME FileType, NEW i \in Images, remove_image_file(i)
    PROVE  FileType'
  <1>1. None \in Fds
    BY DEF Fds
  <1> QED BY <1>1 DEF FileType, remove_image_file

(* the removal of a session directory, *)
LEMMA RemoveSessionDirType ==
    ASSUME FileType, NEW s, remove_session_dir(s)
    PROVE  FileType'
  <1>1. None \in Fds
    BY DEF Fds
  <1> QED BY <1>1 DEF FileType, remove_session_dir

(* the storing of a snapshot *)
LEMMA StoreSnapshotFileType ==
    ASSUME FileType, NEW k \in Snapshots, NEW b \in {None} \cup Contents,
           store_snapshot_file(k, b)
    PROVE  FileType'
  BY DEF FileType, store_snapshot_file

(* and the storing of an artifact. *)
LEMMA StoreArtifactFileType ==
    ASSUME FileType, NEW a \in Artifacts, store_artifact_file(a)
    PROVE  FileType'
  BY DEF FileType, store_artifact_file

-----------------------------------------------------------------------------
(* Requests are well formed. *)

WellFormed(f) ==
    /\ f \in Frames
    /\ f.op \in Ops
    /\ f.image # None => f.image \in Opened
    /\ f.session # None => f.session \in minted
    /\ f.op \in {"session_destroy", "artifact_import", "image_open"} => f.session # None
    /\ f.op = "mutate" => f.edit # None
    /\ f.op = "snapshot_restore" => f.snapshot # None
    /\ f.op \in ImageOps \cup {"mutate", "snapshot_restore"} => f.image # None

(* A client's call starts a handler with a well-formed frame. *)
LEMMA CallIsWellFormed ==
    ASSUME IdType, NEW r \in Rpcs, Call(r)
    PROVE  \E f : WellFormed(f) /\ Start(r, f)
  <1> USE StorageAssumption, EngineAssumption
  <1>1. ASSUME NEW op \in {"session_create", "session_destroy", "artifact_import", "image_open"},
               NEW s \in minted \cup {None}, op # "session_create" => s \in minted,
               NEW m \in {"read", "write"}
        PROVE  WellFormed(SessionRequest(op, s, m))
    BY <1>1 DEF WellFormed, SessionRequest, Frames, Ops, ImageOps, IdType
  <1>2. ASSUME NEW op \in ImageOps \cup {"mutate", "snapshot_restore", "artifact_export"},
               NEW i \in Opened \cup {None}, op # "artifact_export" => i \in Opened,
               NEW e \in Edits \cup {None}, op = "mutate" => e \in Edits,
               NEW k \in Snapshots \cup {None}, op = "snapshot_restore" => k \in Snapshots,
               NEW a \in Artifacts \cup {None}
        PROVE  WellFormed(ImageRequest(op, i, e, k, a))
    BY <1>2 DEF WellFormed, ImageRequest, Frames, Ops, ImageOps, Opened
  <1>3. CASE Start(r, SessionRequest("session_create", None, "read"))
    BY <1>1, <1>3
  <1>4. ASSUME NEW s \in minted, NEW op \in {"session_destroy", "artifact_import"},
               Start(r, SessionRequest(op, s, "read"))
        PROVE  \E f : WellFormed(f) /\ Start(r, f)
    BY <1>1, <1>4
  <1>5. ASSUME NEW s \in minted, NEW m \in Modes,
               Start(r, SessionRequest("image_open", s, m))
        PROVE  \E f : WellFormed(f) /\ Start(r, f)
    BY <1>1, <1>5
  <1>6. ASSUME NEW i \in Opened, NEW op \in ImageOps,
               Start(r, ImageRequest(op, i, None, None, None))
        PROVE  \E f : WellFormed(f) /\ Start(r, f)
    <2>1. op \notin {"artifact_export", "mutate", "snapshot_restore"}
      BY DEF ImageOps
    <2> QED BY <1>2, <1>6, <2>1
  <1>7. ASSUME NEW i \in Opened, NEW e \in Edits, NEW a \in Stored \cup {None},
               Start(r, ImageRequest("mutate", i, e, None, a))
        PROVE  \E f : WellFormed(f) /\ Start(r, f)
    BY <1>2, <1>7 DEF Stored
  <1>8. ASSUME NEW a \in Stored, Start(r, ImageRequest("artifact_export", None, None, None, a))
        PROVE  \E f : WellFormed(f) /\ Start(r, f)
    BY <1>2, <1>8 DEF Stored
  <1>9. ASSUME NEW i \in Opened, NEW k \in Taken,
               Start(r, ImageRequest("snapshot_restore", i, None, k, None))
        PROVE  \E f : WellFormed(f) /\ Start(r, f)
    BY <1>2, <1>9 DEF Taken
  <1> QED BY <1>3, <1>4, <1>5, <1>6, <1>7, <1>8, <1>9 DEF Call

-----------------------------------------------------------------------------
(* Steps that leave the rows, the ids and the named files alone. *)

Inert == UNCHANGED <<sessions, images, snapshots, artifacts, idVars,
                     imageFile, snapshotFile, artifactFile, gcVars>>

(* A step of one handler that changes no row, no id and no named file keeps IInv
   if the handler itself is left in order. *)
LEMMA LocalStep ==
    ASSUME IInv, TypeOK', Inert, NEW r \in Rpcs, Others(r),
           FrameOK(r)', StoredFirst(r)',
           pc'[r] = "destroy_files" => frame'[r].session \in minted \ sessions,
           \A q \in Rpcs : q # r => OpensAlone(r, q)' /\ OpensAlone(q, r)'
    PROVE  IInv'
  <1> USE DEF Inert, idVars, gcVars
  <1>1. IdsOK'
    BY DEF IInv, IdsOK, Others, Opened
  <1>2. FramesOK'
    <2> SUFFICES ASSUME NEW q \in Rpcs, q # r PROVE FrameOK(q)'
      BY DEF FramesOK
    <2> QED BY DEF IInv, FramesOK, FrameOK, Others, Opened, img
  <1>3. ForeignKeys' /\ RowHasFile'
    BY DEF IInv, ForeignKeys, RowHasFile
  <1>4. \A q \in Rpcs : StoredFirst(q)'
    <2> SUFFICES ASSUME NEW q \in Rpcs, q # r PROVE StoredFirst(q)'
      OBVIOUS
    <2> QED BY DEF IInv, InFlightOK, StoredFirst, Opening, Others, img
  <1>5. ASSUME NEW q \in Rpcs, NEW p \in Rpcs PROVE OpensAlone(q, p)'
    <2>1. CASE q # r /\ p # r
      BY <2>1 DEF IInv, InFlightOK, OpensAlone, Opening, Others, img
    <2>2. CASE q = p
      BY <2>2 DEF OpensAlone
    <2> QED BY <2>1, <2>2
  <1> QED BY <1>1, <1>2, <1>3, <1>4, <1>5 DEF IInv, InFlightOK

(* A handler that returns disturbs nothing. *)
LEMMA Quits ==
    ASSUME IInv, TypeOK', Inert, NEW r \in Rpcs, Drop(r)
    PROVE  IInv'
  <1>1. /\ Others(r)
        /\ pc'[r] = "idle" /\ frame'[r] = NoFrame /\ buf'[r] = None
    BY DropMoves, TypeParts DEF IInv
  <1>2. /\ frame'[r].op = "none" /\ frame'[r].image = None
        /\ frame'[r].session = None
    BY <1>1 DEF NoFrame
  <1>3. FrameOK(r)'
    BY <1>1, <1>2 DEF FrameOK, ImageLabels, BytesLabels, img
  <1>4. StoredFirst(r)'
    BY <1>1, <1>2 DEF StoredFirst, Opening
  <1>5. \A q \in Rpcs : OpensAlone(r, q)' /\ OpensAlone(q, r)'
    BY <1>1, <1>2 DEF OpensAlone, Opening
  <1> QED BY <1>1, <1>3, <1>4, <1>5, LocalStep

(* What the frame of a handler has to hold at label l with bytes b. *)
Fits(r, l, b) ==
    /\ l \in ImageLabels => img(r) # None
    /\ l \in BytesLabels => b # None
    /\ l \in {"open_check", "destroy_rows", "art_check"} => frame[r].session # None
    /\ l = "art_store" => IF frame[r].op = "node_extract"
                          THEN img(r) # None ELSE frame[r].session # None
    /\ l \in {"src_row", "src_read", "mutate", "flush_build", "flush_size", "flush_validate"}
         => frame[r].op = "mutate"
    /\ l \in {"rest_snap", "rest_row", "rest_read"} => frame[r].op = "snapshot_restore"
    /\ l = "open_row" => frame[r].op = "image_open"

(* Every handler fits the label it is at. *)
LEMMA FrameFits ==
    ASSUME FramesOK, NEW r \in Rpcs
    PROVE  FrameOK(r) /\ Fits(r, pc[r], buf[r])
  BY DEF FramesOK, FrameOK, Fits

(* Goto keeps the bytes that the handler holds. *)
LEMMA GotoIsGotoWith ==
    ASSUME HandlerType, NEW r \in Rpcs, NEW l, Goto(r, l)
    PROVE  GotoWith(r, l, buf[r]) /\ buf[r] \in {None} \cup Contents
  BY DEF HandlerType, Goto, GotoWith

(* Labels that promise something of the rows and files. *)
Promising == {"open_row", "close_delete", "close_file", "snap_insert", "art_insert",
              "destroy_files"}

(* A handler that moves on to a label that promises nothing. *)
LEMMA Advances ==
    ASSUME IInv, TypeOK', Inert, NEW r \in Rpcs, NEW l \in Labels \ Promising,
           NEW b \in {None} \cup Contents, GotoWith(r, l, b), Fits(r, l, b),
           l \in {"w_open", "w_write", "w_rename"} =>
               Opening(r) \/ frame[r].op # "image_open"
    PROVE  IInv'
  <1>1. /\ Others(r)
        /\ pc'[r] = l /\ frame'[r] = frame[r] /\ buf'[r] = b
    BY GotoWithMoves, TypeParts DEF IInv
  <1>2. FrameOK(r)'
    <2>1. FrameOK(r)
      BY DEF IInv, FramesOK
    <2>2. Opened' = Opened /\ minted' = minted
      BY DEF Inert, idVars, Opened
    <2>3. (img(r))' = img(r)
      BY <1>1 DEF img
    <2> QED BY <1>1, <2>1, <2>2, <2>3 DEF FrameOK, Fits
  <1>3. Opening(r)' => Opening(r)
    BY <1>1 DEF Opening, Promising
  <1>4. StoredFirst(r)'
    BY <1>1, <1>3 DEF IInv, InFlightOK, StoredFirst, Promising, Inert, img
  <1>5. ASSUME NEW q \in Rpcs, q # r PROVE OpensAlone(r, q)' /\ OpensAlone(q, r)'
    BY <1>1, <1>3, <1>5
       DEF IInv, InFlightOK, OpensAlone, Opening, Promising, Others, img
  <1>6. pc'[r] # "destroy_files"
    BY <1>1 DEF Promising
  <1> QED BY <1>1, <1>2, <1>4, <1>5, <1>6, LocalStep

-----------------------------------------------------------------------------
(* Steps that change nothing but the cache and the handler itself. *)

Calm == UNCHANGED <<tableVars, idVars, fileVars, gcVars, now>>

(* A step that changes only the cache and handlers is inert and keeps TypeOK. *)
LEMMA CalmIsInert ==
    ASSUME TypeOK, Calm, CacheType', HandlerType', HistoryType'
    PROVE  TypeOK' /\ Inert
  <1>1. TableType' /\ IdType' /\ FileType' /\ GcType' /\ now' \in Nat
    BY TypeParts, TypeUnchanged DEF Calm
  <1> QED BY <1>1, TypePartsNext
          DEF Calm, Inert, tableVars, idVars, fileVars, gcVars

(* Such a step that ends a handler keeps IInv. *)
LEMMA CalmQuits ==
    ASSUME IInv, NEW r \in Rpcs, Fail(r) \/ Succeed(r), CacheType', Calm
    PROVE  IInv'
  <1>1. HandlerType /\ HistoryType /\ now \in Nat /\ FrameOK(r)
    BY TypeParts, FrameFits DEF IInv
  <1>2. Drop(r) /\ HistoryType'
    BY <1>1, FailType, SucceedType
  <1>3. HandlerType'
    BY <1>1, <1>2, DropMoves
  <1> QED BY <1>2, <1>3, CalmIsInert, Quits DEF IInv

(* Such a step that takes a handler to a label that promises nothing keeps IInv. *)
LEMMA CalmAdvances ==
    ASSUME IInv, NEW r \in Rpcs, NEW l \in Labels \ Promising,
           NEW b \in {None} \cup Contents, GotoWith(r, l, b), UNCHANGED historyVars,
           CacheType', Calm, Fits(r, l, b),
           l \in {"w_open", "w_write", "w_rename"} =>
               Opening(r) \/ frame[r].op # "image_open"
    PROVE  IInv'
  <1>1. HandlerType /\ HistoryType
    BY TypeParts DEF IInv
  <1>2. HandlerType' /\ HistoryType'
    BY <1>1, GotoWithMoves, TypeUnchanged
  <1> QED BY <1>2, CalmIsInert, Advances DEF IInv

(* The same, with the bytes the handler held. *)
LEMMA CalmGoto ==
    ASSUME IInv, NEW r \in Rpcs, NEW l \in Labels \ Promising,
           Goto(r, l), UNCHANGED historyVars, CacheType', Calm, Fits(r, l, buf[r]),
           l \in {"w_open", "w_write", "w_rename"} =>
               Opening(r) \/ frame[r].op # "image_open"
    PROVE  IInv'
  <1>1. HandlerType
    BY TypeParts DEF IInv
  <1> QED BY <1>1, GotoIsGotoWith, CalmAdvances

(* The cache stays typed where a step leaves it alone. *)
LEMMA CacheUnchanged ==
    ASSUME IInv, UNCHANGED cache
    PROVE  CacheType'
  BY TypeParts, TypeUnchanged DEF IInv

(* A handler looks something up and goes on, or fails. *)
Looks(r, from, to) ==
    /\ At(r, from)
    /\ (Goto(r, to) /\ UNCHANGED historyVars) \/ Fail(r)
    /\ UNCHANGED cache
    /\ Calm

Lookups == {<<"load_row", "load_read">>, <<"src_row", "src_read">>,
            <<"src_read", "load_check">>, <<"flush_size", "flush_validate">>,
            <<"flush_validate", "w_open">>, <<"art_check", "art_store">>,
            <<"exp_row", "exp_read">>, <<"snap_row", "snap_read">>,
            <<"rest_snap", "rest_row">>, <<"rest_row", "rest_read">>}

(* A lookup keeps IInv, whether it finds what it looks for or not. *)
LEMMA LooksKeepsInv ==
    ASSUME IInv, NEW r \in Rpcs, NEW from, NEW to, <<from, to>> \in Lookups,
           Looks(r, from, to)
    PROVE  IInv'
  <1>1. CacheType' /\ Calm
    BY CacheUnchanged DEF Looks
  <1>2. CASE Fail(r)
    BY <1>1, <1>2, CalmQuits
  <1>3. CASE Goto(r, to) /\ UNCHANGED historyVars
    <2>1. to \in Labels \ Promising
      BY DEF Lookups, Labels, Promising
    <2>2. FrameOK(r) /\ pc[r] = from
      BY FrameFits DEF IInv, Looks, At
    <2>3. Fits(r, to, buf[r])
      BY <2>2 DEF Fits, FrameOK, Lookups, ImageLabels, BytesLabels
    <2>4. to \in {"w_open", "w_write", "w_rename"} => frame[r].op # "image_open"
      BY <2>2 DEF FrameOK, Lookups
    <2> QED BY <1>1, <1>3, <2>1, <2>3, <2>4, CalmGoto
  <1> QED BY <1>2, <1>3 DEF Looks

(* The lookups of the handlers: rows, artifacts, sizes, file counts. *)
LEMMA LookupSteps ==
    ASSUME IInv, NEW r \in Rpcs,
           \/ LoadRow(r) \/ SourceRow(r) \/ SourceRead(r) \/ FlushSize(r)
           \/ FlushValidate(r) \/ ArtifactCheck(r) \/ ExportRow(r)
           \/ SnapshotRow(r) \/ RestoreSnapshot(r) \/ RestoreRow(r)
    PROVE  IInv'
  <1> USE DEF Looks, Calm
  <1>1. LoadRow(r) => Looks(r, "load_row", "load_read")
    BY DEF LoadRow
  <1>2. SourceRow(r) => Looks(r, "src_row", "src_read")
    BY DEF SourceRow
  <1>3. SourceRead(r) => Looks(r, "src_read", "load_check")
    BY DEF SourceRead
  <1>4. FlushSize(r) => Looks(r, "flush_size", "flush_validate")
    BY DEF FlushSize
  <1>5. FlushValidate(r) => Looks(r, "flush_validate", "w_open")
    BY DEF FlushValidate
  <1>6. ArtifactCheck(r) => Looks(r, "art_check", "art_store")
    BY DEF ArtifactCheck
  <1>7. ExportRow(r) => Looks(r, "exp_row", "exp_read")
    BY DEF ExportRow
  <1>8. SnapshotRow(r) => Looks(r, "snap_row", "snap_read")
    BY DEF SnapshotRow
  <1>9. RestoreSnapshot(r) => Looks(r, "rest_snap", "rest_row")
    BY DEF RestoreSnapshot
  <1>10. RestoreRow(r) => Looks(r, "rest_row", "rest_read")
    BY DEF RestoreRow
  <1>11. PICK from, to : <<from, to>> \in Lookups /\ Looks(r, from, to)
    BY <1>1, <1>2, <1>3, <1>4, <1>5, <1>6, <1>7, <1>8, <1>9, <1>10
       DEF Lookups
  <1> QED BY <1>11, LooksKeepsInv

-----------------------------------------------------------------------------
(* The other steps of this kind, one by one. *)

(* What TypeOK and FramesOK say of one handler. *)
LEMMA TypedAt ==
    ASSUME IInv, NEW r \in Rpcs
    PROVE  /\ FrameOK(r)
           /\ img(r) \in Images \cup {None}
           /\ frame[r] \in Frames
           /\ buf[r] \in {None} \cup Contents
           /\ img(r) \in Images => /\ cache[img(r)] \in {None} \cup Contents
                                   /\ imageFile[img(r)] \in {None} \cup Contents
  <1>1. FrameOK(r) /\ frame[r] \in Frames /\ buf[r] \in {None} \cup Contents
    BY FrameFits, TypeParts DEF IInv, HandlerType
  <1>2. img(r) \in Images \cup {None}
    BY <1>1 DEF Frames, img
  <1> QED BY <1>1, <1>2, TypeParts DEF IInv, CacheType, FileType

(* The cache stays typed when a handler puts a content into it. *)
LEMMA CachePut ==
    ASSUME IInv, NEW r \in Rpcs, NEW c \in {None} \cup Contents,
           cache' = [cache EXCEPT ![img(r)] = c]
    PROVE  CacheType'
  BY TypeParts DEF IInv, CacheType

(* The steps of ensure_image_loaded around the row lookup keep IInv. *)
LEMMA LoadSteps ==
    ASSUME IInv, NEW r \in Rpcs, LoadCheck(r) \/ LoadRead(r) \/ LoadInsert(r)
    PROVE  IInv'
  <1> DEFINE next == {"mutate", "read", "load_row"}
  <1>1. FrameOK(r) /\ buf[r] \in {None} \cup Contents
    BY TypedAt
  <1>2. AfterLoad(r) \in next /\ (AfterLoad(r) = "mutate" => frame[r].op = "mutate")
    BY DEF AfterLoad
  <1>3. ASSUME NEW l \in next, l = "mutate" => frame[r].op = "mutate",
               pc[r] \in {"load_check", "load_insert"}
        PROVE  l \in Labels \ Promising /\ Fits(r, l, buf[r])
    BY <1>1, <1>3 DEF Labels, Promising, Fits, FrameOK, ImageLabels, BytesLabels
  <1>4. CASE LoadCheck(r)
    <2>1. CacheType' /\ Calm /\ UNCHANGED historyVars /\ pc[r] = "load_check"
      BY <1>4, CacheUnchanged DEF LoadCheck, Calm, At
    <2>2. PICK l \in next : Goto(r, l) /\ (l = "mutate" => frame[r].op = "mutate")
      BY <1>2, <1>4 DEF LoadCheck
    <2> QED BY <1>3, <2>1, <2>2, CalmGoto
  <1>5. CASE LoadRead(r)
    <2>1. CacheType' /\ Calm /\ pc[r] = "load_read"
      BY <1>5, CacheUnchanged DEF LoadRead, Calm, At
    <2>2. CASE Fail(r)
      BY <2>1, <2>2, CalmQuits
    <2>3. CASE /\ imageFile[img(r)] # None
               /\ GotoWith(r, "load_insert", imageFile[img(r)])
               /\ UNCHANGED historyVars
      <3>1. img(r) # None
        BY <1>1, <2>1 DEF FrameOK, ImageLabels
      <3>2. imageFile[img(r)] \in {None} \cup Contents
        BY <3>1, TypedAt
      <3>3. "load_insert" \in Labels \ Promising
        BY DEF Labels, Promising
      <3>4. Fits(r, "load_insert", imageFile[img(r)])
        BY <2>3, <3>1 DEF Fits
      <3> QED BY <2>1, <2>3, <3>2, <3>3, <3>4, CalmAdvances
    <2> QED BY <1>5, <2>2, <2>3 DEF LoadRead
  <1>6. CASE LoadInsert(r)
    <2>1. CacheType' /\ Calm /\ UNCHANGED historyVars /\ pc[r] = "load_insert"
      BY <1>1, <1>6, CachePut DEF LoadInsert, Calm, At
    <2> QED BY <1>2, <1>3, <1>6, <2>1, CalmGoto DEF LoadInsert
  <1> QED BY <1>4, <1>5, <1>6

(* The steps that read a clone of the tree keep IInv. *)
LEMMA ReadSteps ==
    ASSUME IInv, NEW r \in Rpcs, Read(r) \/ Save(r) \/ ExportRead(r)
    PROVE  IInv'
  <1>1. CacheType' /\ Calm
    BY CacheUnchanged DEF Read, Save, ExportRead, Calm
  <1>2. CASE Fail(r) \/ Succeed(r)
    BY <1>1, <1>2, CalmQuits
  <1>3. CASE Read(r) /\ ~(Fail(r) \/ Succeed(r))
    <2>1. FrameOK(r) /\ pc[r] = "read"
      BY <1>3, TypedAt DEF Read, At
    <2>2. img(r) \in Images
      BY <2>1, TypedAt DEF FrameOK, ImageLabels
    <2>3. cache[img(r)] \in {None} \cup Contents
      BY <2>2, TypedAt
    <2>4. PICK l \in {"save", "art_store", "touch"} :
            /\ GotoWith(r, l, cache[img(r)])
            /\ l = "art_store" => frame[r].op = "node_extract"
            /\ UNCHANGED historyVars
      BY <1>3 DEF Read
    <2>5. l \in Labels \ Promising /\ Fits(r, l, cache[img(r)])
      BY <2>1, <2>4 DEF Labels, Promising, Fits, FrameOK, ImageLabels, BytesLabels
    <2> QED BY <1>1, <2>3, <2>4, <2>5, CalmAdvances
  <1> QED BY <1>2, <1>3 DEF Save, ExportRead

(* An operation on the tree, applied, refused or stuck half-way, keeps IInv. *)
LEMMA MutateSteps ==
    ASSUME IInv, NEW r \in Rpcs, MutateRefused(r) \/ MutatePartly(r) \/ Mutate(r)
    PROVE  IInv'
  <1>1. Calm
    BY DEF MutateRefused, MutatePartly, Mutate, Calm
  <1>2. CASE MutateRefused(r)
    BY <1>1, <1>2, CacheUnchanged, CalmQuits DEF MutateRefused
  <1>3. ASSUME MutatePartly(r) \/ Mutate(r) PROVE CacheType'
    <2>1. FrameOK(r) /\ pc[r] = "mutate"
      BY <1>3, TypedAt DEF MutatePartly, Mutate, At
    <2>2. img(r) \in Images /\ frame[r].edit \in Edits
      BY <2>1, TypedAt DEF FrameOK, ImageLabels, Frames
    <2>3. cache[img(r)] \in SUBSET Edits
      BY <1>3, <2>2, TypedAt DEF MutatePartly, Mutate, Writable, Contents
    <2>4. cache[img(r)] \cup {frame[r].edit} \in {None} \cup Contents
      BY <2>2, <2>3 DEF Contents
    <2>5. cache' = [cache EXCEPT ![img(r)] = cache[img(r)] \cup {frame[r].edit}]
      BY <1>3, <2>2 DEF MutatePartly, Mutate
    <2> QED BY <2>4, <2>5, CachePut
  <1>4. CASE MutatePartly(r)
    BY <1>1, <1>3, <1>4, CalmQuits DEF MutatePartly
  <1>5. CASE Mutate(r)
    <2>1. FrameOK(r) /\ pc[r] = "mutate"
      BY <1>5, TypedAt DEF Mutate, At
    <2>2. PICK l \in {"touch", "flush_build"} : Goto(r, l) /\ UNCHANGED historyVars
      BY <1>5 DEF Mutate
    <2>3. l \in Labels \ Promising /\ Fits(r, l, buf[r])
      BY <2>1 DEF Labels, Promising, Fits, FrameOK, ImageLabels, BytesLabels
    <2> QED BY <1>1, <1>3, <1>5, <2>2, <2>3, CalmGoto
  <1> QED BY <1>2, <1>4, <1>5

(* The steps of flush_image that build and swap the tree keep IInv. *)
LEMMA FlushSteps ==
    ASSUME IInv, NEW r \in Rpcs, FlushBuild(r) \/ FlushSwap(r)
    PROVE  IInv'
  <1>1. FrameOK(r) /\ buf[r] \in {None} \cup Contents
    BY TypedAt
  <1>2. Calm
    BY DEF FlushBuild, FlushSwap, Calm
  <1>3. CASE FlushBuild(r)
    <2>1. CacheType' /\ pc[r] = "flush_build"
      BY <1>3, CacheUnchanged DEF FlushBuild, At
    <2>2. CASE Fail(r)
      BY <1>2, <2>1, <2>2, CalmQuits
    <2>3. CASE /\ cache[img(r)] # None
               /\ GotoWith(r, "flush_size", cache[img(r)])
               /\ UNCHANGED historyVars
      <3>1. img(r) \in Images /\ frame[r].op = "mutate"
        BY <1>1, <2>1, TypedAt DEF FrameOK, ImageLabels
      <3>2. cache[img(r)] \in {None} \cup Contents
        BY <3>1, TypedAt
      <3>3. /\ "flush_size" \in Labels \ Promising
            /\ Fits(r, "flush_size", cache[img(r)])
        BY <1>1, <2>1, <2>3, <3>1
           DEF Labels, Promising, Fits, FrameOK, ImageLabels, BytesLabels
      <3> QED BY <1>2, <2>1, <2>3, <3>2, <3>3, CalmAdvances
    <2> QED BY <1>3, <2>2, <2>3 DEF FlushBuild
  <1>4. CASE FlushSwap(r)
    <2>1. CacheType'
      BY <1>1, <1>4, CacheUnchanged, CachePut DEF FlushSwap
    <2>2. "touch" \in Labels \ Promising /\ Fits(r, "touch", buf[r])
      BY <1>1, <1>4 DEF FlushSwap, At, Labels, Promising, Fits, FrameOK, ImageLabels,
                        BytesLabels
    <2> QED BY <1>2, <1>4, <2>1, <2>2, CalmGoto DEF FlushSwap
  <1> QED BY <1>3, <1>4

(* Dropping a tree from the cache keeps IInv. *)
LEMMA EvictSteps ==
    ASSUME IInv, NEW r \in Rpcs, CloseEvict(r) \/ RestoreEvict(r)
    PROVE  IInv'
  <1>1. CacheType'
    BY CachePut DEF CloseEvict, RestoreEvict
  <1> QED BY <1>1, CalmQuits DEF CloseEvict, RestoreEvict, Calm

(* A dropped call and a rename that finds no tmp file keep IInv. *)
LEMMA FailingSteps ==
    ASSUME IInv, NEW r \in Rpcs, Cancel(r) \/ WriteRenameFails(r)
    PROVE  IInv'
  <1>1. CacheType'
    BY CacheUnchanged DEF Cancel, WriteRenameFails
  <1> QED BY <1>1, CalmQuits DEF Cancel, WriteRenameFails, Calm

(* open_from_bytes: caching the new tree keeps IInv. *)
LEMMA OpenCacheStep ==
    ASSUME IInv, NEW r \in Rpcs, OpenCache(r)
    PROVE  IInv'
  <1>1. FrameOK(r) /\ buf[r] \in {None} \cup Contents
    BY TypedAt
  <1>2. CacheType' /\ Calm
    BY <1>1, CachePut DEF OpenCache, Calm
  <1>3. "touch" \in Labels \ Promising /\ Fits(r, "touch", buf[r])
    BY <1>1 DEF OpenCache, At, Labels, Promising, Fits, FrameOK, ImageLabels, BytesLabels
  <1> QED BY <1>2, <1>3, CalmGoto DEF OpenCache

(* Reading the bytes to snapshot or to restore keeps IInv. *)
LEMMA SnapshotReadSteps ==
    ASSUME IInv, NEW r \in Rpcs, SnapshotRead(r) \/ RestoreRead(r)
    PROVE  IInv'
  <1>1. FrameOK(r)
    BY TypedAt
  <1>2. CacheType' /\ Calm
    BY CacheUnchanged DEF SnapshotRead, RestoreRead, Calm
  <1>3. CASE Fail(r)
    BY <1>2, <1>3, CalmQuits
  <1>4. CASE SnapshotRead(r) /\ ~Fail(r)
    <2>1. /\ pc[r] = "snap_read" /\ imageFile[img(r)] # None
          /\ GotoWith(r, "snap_store", imageFile[img(r)]) /\ UNCHANGED historyVars
      BY <1>4 DEF SnapshotRead, At
    <2>2. img(r) \in Images
      BY <1>1, <2>1, TypedAt DEF FrameOK, ImageLabels
    <2>3. imageFile[img(r)] \in {None} \cup Contents
      BY <2>2, TypedAt
    <2>4. /\ "snap_store" \in Labels \ Promising
          /\ Fits(r, "snap_store", imageFile[img(r)])
      BY <1>1, <2>1 DEF Labels, Promising, Fits, FrameOK, ImageLabels, BytesLabels
    <2> QED BY <1>2, <2>1, <2>3, <2>4, CalmAdvances
  <1>5. CASE RestoreRead(r) /\ ~Fail(r)
    <2> DEFINE bytes == snapshotFile[frame[r].snapshot]
    <2>1. /\ pc[r] = "rest_read" /\ bytes # None
          /\ GotoWith(r, "w_open", bytes) /\ UNCHANGED historyVars
      BY <1>5 DEF RestoreRead, At
    <2>2. frame[r].op = "snapshot_restore"
      BY <1>1, <2>1 DEF FrameOK
    <2>3. bytes \in {None} \cup Contents
      <3>1. frame[r].snapshot \in Snapshots
        BY <1>1, <2>2, TypedAt DEF FrameOK, Frames
      <3> QED BY <3>1, TypeParts DEF IInv, FileType
    <2>4. "w_open" \in Labels \ Promising /\ Fits(r, "w_open", bytes)
      BY <1>1, <2>1 DEF Labels, Promising, Fits, FrameOK, ImageLabels, BytesLabels
    <2> QED BY <1>2, <2>1, <2>2, <2>3, <2>4, CalmAdvances
  <1> QED BY <1>3, <1>4, <1>5

-----------------------------------------------------------------------------
(* Steps that change rows, ids or files, seen by a handler q that does not
   move: ids only become known, files go only with their session.          *)

Grows ==
    /\ minted \subseteq minted'
    /\ \A s \in minted : s \in sessions' => s \in sessions
    /\ \A i \in Opened : i \in Opened' /\ imageSession'[i] = imageSession[i]
    /\ \A k \in Taken : snapshotImage'[k] = snapshotImage[k]
    /\ \A a \in Stored : artifactSession'[a] = artifactSession[a]

FilesStay ==
    /\ \A k \in Taken : snapshotFile[k] # None =>
          snapshotFile'[k] # None \/ imageSession[snapshotImage[k]] \notin sessions'
    /\ \A a \in Stored : artifactFile[a] =>
          artifactFile'[a] \/ artifactSession[a] \notin sessions'

Undisturbed(q) ==
    /\ Opening(q) \/ pc[q] = "close_file" => img(q) \notin images'
    /\ pc[q] = "open_row" /\ imageFile[img(q)] # None =>
          imageFile'[img(q)] # None \/ imageSession[img(q)] \notin sessions'

Still(q) == pc'[q] = pc[q] /\ frame'[q] = frame[q] /\ buf'[q] = buf[q]

(* A handler that does not move stays in order while ids grow, files of rows stay
   and its own image is not disturbed. *)
LEMMA Bystander ==
    ASSUME IInv, NEW q \in Rpcs, Still(q), Grows, FilesStay, Undisturbed(q)
    PROVE  /\ FrameOK(q)' /\ StoredFirst(q)'
           /\ pc'[q] = "destroy_files" => frame'[q].session \in minted' \ sessions'
  <1>1. FrameOK(q) /\ StoredFirst(q)
    BY DEF IInv, FramesOK, InFlightOK
  <1>2. (img(q))' = img(q) /\ (Opening(q)' <=> Opening(q))
    BY DEF Still, img, Opening
  <1>3. FrameOK(q)'
    BY <1>1, <1>2 DEF FrameOK, Still, Grows
  <1>4. pc[q] = "open_row" => img(q) \in Opened
    BY <1>1 DEF FrameOK, ImageLabels
  <1>5. pc[q] = "open_row" =>
          imageFile'[img(q)] # None \/ imageSession'[img(q)] \notin sessions'
    BY <1>1, <1>4 DEF StoredFirst, Undisturbed, Grows, IInv, IdsOK, Opened
  <1>6. pc[q] = "snap_insert" =>
          /\ frame[q].snapshot \in Snapshots
          /\ snapshotImage'[frame[q].snapshot] = img(q)
          /\ \/ snapshotFile'[frame[q].snapshot] # None
             \/ imageSession'[img(q)] \notin sessions'
    <2> SUFFICES ASSUME pc[q] = "snap_insert"
                 PROVE  /\ frame[q].snapshot \in Snapshots
                        /\ snapshotImage'[frame[q].snapshot] = img(q)
                        /\ \/ snapshotFile'[frame[q].snapshot] # None
                           \/ imageSession'[img(q)] \notin sessions'
      OBVIOUS
    <2>1. img(q) # None /\ img(q) \in Opened
      BY <1>1 DEF FrameOK, ImageLabels
    <2>2. frame[q].snapshot \in Taken /\ snapshotImage[frame[q].snapshot] = img(q)
      BY <1>1, <2>1 DEF StoredFirst, Taken
    <2>3. \/ snapshotFile[frame[q].snapshot] # None
          \/ imageSession[img(q)] \notin sessions
      BY <1>1 DEF StoredFirst
    <2> QED BY <2>1, <2>2, <2>3 DEF Grows, FilesStay, Taken, IInv, IdsOK, Opened
  <1>7. pc[q] = "art_insert" =>
          /\ frame[q].artifact \in Artifacts
          /\ artifactSession'[frame[q].artifact] # None
          /\ \/ artifactFile'[frame[q].artifact]
             \/ artifactSession'[frame[q].artifact] \notin sessions'
    <2> SUFFICES ASSUME pc[q] = "art_insert"
                 PROVE  /\ frame[q].artifact \in Artifacts
                        /\ artifactSession'[frame[q].artifact] # None
                        /\ \/ artifactFile'[frame[q].artifact]
                           \/ artifactSession'[frame[q].artifact] \notin sessions'
      OBVIOUS
    <2>1. /\ frame[q].artifact \in Stored
          /\ \/ artifactFile[frame[q].artifact]
             \/ artifactSession[frame[q].artifact] \notin sessions
      BY <1>1 DEF StoredFirst, Stored
    <2> QED BY <2>1 DEF Grows, FilesStay, Stored, IInv, IdsOK
  <1>8. StoredFirst(q)'
    BY <1>1, <1>2, <1>5, <1>6, <1>7 DEF StoredFirst, Undisturbed, Still
  <1>9. pc'[q] = "destroy_files" => frame'[q].session \in minted' \ sessions'
    BY DEF IInv, IdsOK, Still, Grows
  <1> QED BY <1>3, <1>8, <1>9

(* The conjuncts of IInv that are not about handlers. *)
WorldOK ==
    /\ sessions \subseteq minted
    /\ \A i \in Images : imageSession[i] # None => imageSession[i] \in minted
    /\ \A a \in Artifacts : artifactSession[a] # None => artifactSession[a] \in minted
    /\ images \subseteq Opened
    /\ gcTodo \subseteq minted
    /\ gcPurging # None => gcPurging \in minted \ sessions
    /\ ForeignKeys /\ RowHasFile

(* A step of one handler that changes rows, ids or files keeps IInv if it leaves the
   world, the handler and its neighbours in order. *)
LEMMA WorldStep ==
    ASSUME IInv, TypeOK', WorldOK', Grows, FilesStay, NEW r \in Rpcs, Others(r),
           \A q \in Rpcs : q # r => Undisturbed(q),
           FrameOK(r)', StoredFirst(r)',
           pc'[r] = "destroy_files" => frame'[r].session \in minted' \ sessions',
           \A q \in Rpcs : q # r => OpensAlone(r, q)' /\ OpensAlone(q, r)'
    PROVE  IInv'
  <1>1. ASSUME NEW q \in Rpcs, q # r
        PROVE  /\ FrameOK(q)' /\ StoredFirst(q)'
               /\ pc'[q] = "destroy_files" => frame'[q].session \in minted' \ sessions'
    <2>1. Still(q)
      BY <1>1 DEF Others, Still
    <2> QED BY <1>1, <2>1, Bystander
  <1>2. FramesOK' /\ (\A q \in Rpcs : StoredFirst(q)')
    BY <1>1 DEF FramesOK
  <1>3. IdsOK' /\ ForeignKeys' /\ RowHasFile'
    BY <1>1 DEF IdsOK, WorldOK
  <1>4. ASSUME NEW q \in Rpcs, NEW p \in Rpcs PROVE OpensAlone(q, p)'
    <2>1. CASE q # r /\ p # r
      BY <2>1 DEF IInv, InFlightOK, OpensAlone, Opening, Others, img
    <2>2. CASE q = p
      BY <2>2 DEF OpensAlone
    <2> QED BY <2>1, <2>2
  <1> QED BY <1>2, <1>3, <1>4 DEF IInv, InFlightOK

(* The same for a handler that returns. *)
LEMMA WorldQuits ==
    ASSUME IInv, TypeOK', WorldOK', Grows, FilesStay, NEW r \in Rpcs, Drop(r),
           \A q \in Rpcs : q # r => Undisturbed(q)
    PROVE  IInv'
  <1>1. /\ Others(r)
        /\ pc'[r] = "idle" /\ frame'[r] = NoFrame /\ buf'[r] = None
    BY DropMoves, TypeParts DEF IInv
  <1>2. /\ frame'[r].op = "none" /\ frame'[r].image = None
        /\ frame'[r].session = None
    BY <1>1 DEF NoFrame
  <1>3. FrameOK(r)'
    BY <1>1, <1>2 DEF FrameOK, ImageLabels, BytesLabels, img
  <1>4. StoredFirst(r)'
    BY <1>1, <1>2 DEF StoredFirst, Opening
  <1>5. \A q \in Rpcs : OpensAlone(r, q)' /\ OpensAlone(q, r)'
    BY <1>1, <1>2 DEF OpensAlone, Opening
  <1> QED BY <1>1, <1>3, <1>4, <1>5, WorldStep

(* Steps of the GC and of the clock move no handler. *)
LEMMA GcMoves ==
    ASSUME IInv, TypeOK', WorldOK', Grows, FilesStay, UNCHANGED handlerVars,
           \A q \in Rpcs : Undisturbed(q)
    PROVE  IInv'
  <1>1. ASSUME NEW q \in Rpcs
        PROVE  /\ FrameOK(q)' /\ StoredFirst(q)'
               /\ pc'[q] = "destroy_files" => frame'[q].session \in minted' \ sessions'
    <2>1. Still(q)
      BY DEF handlerVars, Still
    <2> QED BY <2>1, Bystander
  <1>2. FramesOK' /\ (\A q \in Rpcs : StoredFirst(q)')
    BY <1>1 DEF FramesOK
  <1>3. IdsOK' /\ ForeignKeys' /\ RowHasFile'
    BY <1>1 DEF IdsOK, WorldOK
  <1>4. ASSUME NEW q \in Rpcs, NEW p \in Rpcs PROVE OpensAlone(q, p)'
    BY DEF IInv, InFlightOK, OpensAlone, Opening, handlerVars, img
  <1> QED BY <1>2, <1>3, <1>4 DEF IInv, InFlightOK

(* A handler is undisturbed by a step that adds no image row and removes no file of
   a live session. *)
LEMMA KeepsUndisturbed ==
    ASSUME IInv, images' \subseteq images,
           \A i \in Images : imageFile[i] # None =>
               imageFile'[i] # None \/ imageSession[i] \notin sessions',
           NEW q \in Rpcs
    PROVE  Undisturbed(q)
  <1>1. FrameOK(q) /\ StoredFirst(q)
    BY DEF IInv, FramesOK, InFlightOK
  <1>2. pc[q] = "open_row" => img(q) \in Images
    BY <1>1 DEF FrameOK, ImageLabels, Opened
  <1> QED BY <1>1, <1>2 DEF Undisturbed, StoredFirst

(* The DELETE of a session, with what cascades from it, leaves the foreign keys and
   RowHasFile intact and disturbs no handler in flight. *)
LEMMA DeleteSession ==
    ASSUME IInv, NEW s, delete_session(s), UNCHANGED <<idVars, fileVars>>
    PROVE  /\ Grows /\ FilesStay /\ ForeignKeys' /\ RowHasFile'
           /\ \A q \in Rpcs : Undisturbed(q)
           /\ images' \subseteq images /\ sessions' = sessions \ {s}
  <1> USE DEF delete_session, idVars, fileVars
  <1>1. Grows /\ FilesStay
    BY DEF Grows, FilesStay, Opened
  <1>2. RowHasFile'
    BY DEF IInv, RowHasFile
  <1>3. ForeignKeys'
    BY DEF IInv, ForeignKeys
  <1>4. \A q \in Rpcs : Undisturbed(q)
    BY KeepsUndisturbed
  <1> QED BY <1>1, <1>2, <1>3, <1>4

(* Removing the directory of a session without a row takes no file from any row. *)
LEMMA RemoveSessionDir ==
    ASSUME IInv, NEW s, s \notin sessions, remove_session_dir(s),
           UNCHANGED <<tableVars, idVars>>
    PROVE  /\ Grows /\ FilesStay /\ ForeignKeys' /\ RowHasFile'
           /\ \A q \in Rpcs : Undisturbed(q)
  <1> USE DEF remove_session_dir, idVars, tableVars
  <1>1. TableType /\ IdType /\ FileType
    BY TypeParts DEF IInv
  <1>2. Grows
    BY DEF Grows, Opened
  <1>3. FilesStay
    BY <1>1 DEF FilesStay, Taken, Stored, FileType
  <1>4. RowHasFile'
    <2>1. \A i \in images : imageFile'[i] # None
      BY <1>1 DEF IInv, RowHasFile, ForeignKeys, TableType
    <2>2. \A k \in snapshots : snapshotFile'[k] # None
      BY <1>1 DEF IInv, RowHasFile, ForeignKeys, TableType
    <2>3. \A a \in artifacts : artifactFile'[a]
      BY <1>1 DEF IInv, RowHasFile, ForeignKeys, TableType, FileType
    <2> QED BY <2>1, <2>2, <2>3 DEF RowHasFile
  <1>5. ForeignKeys'
    BY DEF IInv, ForeignKeys
  <1>6. \A q \in Rpcs : Undisturbed(q)
    BY KeepsUndisturbed
  <1> QED BY <1>2, <1>3, <1>4, <1>5, <1>6

(* The part of WorldOK that is about ids alone. *)
LEMMA WorldFromIds ==
    ASSUME IInv, UNCHANGED idVars, ForeignKeys', RowHasFile',
           images' \subseteq images, sessions' \subseteq sessions,
           gcTodo' \subseteq minted, gcPurging' # None => gcPurging' \in minted \ sessions'
    PROVE  WorldOK'
  BY DEF WorldOK, IInv, IdsOK, idVars, Opened

-----------------------------------------------------------------------------
(* The GC and the clock. *)

(* The GC lists the expired sessions. *)
LEMMA GcTickStep ==
    ASSUME IInv, GcTick
    PROVE  IInv'
  <1> USE DEF GcTick, tableVars, idVars, fileVars
  <1>1. gcTodo' \subseteq sessions
    BY DEF list_expired
  <1>2. TypeOK'
    <2>1. GcType'
      BY <1>1, TypeParts DEF IInv, GcType, TableType
    <2> QED BY <2>1, TypeParts, TypePartsNext, TypeUnchanged DEF IInv
  <1>3. ForeignKeys' /\ RowHasFile'
    BY DEF IInv, ForeignKeys, RowHasFile
  <1>4. WorldOK'
    <2>1. gcTodo' \subseteq minted
      BY <1>1 DEF IInv, IdsOK
    <2>2. gcPurging' # None => gcPurging' \in minted \ sessions'
      OBVIOUS
    <2> QED BY <1>3, <2>1, <2>2, WorldFromIds
  <1>5. Grows /\ FilesStay
    BY DEF Grows, FilesStay, Opened
  <1>6. \A q \in Rpcs : Undisturbed(q)
    BY KeepsUndisturbed
  <1> QED BY <1>2, <1>4, <1>5, <1>6, GcMoves

(* The GC deletes the rows of a listed session. *)
LEMMA GcDeleteStep ==
    ASSUME IInv, NEW s \in Sessions, GcDelete(s)
    PROVE  IInv'
  <1>1. /\ delete_session(s) /\ UNCHANGED <<idVars, fileVars>> /\ UNCHANGED handlerVars
        /\ gcTodo' \subseteq gcTodo /\ gcPurging' \in {s, None} /\ s \in gcTodo
    BY DEF GcDelete
  <1>2. TypeOK'
    <2>1. TableType'
      BY <1>1, TypeParts, TablesStayTyped DEF IInv
    <2>2. GcType'
      BY <1>1, TypeParts DEF IInv, GcType
    <2> QED BY <2>1, <2>2, TypeParts, TypePartsNext, TypeUnchanged DEF IInv, GcDelete
  <1>3. /\ Grows /\ FilesStay /\ ForeignKeys' /\ RowHasFile'
        /\ \A q \in Rpcs : Undisturbed(q)
        /\ images' \subseteq images /\ sessions' = sessions \ {s}
    BY <1>1, DeleteSession
  <1>4. WorldOK'
    <2>1. gcTodo' \subseteq minted /\ s \in minted
      BY <1>1 DEF IInv, IdsOK
    <2>2. gcPurging' # None => gcPurging' \in minted \ sessions'
      BY <1>1, <1>3, <2>1
    <2> QED BY <1>1, <1>3, <2>1, <2>2, WorldFromIds
  <1> QED BY <1>1, <1>2, <1>3, <1>4, GcMoves

(* The GC removes the directory of the session it has deleted. *)
LEMMA GcPurgeStep ==
    ASSUME IInv, GcPurge
    PROVE  IInv'
  <1>1. /\ remove_session_dir(gcPurging) /\ UNCHANGED <<tableVars, idVars>>
        /\ UNCHANGED handlerVars /\ gcTodo' = gcTodo /\ gcPurging' = None
    BY DEF GcPurge
  <1>2. TypeOK'
    <2>1. FileType'
      BY <1>1, TypeParts, RemoveSessionDirType DEF IInv
    <2>2. GcType'
      BY <1>1, TypeParts DEF IInv, GcType
    <2> QED BY <2>1, <2>2, TypeParts, TypePartsNext, TypeUnchanged DEF IInv, GcPurge
  <1>3. gcPurging \notin sessions
    BY DEF IInv, IdsOK, GcPurge
  <1>4. /\ Grows /\ FilesStay /\ ForeignKeys' /\ RowHasFile'
        /\ \A q \in Rpcs : Undisturbed(q)
    BY <1>1, <1>3, RemoveSessionDir
  <1>5. WorldOK'
    BY <1>1, <1>4, WorldFromIds DEF IInv, IdsOK, tableVars
  <1> QED BY <1>1, <1>2, <1>4, <1>5, GcMoves

(* The clock ticks. *)
LEMMA TickStep ==
    ASSUME IInv, Tick
    PROVE  IInv'
  <1> USE DEF Tick, tableVars, idVars, fileVars, gcVars
  <1>1. TypeOK'
    BY TypeParts, TypePartsNext, TypeUnchanged DEF IInv
  <1>2. ForeignKeys' /\ RowHasFile'
    BY DEF IInv, ForeignKeys, RowHasFile
  <1>3. WorldOK'
    BY <1>2, WorldFromIds DEF IInv, IdsOK
  <1>4. Grows /\ FilesStay
    BY DEF Grows, FilesStay, Opened
  <1>5. \A q \in Rpcs : Undisturbed(q)
    BY KeepsUndisturbed
  <1> QED BY <1>1, <1>3, <1>4, <1>5, GcMoves

(* The process dies and starts again: no handler is in flight, the files stay. *)
LEMMA CrashStep ==
    ASSUME IInv, Crash
    PROVE  IInv'
  <1> USE DEF Crash
  <1>1. TypeOK'
    <2>1. TableType' /\ IdType' /\ HistoryType' /\ now' \in Nat
      BY TypeParts, TypeUnchanged DEF IInv
    <2>2. FileType'
      BY TypeParts DEF IInv, FileType, Fds
    <2>3. CacheType' /\ GcType'
      BY DEF CacheType, GcType
    <2>4. HandlerType'
      <3>1. NoFrame \in Frames
        BY DEF NoFrame, Frames
      <3>2. "idle" \in Labels
        BY DEF Labels
      <3> QED BY <3>1, <3>2 DEF HandlerType
    <2> QED BY <2>1, <2>2, <2>3, <2>4, TypePartsNext
  <1>2. ForeignKeys' /\ RowHasFile'
    BY DEF IInv, ForeignKeys, RowHasFile, tableVars, idVars
  <1>3. ASSUME NEW q \in Rpcs
        PROVE  /\ pc'[q] = "idle" /\ frame'[q].op = "none" /\ frame'[q].image = None
               /\ frame'[q].session = None
    BY DEF NoFrame
  <1>4. WorldOK'
    BY <1>2, WorldFromIds DEF tableVars
  <1>5. IdsOK'
    BY <1>3, <1>4 DEF IdsOK, WorldOK
  <1>6. FramesOK'
    BY <1>3 DEF FramesOK, FrameOK, ImageLabels, BytesLabels, img
  <1>7. InFlightOK'
    BY <1>3 DEF InFlightOK, StoredFirst, OpensAlone, Opening
  <1> QED BY <1>1, <1>2, <1>5, <1>6, <1>7 DEF IInv

-----------------------------------------------------------------------------
(* Handlers that begin, touch, or write through a tmp file. *)

(* A handler begins. *)
LEMMA CallStep ==
    ASSUME IInv, NEW r \in Rpcs, Call(r)
    PROVE  IInv'
  <1>1. PICK f : WellFormed(f) /\ Start(r, f)
    BY TypeParts, CallIsWellFormed DEF IInv
  <1>2. f \in Frames /\ Entry(f) \in Labels \ Promising
    BY <1>1 DEF WellFormed, Entry, Labels, Promising
  <1>3. /\ HandlerType' /\ Others(r)
        /\ pc'[r] = Entry(f) /\ frame'[r] = f /\ buf'[r] = buf[r]
    BY <1>1, <1>2, TypeParts DEF IInv, HandlerType, Start, Others
  <1>4. Calm /\ CacheType' /\ HistoryType'
    BY CacheUnchanged, TypeParts, TypeUnchanged DEF Call, Calm, IInv
  <1>5. TypeOK' /\ Inert
    BY <1>3, <1>4, CalmIsInert DEF IInv
  <1>6. Entry(f) \notin {"w_open", "w_write", "w_rename", "open_row"}
    BY <1>1 DEF Entry
  <1>7. ~Opening(r)' /\ StoredFirst(r)'
    BY <1>2, <1>3, <1>6 DEF StoredFirst, Opening, Promising
  <1>8. FrameOK(r)'
    <2>1. (img(r))' = f.image /\ Opened' = Opened /\ minted' = minted
      BY <1>3, <1>5 DEF img, Inert, idVars, Opened
    <2>2. /\ Entry(f) \in ImageLabels => f.op \in ImageOps \cup {"mutate", "snapshot_restore"}
          /\ Entry(f) \notin BytesLabels
          /\ Entry(f) \in {"open_check", "destroy_rows", "art_check"} =>
                f.op \in {"session_destroy", "artifact_import", "image_open"}
          /\ Entry(f) \notin {"art_store", "open_row"}
          /\ Entry(f) \in {"src_row", "src_read", "mutate", "flush_build", "flush_size",
                           "flush_validate"} => f.op = "mutate"
          /\ Entry(f) \in {"rest_snap", "rest_row", "rest_read"} => f.op = "snapshot_restore"
      BY <1>1 DEF WellFormed, Entry, ImageLabels, BytesLabels, ImageOps, Ops
    <2>3. f.op = "node_extract" => f.image # None
      BY <1>1 DEF WellFormed, ImageOps
    <2> QED BY <1>1, <1>3, <2>1, <2>2, <2>3 DEF FrameOK, WellFormed
  <1>9. \A q \in Rpcs : OpensAlone(r, q)' /\ OpensAlone(q, r)'
    BY <1>2, <1>3, <1>7 DEF OpensAlone, Promising
  <1> QED BY <1>2, <1>3, <1>5, <1>7, <1>8, <1>9, LocalStep DEF Promising

(* A handler touches its session and answers Ok. *)
LEMMA TouchStep ==
    ASSUME IInv, NEW r \in Rpcs, Touch(r)
    PROVE  IInv'
  <1>1. HandlerType /\ HistoryType /\ now \in Nat /\ FrameOK(r)
    BY TypeParts, FrameFits DEF IInv
  <1>2. Drop(r) /\ HistoryType' /\ HandlerType'
    BY <1>1, SucceedType, DropMoves DEF Touch
  <1>3. TableType'
    BY <1>1, TypeParts, TablesStayTyped DEF IInv, Touch
  <1>4. TypeOK'
    BY <1>2, <1>3, TypeParts, TypePartsNext, TypeUnchanged DEF IInv, Touch
  <1>5. Inert
    BY DEF Touch, touch_session, Inert, fileVars
  <1> QED BY <1>2, <1>4, <1>5, Quits

(* A system call fails and its handler answers Err. *)
LEMMA IoErrorStep ==
    ASSUME IInv, NEW r \in Rpcs, IoError(r)
    PROVE  IInv'
  <1>1. HandlerType /\ HistoryType /\ FileType
    BY TypeParts DEF IInv
  <1>2. Drop(r) /\ HistoryType' /\ HandlerType'
    BY <1>1, FailType, DropMoves DEF IoError
  <1>3. FileType'
    BY <1>1 DEF FileType, IoError, Fds
  <1>4. TypeOK'
    BY <1>2, <1>3, TypeParts, TypePartsNext, TypeUnchanged DEF IInv, IoError
  <1>5. Inert
    BY DEF IoError, Inert, tableVars
  <1> QED BY <1>2, <1>4, <1>5, Quits

(* atomic_write: the open of the tmp file. *)
LEMMA WriteOpenStep ==
    ASSUME IInv, NEW r \in Rpcs, WriteOpen(r)
    PROVE  IInv'
  <1>1. FrameOK(r) /\ pc[r] = "w_open"
    BY TypedAt DEF WriteOpen, At
  <1>2. img(r) \in Images
    BY <1>1, TypedAt DEF FrameOK, ImageLabels
  <1>3. "w_write" \in Labels \ Promising
    BY DEF Labels, Promising
  <1>4. HandlerType /\ FileType
    BY TypeParts DEF IInv
  <1>5. FileType' /\ HandlerType'
    BY <1>2, <1>3, <1>4, OpenTmpType, GotoMoves DEF WriteOpen
  <1>6. TypeOK'
    BY <1>5, TypeParts, TypePartsNext, TypeUnchanged DEF IInv, WriteOpen
  <1>7. Inert
    BY DEF WriteOpen, open_tmp, Inert, tableVars
  <1>8. GotoWith(r, "w_write", buf[r]) /\ buf[r] \in {None} \cup Contents
    BY <1>4, GotoIsGotoWith DEF WriteOpen
  <1>9. Fits(r, "w_write", buf[r])
    BY <1>1 DEF Fits, FrameOK, ImageLabels, BytesLabels
  <1>10. Opening(r) \/ frame[r].op # "image_open"
    BY <1>1 DEF Opening
  <1> QED BY <1>3, <1>6, <1>7, <1>8, <1>9, <1>10, Advances

(* image_close finds the row; from here on nobody opens that image. *)
LEMMA CloseRowStep ==
    ASSUME IInv, NEW r \in Rpcs, CloseRow(r)
    PROVE  IInv'
  <1>1. CacheType' /\ Calm
    BY CacheUnchanged DEF CloseRow, Calm
  <1>2. CASE Fail(r)
    BY <1>1, <1>2, CalmQuits
  <1>3. CASE img(r) \in images /\ Goto(r, "close_delete") /\ UNCHANGED historyVars
    <2>1. FrameOK(r)
      BY TypedAt
    <2>2. "close_delete" \in Labels
      BY DEF Labels
    <2>3. /\ HandlerType' /\ Others(r)
          /\ pc'[r] = "close_delete" /\ frame'[r] = frame[r] /\ buf'[r] = buf[r]
      BY <1>3, <2>2, GotoMoves, TypeParts DEF IInv
    <2>4. TypeOK' /\ Inert
      BY <1>1, <1>3, <2>3, CalmIsInert, TypeParts, TypeUnchanged DEF IInv
    <2>5. (img(r))' = img(r) /\ ~Opening(r)' /\ StoredFirst(r)'
      BY <2>3 DEF img, Opening, StoredFirst
    <2>6. FrameOK(r)'
      BY <1>3, <2>1, <2>3, <2>4, <2>5
         DEF CloseRow, At, FrameOK, ImageLabels, BytesLabels, Inert, idVars, Opened
    <2>7. ASSUME NEW q \in Rpcs, q # r PROVE OpensAlone(r, q)' /\ OpensAlone(q, r)'
      <3>1. Opening(q) => img(q) \notin images
        BY DEF IInv, InFlightOK, StoredFirst
      <3>2. (Opening(q)' <=> Opening(q)) /\ (img(q))' = img(q)
        BY <2>3, <2>7 DEF Others, Opening, img
      <3> QED BY <1>3, <2>5, <3>1, <3>2 DEF OpensAlone
    <2> QED BY <2>3, <2>4, <2>5, <2>6, <2>7, LocalStep
  <1> QED BY <1>2, <1>3 DEF CloseRow

-----------------------------------------------------------------------------
(* Handlers that change rows, ids or named files. *)

(* A handler that changes rows, ids or files and moves on keeps IInv. *)
LEMMA WorldGoto ==
    ASSUME IInv, TypeOK', WorldOK', Grows, FilesStay, NEW r \in Rpcs, NEW l \in Labels,
           Goto(r, l), Fits(r, l, buf[r]), StoredFirst(r)',
           \A q \in Rpcs : q # r => Undisturbed(q),
           l \in {"w_open", "w_write", "w_rename", "open_row"} =>
               Opening(r) \/ frame[r].op # "image_open",
           l \in {"close_delete", "close_file"} => pc[r] \in {"close_delete", "close_file"},
           l = "destroy_files" => frame[r].session \in minted' \ sessions'
    PROVE  IInv'
  <1>1. /\ Others(r)
        /\ pc'[r] = l /\ frame'[r] = frame[r] /\ buf'[r] = buf[r]
    BY GotoMoves, TypeParts DEF IInv
  <1>2. (img(r))' = img(r) /\ (Opening(r)' => Opening(r))
    BY <1>1 DEF img, Opening
  <1>3. FrameOK(r)'
    <2>1. FrameOK(r)
      BY TypedAt
    <2> QED BY <1>1, <1>2, <2>1 DEF FrameOK, Fits, Grows
  <1>4. ASSUME NEW q \in Rpcs, q # r PROVE OpensAlone(r, q)' /\ OpensAlone(q, r)'
    <2>1. /\ Opening(q)' <=> Opening(q)
          /\ (img(q))' = img(q)
          /\ pc'[q] = pc[q]
      BY <1>1, <1>4 DEF Others, Opening, img
    <2> QED BY <1>1, <1>2, <2>1 DEF IInv, InFlightOK, OpensAlone
  <1> QED BY <1>1, <1>3, <1>4, WorldStep

(* atomic_write: the write, to the tmp file or to whatever it has become. *)
LEMMA WriteBytesStep ==
    ASSUME IInv, NEW r \in Rpcs, WriteBytes(r)
    PROVE  IInv'
  <1>1. /\ FrameOK(r) /\ pc[r] = "w_write" /\ buf[r] \in {None} \cup Contents
        /\ HandlerType /\ FileType /\ TableType
    BY TypedAt, TypeParts DEF WriteBytes, At, IInv
  <1>2. buf[r] # None
    BY <1>1 DEF FrameOK, BytesLabels
  <1>3. "w_rename" \in Labels
    BY DEF Labels
  <1>4. FileType' /\ HandlerType'
    BY <1>1, <1>3, WriteFdType, GotoMoves DEF WriteBytes
  <1>5. TypeOK'
    BY <1>4, TypeParts, TypePartsNext, TypeUnchanged DEF IInv, WriteBytes
  <1> USE DEF WriteBytes, write_fd, tableVars, idVars, gcVars
  <1>6. \A i \in Images : imageFile[i] # None => imageFile'[i] # None
    BY <1>2
  <1>7. ForeignKeys' /\ RowHasFile'
    BY <1>1, <1>6 DEF IInv, ForeignKeys, RowHasFile, TableType
  <1>8. WorldOK'
    BY <1>7, WorldFromIds DEF IInv, IdsOK
  <1>9. Grows /\ FilesStay
    BY DEF Grows, FilesStay, Opened
  <1>10. \A q \in Rpcs : Undisturbed(q)
    BY <1>6, KeepsUndisturbed
  <1>11. Fits(r, "w_rename", buf[r]) /\ (Opening(r) \/ frame[r].op # "image_open")
    BY <1>1 DEF Fits, FrameOK, ImageLabels, BytesLabels, Opening
  <1>12. StoredFirst(r)'
    <2>1. pc'[r] = "w_rename" /\ frame'[r] = frame[r]
      BY <1>1, <1>3, GotoMoves
    <2>2. (img(r))' = img(r) /\ (Opening(r)' => Opening(r))
      BY <1>1, <2>1 DEF img, Opening
    <2> QED BY <1>10, <2>1, <2>2 DEF StoredFirst, Undisturbed
  <1> QED BY <1>3, <1>5, <1>8, <1>9, <1>10, <1>11, <1>12, WorldGoto

(* atomic_write: the rename gives the image a file. *)
LEMMA WriteRenameStep ==
    ASSUME IInv, NEW r \in Rpcs, WriteRename(r)
    PROVE  IInv'
  <1>1. /\ FrameOK(r) /\ pc[r] = "w_rename" /\ buf[r] \in {None} \cup Contents
        /\ HandlerType /\ FileType /\ TableType /\ HistoryType
    BY TypedAt, TypeParts DEF WriteRename, At, IInv
  <1>2. img(r) \in Images /\ buf[r] # None
    BY <1>1, TypedAt DEF FrameOK, ImageLabels, BytesLabels
  <1>3. PICK l \in {"open_row", "flush_swap", "rest_evict"} :
          Goto(r, l) /\ (l = "open_row" <=> frame[r].op = "image_open")
    BY DEF WriteRename
  <1>4. l \in Labels
    BY DEF Labels
  <1>5. FileType' /\ HandlerType'
    BY <1>1, <1>2, <1>3, <1>4, RenameTmpType, GotoMoves DEF WriteRename
  <1>6. HistoryType'
    <2>1. acked' \in [Images -> SUBSET Edits]
      BY <1>1, <1>2 DEF WriteRename, HistoryType, Contents
    <2> QED BY <1>1, <2>1 DEF WriteRename, HistoryType
  <1>7. TypeOK'
    BY <1>5, <1>6, TypeParts, TypePartsNext, TypeUnchanged DEF IInv, WriteRename
  <1> USE DEF WriteRename, rename_tmp, tableVars, idVars, gcVars
  <1>8. /\ \A i \in Images : imageFile[i] # None => imageFile'[i] # None
        /\ imageFile'[img(r)] # None
    BY <1>1, <1>2 DEF FileType
  <1>9. ForeignKeys' /\ RowHasFile'
    BY <1>1, <1>8 DEF IInv, ForeignKeys, RowHasFile, TableType
  <1>10. WorldOK'
    BY <1>9, WorldFromIds DEF IInv, IdsOK
  <1>11. Grows /\ FilesStay
    BY DEF Grows, FilesStay, Opened
  <1>12. \A q \in Rpcs : Undisturbed(q)
    BY <1>8, KeepsUndisturbed
  <1>13. Fits(r, l, buf[r]) /\ (Opening(r) \/ frame[r].op # "image_open")
    BY <1>1, <1>2, <1>3 DEF Fits, FrameOK, ImageLabels, BytesLabels, Opening
  <1>14. StoredFirst(r)'
    <2>1. pc'[r] = l /\ frame'[r] = frame[r]
      BY <1>1, <1>3, <1>4, GotoMoves
    <2>2. (img(r))' = img(r) /\ (Opening(r)' => Opening(r))
      BY <1>1, <2>1 DEF img, Opening
    <2> QED BY <1>8, <1>12, <2>1, <2>2 DEF StoredFirst, Undisturbed
  <1>15. l \notin {"close_delete", "close_file", "destroy_files"}
    OBVIOUS
  <1> HIDE DEF WriteRename, rename_tmp, tableVars, idVars, gcVars
  <1> QED BY <1>3, <1>4, <1>7, <1>10, <1>11, <1>12, <1>13, <1>14, <1>15, WorldGoto

(* image_close deletes the row, and with it the rows of the snapshots. *)
LEMMA CloseDeleteStep ==
    ASSUME IInv, NEW r \in Rpcs, CloseDelete(r)
    PROVE  IInv'
  <1>1. /\ FrameOK(r) /\ pc[r] = "close_delete" /\ HandlerType /\ TableType
    BY TypedAt, TypeParts DEF CloseDelete, At, IInv
  <1>2. "close_file" \in Labels
    BY DEF Labels
  <1>3. TypeOK'
    <2>1. TableType' /\ HandlerType'
      BY <1>1, <1>2, TablesStayTyped, GotoMoves DEF CloseDelete
    <2> QED BY <2>1, TypeParts, TypePartsNext, TypeUnchanged DEF IInv, CloseDelete
  <1> USE DEF CloseDelete, delete_image, idVars, fileVars, gcVars
  <1>4. ForeignKeys' /\ RowHasFile'
    BY DEF IInv, ForeignKeys, RowHasFile
  <1>5. WorldOK'
    BY <1>4, WorldFromIds DEF IInv, IdsOK
  <1>6. Grows /\ FilesStay
    BY DEF Grows, FilesStay, Opened
  <1>7. \A q \in Rpcs : Undisturbed(q)
    BY KeepsUndisturbed
  <1>8. Fits(r, "close_file", buf[r])
    BY <1>1 DEF Fits, FrameOK, ImageLabels, BytesLabels
  <1>9. StoredFirst(r)'
    <2>1. pc'[r] = "close_file" /\ frame'[r] = frame[r]
      BY <1>1, <1>2, GotoMoves
    <2> QED BY <2>1 DEF StoredFirst, Opening, img
  <1> QED BY <1>1, <1>2, <1>3, <1>5, <1>6, <1>7, <1>8, <1>9, WorldGoto

(* image_close removes a file that has no row any more. *)
LEMMA CloseFileStep ==
    ASSUME IInv, NEW r \in Rpcs, CloseFile(r)
    PROVE  IInv'
  <1>1. /\ FrameOK(r) /\ StoredFirst(r) /\ pc[r] = "close_file"
        /\ HandlerType /\ FileType /\ TableType
    BY TypedAt, TypeParts DEF CloseFile, At, IInv, InFlightOK
  <1>2. img(r) \in Images /\ img(r) \notin images
    BY <1>1, TypedAt DEF FrameOK, ImageLabels, StoredFirst
  <1>3. "close_evict" \in Labels
    BY DEF Labels
  <1>4. TypeOK'
    <2>1. FileType' /\ HandlerType'
      BY <1>1, <1>2, <1>3, RemoveImageFileType, GotoMoves DEF CloseFile
    <2> QED BY <2>1, TypeParts, TypePartsNext, TypeUnchanged DEF IInv, CloseFile
  <1> USE DEF CloseFile, remove_image_file, tableVars, idVars, gcVars
  <1>5. ForeignKeys' /\ RowHasFile'
    BY <1>1, <1>2 DEF IInv, ForeignKeys, RowHasFile, TableType, FileType
  <1>6. WorldOK'
    BY <1>5, WorldFromIds DEF IInv, IdsOK
  <1>7. Grows /\ FilesStay
    BY DEF Grows, FilesStay, Opened
  <1>8. ASSUME NEW q \in Rpcs, q # r PROVE Undisturbed(q)
    <2>1. FrameOK(q) /\ StoredFirst(q) /\ OpensAlone(q, r)
      BY DEF IInv, FramesOK, InFlightOK
    <2>2. Opening(q) => img(q) # img(r)
      BY <1>1, <1>8, <2>1 DEF OpensAlone
    <2>3. pc[q] = "open_row" => Opening(q) /\ img(q) \in Images
      BY <2>1 DEF FrameOK, Opening, ImageLabels, Opened
    <2> QED BY <1>1, <2>1, <2>2, <2>3 DEF Undisturbed, StoredFirst, FileType
  <1>9. Fits(r, "close_evict", buf[r])
    BY <1>1 DEF Fits, FrameOK, ImageLabels, BytesLabels
  <1>10. StoredFirst(r)'
    <2>1. pc'[r] = "close_evict" /\ frame'[r] = frame[r]
      BY <1>1, <1>3, GotoMoves
    <2> QED BY <2>1 DEF StoredFirst, Opening, img
  <1> QED BY <1>3, <1>4, <1>6, <1>7, <1>8, <1>9, <1>10, WorldGoto

(* session_destroy deletes the rows. *)
LEMMA DestroyRowsStep ==
    ASSUME IInv, NEW r \in Rpcs, destroy_rows(r)
    PROVE  IInv'
  <1>1. /\ FrameOK(r) /\ pc[r] = "destroy_rows" /\ HandlerType /\ TableType /\ HistoryType
        /\ now \in Nat
    BY TypedAt, TypeParts DEF destroy_rows, At, IInv
  <1>2. /\ delete_session(frame[r].session) /\ UNCHANGED <<idVars, fileVars>>
        /\ gcTodo' = gcTodo /\ gcPurging' = gcPurging
    BY DEF destroy_rows, gcVars
  <1>3. /\ Grows /\ FilesStay /\ ForeignKeys' /\ RowHasFile'
        /\ \A q \in Rpcs : Undisturbed(q)
        /\ images' \subseteq images /\ sessions' = sessions \ {frame[r].session}
    BY <1>2, DeleteSession
  <1>4. WorldOK'
    BY <1>2, <1>3, WorldFromIds DEF IInv, IdsOK
  <1>5. TableType'
    BY <1>1, <1>2, TablesStayTyped
  <1>6. CASE Goto(r, "destroy_files") /\ UNCHANGED historyVars
    <2>1. "destroy_files" \in Labels
      BY DEF Labels
    <2>2. /\ HandlerType' /\ pc'[r] = "destroy_files" /\ frame'[r] = frame[r]
      BY <1>1, <1>6, <2>1, GotoMoves
    <2>3. TypeOK'
      BY <1>5, <1>6, <2>2, TypeParts, TypePartsNext, TypeUnchanged DEF IInv, destroy_rows
    <2>4. Fits(r, "destroy_files", buf[r])
      BY DEF Fits, ImageLabels, BytesLabels
    <2>5. StoredFirst(r)'
      BY <2>2 DEF StoredFirst, Opening
    <2>6. frame[r].session \in minted' \ sessions'
      BY <1>1, <1>2, <1>3 DEF FrameOK, idVars
    <2> QED BY <1>3, <1>4, <1>6, <2>1, <2>3, <2>4, <2>5, <2>6, WorldGoto
  <1>7. CASE Succeed(r)
    <2>1. Drop(r) /\ HistoryType' /\ HandlerType'
      BY <1>1, <1>7, SucceedType, DropMoves
    <2>2. TypeOK'
      BY <1>5, <2>1, TypeParts, TypePartsNext, TypeUnchanged DEF IInv, destroy_rows
    <2> QED BY <1>3, <1>4, <2>1, <2>2, WorldQuits
  <1> QED BY <1>6, <1>7 DEF destroy_rows

(* session_destroy removes the directory. *)
LEMMA DestroyFilesStep ==
    ASSUME IInv, NEW r \in Rpcs, destroy_files(r)
    PROVE  IInv'
  <1>1. FrameOK(r) /\ HandlerType /\ FileType /\ HistoryType /\ now \in Nat
    BY TypedAt, TypeParts DEF IInv
  <1>2. frame[r].session \notin sessions
    BY DEF IInv, IdsOK, destroy_files, At
  <1>3. /\ remove_session_dir(frame[r].session) /\ UNCHANGED <<tableVars, idVars>>
        /\ gcTodo' = gcTodo /\ gcPurging' = gcPurging
        /\ images' = images /\ sessions' = sessions
    BY DEF destroy_files, gcVars, tableVars
  <1>4. Drop(r) /\ HistoryType' /\ HandlerType' /\ FileType'
    BY <1>1, <1>3, SucceedType, DropMoves, RemoveSessionDirType DEF destroy_files
  <1>5. TypeOK'
    BY <1>4, TypeParts, TypePartsNext, TypeUnchanged DEF IInv, destroy_files
  <1>6. /\ Grows /\ FilesStay /\ ForeignKeys' /\ RowHasFile'
        /\ \A q \in Rpcs : Undisturbed(q)
    BY <1>2, <1>3, RemoveSessionDir
  <1>7. WorldOK'
    BY <1>3, <1>6, WorldFromIds DEF IInv, IdsOK
  <1> QED BY <1>4, <1>5, <1>6, <1>7, WorldQuits

(* session_create inserts a row with a fresh id. *)
LEMMA CreateSessionStep ==
    ASSUME IInv, NEW r \in Rpcs, create_session(r)
    PROVE  IInv'
  <1>1. /\ FrameOK(r) /\ HandlerType /\ TableType /\ IdType /\ HistoryType
        /\ now \in Nat
    BY TypedAt, TypeParts DEF IInv
  <1>2. PICK s \in Sessions \ minted : minted' = minted \cup {s} /\ insert_session(s, now)
    BY DEF create_session
  <1>3. Drop(r) /\ HistoryType' /\ HandlerType'
    BY <1>1, SucceedType, DropMoves DEF create_session
  <1>4. TableType' /\ IdType'
    <2>1. TableType'
      BY <1>1, <1>2, TablesStayTyped
    <2>2. IdType'
      BY <1>1, <1>2 DEF create_session, IdType
    <2> QED BY <2>1, <2>2
  <1>5. TypeOK'
    BY <1>3, <1>4, TypeParts, TypePartsNext, TypeUnchanged DEF IInv, create_session
  <1> USE DEF create_session, insert_session, fileVars, gcVars
  <1>6. ForeignKeys' /\ RowHasFile'
    BY <1>2 DEF IInv, ForeignKeys, RowHasFile
  <1>7. WorldOK'
    BY <1>2, <1>6 DEF IInv, IdsOK, WorldOK, Opened
  <1>8. Grows /\ FilesStay
    <2>1. \A i \in Opened : imageSession[i] # s
      BY DEF IInv, IdsOK, Opened
    <2> QED BY <1>2 DEF Grows, FilesStay, Opened
  <1>9. \A q \in Rpcs : Undisturbed(q)
    BY <1>2, KeepsUndisturbed
  <1> QED BY <1>3, <1>5, <1>7, <1>8, <1>9, WorldQuits

(* open_from_bytes inserts the row of an image whose file is stored. *)
LEMMA OpenRowStep ==
    ASSUME IInv, NEW r \in Rpcs, OpenRow(r)
    PROVE  IInv'
  <1>1. /\ FrameOK(r) /\ StoredFirst(r) /\ pc[r] = "open_row" /\ HandlerType /\ TableType
        /\ HistoryType
    BY TypedAt, TypeParts DEF OpenRow, At, IInv, InFlightOK
  <1>2. img(r) \in Opened /\ img(r) \in Images /\ frame[r].op = "image_open"
    BY <1>1 DEF FrameOK, ImageLabels, Opened
  <1>3. CASE Fail(r) /\ UNCHANGED tableVars
    BY <1>3, CacheUnchanged, CalmQuits DEF OpenRow, Calm
  <1>4. CASE insert_image(img(r)) /\ Goto(r, "open_cache") /\ UNCHANGED historyVars
    <2>1. "open_cache" \in Labels
      BY DEF Labels
    <2>2. TableType' /\ HandlerType' /\ pc'[r] = "open_cache" /\ frame'[r] = frame[r]
      BY <1>1, <1>2, <1>4, <2>1, TablesStayTyped, GotoMoves
    <2>3. TypeOK'
      BY <1>4, <2>2, TypeParts, TypePartsNext, TypeUnchanged DEF IInv, OpenRow
    <2> USE DEF OpenRow, insert_image, idVars, fileVars, gcVars
    <2>4. ForeignKeys'
      BY <1>4 DEF IInv, ForeignKeys
    <2>5. RowHasFile'
      BY <1>1, <1>4 DEF IInv, RowHasFile, StoredFirst
    <2>6. WorldOK'
      BY <1>2, <1>4, <2>4, <2>5 DEF IInv, IdsOK, WorldOK, Opened
    <2>7. Grows /\ FilesStay
      BY <1>4 DEF Grows, FilesStay, Opened
    <2>8. ASSUME NEW q \in Rpcs, q # r PROVE Undisturbed(q)
      <3>1. StoredFirst(q) /\ OpensAlone(r, q) /\ Opening(r)
        BY <1>1, <1>2 DEF IInv, InFlightOK, Opening
      <3>2. Opening(q) \/ pc[q] = "close_file" => img(q) \notin images /\ img(q) # img(r)
        BY <2>8, <3>1 DEF StoredFirst, OpensAlone
      <3> QED BY <1>4, <3>2 DEF Undisturbed
    <2>9. Fits(r, "open_cache", buf[r])
      BY <1>1 DEF Fits, FrameOK, ImageLabels, BytesLabels
    <2>10. StoredFirst(r)'
      BY <2>2 DEF StoredFirst, Opening
    <2> QED BY <1>4, <2>1, <2>3, <2>6, <2>7, <2>8, <2>9, <2>10, WorldGoto
  <1> QED BY <1>3, <1>4 DEF OpenRow

(* image_snapshot_create inserts the row of a snapshot whose file is stored. *)
LEMMA SnapshotInsertStep ==
    ASSUME IInv, NEW r \in Rpcs, SnapshotInsert(r)
    PROVE  IInv'
  <1>1. /\ FrameOK(r) /\ StoredFirst(r) /\ pc[r] = "snap_insert" /\ HandlerType
        /\ TableType /\ HistoryType
    BY TypedAt, TypeParts DEF SnapshotInsert, At, IInv, InFlightOK
  <1>2. CASE Fail(r) /\ UNCHANGED tableVars
    BY <1>2, CacheUnchanged, CalmQuits DEF SnapshotInsert, Calm
  <1>3. CASE insert_image_snapshot(frame[r].snapshot) /\ Goto(r, "touch") /\ UNCHANGED historyVars
    <2>1. "touch" \in Labels /\ frame[r].snapshot \in Snapshots
      BY <1>1 DEF Labels, StoredFirst
    <2>2. TableType' /\ HandlerType' /\ pc'[r] = "touch" /\ frame'[r] = frame[r]
      BY <1>1, <1>3, <2>1, TablesStayTyped, GotoMoves
    <2>3. TypeOK'
      BY <1>3, <2>2, TypeParts, TypePartsNext, TypeUnchanged DEF IInv, SnapshotInsert
    <2> USE DEF SnapshotInsert, insert_image_snapshot, idVars, fileVars, gcVars
    <2>4. ForeignKeys'
      BY <1>3 DEF IInv, ForeignKeys
    <2>5. RowHasFile'
      <3>1. snapshotImage[frame[r].snapshot] = img(r) /\ imageSession[img(r)] \in sessions
        BY <1>1, <1>3 DEF IInv, ForeignKeys, StoredFirst
      <3> QED BY <1>1, <1>3, <3>1 DEF IInv, RowHasFile, StoredFirst
    <2>6. WorldOK'
      BY <1>3, <2>4, <2>5, WorldFromIds DEF IInv, IdsOK
    <2>7. Grows /\ FilesStay
      BY <1>3 DEF Grows, FilesStay, Opened
    <2>8. \A q \in Rpcs : Undisturbed(q)
      BY <1>3, KeepsUndisturbed
    <2>9. Fits(r, "touch", buf[r])
      BY <1>1 DEF Fits, FrameOK, ImageLabels, BytesLabels
    <2>10. StoredFirst(r)'
      BY <2>2 DEF StoredFirst, Opening
    <2> QED BY <1>3, <2>1, <2>3, <2>6, <2>7, <2>8, <2>9, <2>10, WorldGoto
  <1> QED BY <1>2, <1>3 DEF SnapshotInsert

(* artifact_import and image_node_extract insert the row of a stored artifact. *)
LEMMA ArtifactInsertStep ==
    ASSUME IInv, NEW r \in Rpcs, ArtifactInsert(r)
    PROVE  IInv'
  <1>1. /\ FrameOK(r) /\ StoredFirst(r) /\ pc[r] = "art_insert" /\ HandlerType
        /\ TableType /\ HistoryType /\ now \in Nat
    BY TypedAt, TypeParts DEF ArtifactInsert, At, IInv, InFlightOK
  <1>2. CASE Fail(r) /\ UNCHANGED tableVars
    BY <1>2, CacheUnchanged, CalmQuits DEF ArtifactInsert, Calm
  <1>3. CASE insert_artifact(frame[r].artifact) /\ Succeed(r)
    <2>1. frame[r].artifact \in Artifacts
      BY <1>1 DEF StoredFirst
    <2>2. TableType' /\ HandlerType' /\ HistoryType' /\ Drop(r)
      BY <1>1, <1>3, <2>1, TablesStayTyped, SucceedType, DropMoves
    <2>3. TypeOK'
      BY <1>3, <2>2, TypeParts, TypePartsNext, TypeUnchanged DEF IInv, ArtifactInsert
    <2> USE DEF ArtifactInsert, insert_artifact, idVars, fileVars, gcVars
    <2>4. ForeignKeys'
      BY <1>3 DEF IInv, ForeignKeys
    <2>5. RowHasFile'
      BY <1>1, <1>3 DEF IInv, RowHasFile, StoredFirst
    <2>6. WorldOK'
      BY <1>3, <2>4, <2>5, WorldFromIds DEF IInv, IdsOK
    <2>7. Grows /\ FilesStay
      BY <1>3 DEF Grows, FilesStay, Opened
    <2>8. \A q \in Rpcs : Undisturbed(q)
      BY <1>3, KeepsUndisturbed
    <2> QED BY <2>2, <2>3, <2>6, <2>7, <2>8, WorldQuits
  <1> QED BY <1>2, <1>3 DEF ArtifactInsert

(* open_from_bytes mints an image id that no other handler knows. *)
LEMMA OpenCheckStep ==
    ASSUME IInv, NEW r \in Rpcs, OpenCheck(r)
    PROVE  IInv'
  <1>1. /\ FrameOK(r) /\ pc[r] = "open_check" /\ HandlerType /\ TableType /\ IdType
        /\ HistoryType
    BY TypedAt, TypeParts DEF OpenCheck, At, IInv
  <1>2. CASE Fail(r) /\ UNCHANGED idVars
    BY <1>2, CacheUnchanged, CalmQuits DEF OpenCheck, Calm
  <1>3. CASE ~(Fail(r) /\ UNCHANGED idVars)
    <2>1. PICK i \in Images \ Opened :
            /\ imageSession' = [imageSession EXCEPT ![i] = frame[r].session]
            /\ imageMode' = [imageMode EXCEPT ![i] = frame[r].mode]
            /\ frame' = [frame EXCEPT ![r].image = i]
            /\ pc' = [pc EXCEPT ![r] = "w_open"]
            /\ buf' = [buf EXCEPT ![r] = {}]
            /\ minted' = minted /\ snapshotImage' = snapshotImage
            /\ artifactSession' = artifactSession /\ UNCHANGED historyVars
      BY <1>3 DEF OpenCheck
    <2>2. frame[r].session \in minted /\ frame[r].session \in Sessions
      BY <1>1 DEF FrameOK, IdType
    <2>3. frame[r].session # None
      BY <1>1 DEF FrameOK
    <2>4. frame[r] \in Frames
      BY <1>1 DEF HandlerType
    <2>5. frame'[r] = [frame[r] EXCEPT !.image = i]
      BY <1>1, <2>1 DEF HandlerType
    <2>6. /\ frame'[r] \in Frames /\ frame'[r].image = i
          /\ frame'[r].op = frame[r].op /\ frame'[r].session = frame[r].session
          /\ frame'[r].edit = frame[r].edit /\ frame'[r].snapshot = frame[r].snapshot
      BY <2>4, <2>5 DEF Frames
    <2>7. Others(r) /\ pc'[r] = "w_open" /\ buf'[r] = {}
      BY <1>1, <2>1 DEF Others, HandlerType
    <2>8. HandlerType'
      <3>1. "w_open" \in Labels
        BY DEF Labels
      <3>2. {} \in Contents
        BY DEF Contents
      <3>3. \A q \in Rpcs : frame'[q] \in Frames
        BY <1>1, <2>6, <2>7 DEF Others, HandlerType
      <3>4. frame' \in [Rpcs -> Frames]
        BY <1>1, <2>1, <3>3 DEF HandlerType
      <3> QED BY <1>1, <2>1, <3>1, <3>2, <3>4 DEF HandlerType
    <2>9. IdType'
      <3>1. frame[r].mode \in {"read", "write"}
        BY <2>4 DEF Frames
      <3> QED BY <1>1, <2>1, <2>2, <3>1 DEF IdType
    <2>10. TypeOK'
      BY <2>1, <2>8, <2>9, TypeParts, TypePartsNext, TypeUnchanged DEF IInv, OpenCheck
    <2>11. /\ imageSession[i] = None /\ imageSession'[i] = frame[r].session
           /\ \A j \in Images : j # i => imageSession'[j] = imageSession[j]
           /\ i \in Opened'
      BY <1>1, <2>1, <2>3 DEF IdType, Opened
    <2> USE DEF OpenCheck, tableVars, fileVars, gcVars
    <2>12. i \notin images /\ images \subseteq Opened
      BY <2>11 DEF IInv, IdsOK, Opened
    <2>13. ForeignKeys'
      <3>1. \A j \in images : imageSession'[j] = imageSession[j]
        BY <1>1, <2>11, <2>12 DEF TableType
      <3> QED BY <2>1, <3>1 DEF IInv, ForeignKeys
    <2>14. RowHasFile'
      BY DEF IInv, RowHasFile
    <2>15. WorldOK'
      <3>1. images' \subseteq Opened'
        BY <1>1, <2>11, <2>12 DEF Opened
      <3>2. \A j \in Images : imageSession'[j] # None => imageSession'[j] \in minted
        BY <2>2, <2>11 DEF IInv, IdsOK
      <3> QED BY <2>1, <2>13, <2>14, <3>1, <3>2 DEF IInv, IdsOK, WorldOK
    <2>16. Grows
      BY <2>1, <2>11 DEF Grows, Opened
    <2>17. FilesStay
      BY DEF FilesStay
    <2>18. \A q \in Rpcs : Undisturbed(q)
      BY KeepsUndisturbed
    <2>19. FrameOK(r)'
      <3>1. {} # None /\ i # None
        BY StorageAssumption
      <3> QED BY <1>1, <2>1, <2>2, <2>6, <2>7, <2>11, <3>1
              DEF FrameOK, img, ImageLabels, BytesLabels
    <2>20. StoredFirst(r)'
      BY <2>6, <2>7, <2>12 DEF StoredFirst, img
    <2>21. ASSUME NEW q \in Rpcs, q # r PROVE OpensAlone(r, q)' /\ OpensAlone(q, r)'
      <3>1. frame'[q].image # i
        <4>1. FrameOK(q)
          BY DEF IInv, FramesOK
        <4>2. i # None /\ i \notin Opened
          BY StorageAssumption
        <4> QED BY <2>7, <2>21, <4>1, <4>2 DEF FrameOK, img, Others
      <3> QED BY <2>6, <3>1 DEF OpensAlone, img
    <2> HIDE DEF OpenCheck, tableVars, fileVars, gcVars
    <2> QED BY <2>7, <2>10, <2>15, <2>16, <2>17, <2>18, <2>19, <2>20, <2>21, WorldStep
  <1> QED BY <1>2, <1>3

(* image_snapshot_create stores its file under a fresh id. *)
LEMMA SnapshotStoreStep ==
    ASSUME IInv, NEW r \in Rpcs, SnapshotStore(r)
    PROVE  IInv'
  <1>1. /\ FrameOK(r) /\ pc[r] = "snap_store" /\ HandlerType /\ TableType /\ IdType
        /\ FileType /\ buf[r] \in {None} \cup Contents
    BY TypedAt, TypeParts DEF SnapshotStore, At, IInv
  <1>2. PICK k \in Snapshots \ Taken :
          /\ snapshotImage' = [snapshotImage EXCEPT ![k] = img(r)]
          /\ store_snapshot_file(k, buf[r])
          /\ frame' = [frame EXCEPT ![r].snapshot = k]
    BY DEF SnapshotStore
  <1>3. img(r) \in Images /\ img(r) \in Opened /\ buf[r] # None
    BY <1>1 DEF FrameOK, ImageLabels, BytesLabels, Opened
  <1>4. frame[r] \in Frames
    BY <1>1 DEF HandlerType
  <1>5. frame'[r] = [frame[r] EXCEPT !.snapshot = k]
    BY <1>1, <1>2 DEF HandlerType
  <1>6. /\ frame'[r] \in Frames /\ frame'[r].snapshot = k
        /\ frame'[r].op = frame[r].op /\ frame'[r].session = frame[r].session
        /\ frame'[r].edit = frame[r].edit /\ frame'[r].image = frame[r].image
    BY <1>4, <1>5 DEF Frames
  <1>7. Others(r) /\ pc'[r] = "snap_insert" /\ buf'[r] = buf[r]
    BY <1>1, <1>2 DEF Others, HandlerType, SnapshotStore
  <1>8. HandlerType'
    <2>1. "snap_insert" \in Labels
      BY DEF Labels
    <2>2. \A q \in Rpcs : frame'[q] \in Frames
      BY <1>1, <1>6, <1>7 DEF Others, HandlerType
    <2>3. frame' \in [Rpcs -> Frames]
      BY <1>1, <1>2, <2>2 DEF HandlerType
    <2> QED BY <1>1, <2>1, <2>3 DEF HandlerType, SnapshotStore
  <1>9. IdType' /\ FileType'
    <2>1. IdType'
      BY <1>1, <1>2, <1>3 DEF IdType, SnapshotStore
    <2>2. FileType'
      BY <1>1, <1>2, StoreSnapshotFileType
    <2> QED BY <2>1, <2>2
  <1>10. TypeOK'
    BY <1>8, <1>9, TypeParts, TypePartsNext, TypeUnchanged DEF IInv, SnapshotStore
  <1> USE DEF SnapshotStore, store_snapshot_file, tableVars, gcVars
  <1>11. /\ snapshotImage[k] = None /\ snapshotImage'[k] = img(r) /\ snapshotFile'[k] = buf[r]
         /\ \A j \in Snapshots : j # k => /\ snapshotImage'[j] = snapshotImage[j]
                                          /\ snapshotFile'[j] = snapshotFile[j]
    BY <1>1, <1>2 DEF IdType, FileType, Taken
  <1>12. k \notin snapshots
    <2>1. None \notin images
      BY <1>1, StorageAssumption DEF TableType
    <2> QED BY <1>11, <2>1 DEF IInv, ForeignKeys
  <1>13. ForeignKeys' /\ RowHasFile'
    BY <1>1, <1>2, <1>11, <1>12 DEF IInv, ForeignKeys, RowHasFile, TableType
  <1>14. WorldOK'
    BY <1>13 DEF IInv, IdsOK, WorldOK, Opened
  <1>15. Grows /\ FilesStay
    <2>1. \A j \in Taken : j \in Snapshots /\ j # k
      BY DEF Taken
    <2> QED BY <1>2, <1>11, <2>1 DEF Grows, FilesStay, Opened
  <1>16. \A q \in Rpcs : Undisturbed(q)
    BY <1>2, KeepsUndisturbed
  <1>17. FrameOK(r)'
    <2>1. k # None
      BY StorageAssumption
    <2> QED BY <1>1, <1>2, <1>3, <1>6, <1>7, <2>1
            DEF FrameOK, img, ImageLabels, BytesLabels, Opened
  <1>18. StoredFirst(r)'
    BY <1>3, <1>6, <1>7, <1>11 DEF StoredFirst, Opening, img
  <1>19. \A q \in Rpcs : OpensAlone(r, q)' /\ OpensAlone(q, r)'
    BY <1>7 DEF OpensAlone, Opening
  <1> HIDE DEF SnapshotStore, store_snapshot_file, tableVars, gcVars
  <1> QED BY <1>7, <1>10, <1>14, <1>15, <1>16, <1>17, <1>18, <1>19, WorldStep

(* An artifact is stored under a fresh id. *)
LEMMA ArtifactStoreStep ==
    ASSUME IInv, NEW r \in Rpcs, ArtifactStore(r)
    PROVE  IInv'
  <1> DEFINE owner == IF frame[r].op = "node_extract"
                      THEN imageSession[img(r)] ELSE frame[r].session
  <1>1. /\ FrameOK(r) /\ pc[r] = "art_store" /\ HandlerType /\ TableType /\ IdType
        /\ FileType
    BY TypedAt, TypeParts DEF ArtifactStore, At, IInv
  <1>2. PICK a \in Artifacts \ Stored :
          /\ artifactSession' = [artifactSession EXCEPT ![a] = owner]
          /\ store_artifact_file(a)
          /\ frame' = [frame EXCEPT ![r].artifact = a]
    BY DEF ArtifactStore
  <1>3. owner \in minted /\ owner \in Sessions /\ owner # None
    <2>1. CASE frame[r].op = "node_extract"
      BY <1>1, <2>1 DEF FrameOK, Opened, IInv, IdsOK, IdType
    <2>2. CASE frame[r].op # "node_extract"
      BY <1>1, <2>2 DEF FrameOK, IdType
    <2> QED BY <2>1, <2>2
  <1> HIDE DEF owner
  <1>4. frame[r] \in Frames
    BY <1>1 DEF HandlerType
  <1>5. frame'[r] = [frame[r] EXCEPT !.artifact = a]
    BY <1>1, <1>2 DEF HandlerType
  <1>6. /\ frame'[r] \in Frames /\ frame'[r].artifact = a
        /\ frame'[r].op = frame[r].op /\ frame'[r].session = frame[r].session
        /\ frame'[r].edit = frame[r].edit /\ frame'[r].image = frame[r].image
        /\ frame'[r].snapshot = frame[r].snapshot
    BY <1>4, <1>5 DEF Frames
  <1>7. Others(r) /\ pc'[r] = "art_insert" /\ buf'[r] = buf[r]
    BY <1>1, <1>2 DEF Others, HandlerType, ArtifactStore
  <1>8. HandlerType'
    <2>1. "art_insert" \in Labels
      BY DEF Labels
    <2>2. \A q \in Rpcs : frame'[q] \in Frames
      BY <1>1, <1>6, <1>7 DEF Others, HandlerType
    <2>3. frame' \in [Rpcs -> Frames]
      BY <1>1, <1>2, <2>2 DEF HandlerType
    <2> QED BY <1>1, <2>1, <2>3 DEF HandlerType, ArtifactStore
  <1>9. IdType' /\ FileType'
    <2>1. IdType'
      BY <1>1, <1>2, <1>3 DEF IdType, ArtifactStore
    <2>2. FileType'
      BY <1>1, <1>2, StoreArtifactFileType
    <2> QED BY <2>1, <2>2
  <1>10. TypeOK'
    BY <1>8, <1>9, TypeParts, TypePartsNext, TypeUnchanged DEF IInv, ArtifactStore
  <1> USE DEF ArtifactStore, store_artifact_file, tableVars, gcVars
  <1>11. /\ artifactSession[a] = None /\ artifactSession'[a] = owner /\ artifactFile'[a]
         /\ \A j \in Artifacts : j # a => /\ artifactSession'[j] = artifactSession[j]
                                          /\ artifactFile'[j] = artifactFile[j]
    BY <1>1, <1>2 DEF IdType, FileType, Stored
  <1>12. a \notin artifacts
    <2>1. None \notin sessions
      BY <1>1, StorageAssumption DEF TableType
    <2> QED BY <1>11, <2>1 DEF IInv, ForeignKeys
  <1>13. ForeignKeys' /\ RowHasFile'
    BY <1>1, <1>2, <1>11, <1>12 DEF IInv, ForeignKeys, RowHasFile, TableType
  <1>14. WorldOK'
    <2>1. \A j \in Artifacts : artifactSession'[j] # None => artifactSession'[j] \in minted
      BY <1>3, <1>11 DEF IInv, IdsOK
    <2> QED BY <1>13, <2>1 DEF IInv, IdsOK, WorldOK, Opened
  <1>15. Grows /\ FilesStay
    <2>1. \A j \in Stored : j \in Artifacts /\ j # a
      BY DEF Stored
    <2> QED BY <1>2, <1>11, <2>1 DEF Grows, FilesStay, Opened
  <1>16. \A q \in Rpcs : Undisturbed(q)
    BY <1>2, KeepsUndisturbed
  <1>17. FrameOK(r)'
    BY <1>1, <1>2, <1>3, <1>6, <1>7
       DEF FrameOK, img, ImageLabels, BytesLabels, Opened
  <1>18. StoredFirst(r)'
    BY <1>3, <1>6, <1>7, <1>11 DEF StoredFirst, Opening, img
  <1>19. \A q \in Rpcs : OpensAlone(r, q)' /\ OpensAlone(q, r)'
    BY <1>7 DEF OpensAlone, Opening
  <1> HIDE DEF ArtifactStore, store_artifact_file, tableVars, gcVars
  <1> QED BY <1>7, <1>10, <1>14, <1>15, <1>16, <1>17, <1>18, <1>19, WorldStep

-----------------------------------------------------------------------------
(* The invariant is inductive. *)

(* IInv holds in an empty data directory. *)
LEMMA InitInv == Init => IInv
  <1> SUFFICES ASSUME Init PROVE IInv
    OBVIOUS
  <1> USE DEF Init, StorageInit
  <1>1. TypeOK
    <2>1. TableType
      BY DEF TableType
    <2>2. IdType
      BY DEF IdType
    <2>3. CacheType /\ GcType /\ now \in Nat
      BY DEF CacheType, GcType
    <2>4. HistoryType
      BY DEF HistoryType
    <2>5. FileType
      BY DEF FileType, Fds
    <2>6. NoFrame \in Frames /\ "idle" \in Labels
      BY DEF NoFrame, Frames, Labels
    <2>7. HandlerType
      BY <2>6 DEF HandlerType
    <2> HIDE DEF Init, StorageInit
    <2> QED BY <2>1, <2>2, <2>3, <2>4, <2>5, <2>7, TypeParts
  <1>2. ASSUME NEW r \in Rpcs
        PROVE  /\ pc[r] = "idle" /\ frame[r].op = "none" /\ frame[r].image = None
               /\ frame[r].session = None
    BY DEF NoFrame
  <1>3. IdsOK
    BY <1>2 DEF IdsOK
  <1>4. FramesOK
    BY <1>2 DEF FramesOK, FrameOK, ImageLabels, BytesLabels, img
  <1>5. ForeignKeys /\ RowHasFile
    BY DEF ForeignKeys, RowHasFile
  <1>6. InFlightOK
    BY <1>2 DEF InFlightOK, StoredFirst, OpensAlone, Opening
  <1> QED BY <1>1, <1>3, <1>4, <1>5, <1>6 DEF IInv

(* Every step of a running handler keeps IInv. *)
LEMMA HandlerKeepsInv ==
    ASSUME IInv, NEW r \in Rpcs, HandlerStep(r)
    PROVE  IInv'
  <1>1. CASE SessionStep(r)
    BY <1>1, CreateSessionStep, DestroyRowsStep, DestroyFilesStep DEF SessionStep
  <1>2. CASE WriteStep(r)
    BY <1>2, WriteOpenStep, WriteBytesStep, WriteRenameStep, FailingSteps DEF WriteStep
  <1>3. CASE OpenStep(r)
    BY <1>3, OpenCheckStep, OpenRowStep, OpenCacheStep DEF OpenStep
  <1>4. CASE LoadStep(r)
    BY <1>4, LoadSteps, LookupSteps DEF LoadStep
  <1>5. CASE ReadStep(r)
    BY <1>5, ReadSteps, TouchStep DEF ReadStep
  <1>6. CASE MutateStep(r)
    BY <1>6, LookupSteps, MutateSteps DEF MutateStep
  <1>7. CASE FlushStep(r)
    BY <1>7, LookupSteps, FlushSteps DEF FlushStep
  <1>8. CASE CloseStep(r)
    BY <1>8, CloseRowStep, CloseDeleteStep, CloseFileStep, EvictSteps DEF CloseStep
  <1>9. CASE ArtifactStep(r)
    BY <1>9, LookupSteps, ArtifactStoreStep, ArtifactInsertStep, ReadSteps DEF ArtifactStep
  <1>10. CASE SnapshotStep(r)
    BY <1>10, LookupSteps, SnapshotReadSteps, SnapshotStoreStep, SnapshotInsertStep
       DEF SnapshotStep
  <1>11. CASE RestoreStep(r)
    BY <1>11, LookupSteps, SnapshotReadSteps, EvictSteps DEF RestoreStep
  <1> QED BY <1>1, <1>2, <1>3, <1>4, <1>5, <1>6, <1>7, <1>8, <1>9, <1>10, <1>11
          DEF HandlerStep

(* So does a stuttering step *)
LEMMA StutterKeepsInv == IInv /\ UNCHANGED vars => IInv'
  <1> SUFFICES ASSUME IInv, UNCHANGED vars PROVE IInv'
    OBVIOUS
  <1> USE DEF vars, tableVars, idVars, fileVars, gcVars
  <1>1. TypeOK'
    BY TypeParts, TypePartsNext, TypeUnchanged DEF IInv
  <1>2. ForeignKeys' /\ RowHasFile'
    BY DEF IInv, ForeignKeys, RowHasFile
  <1>3. WorldOK'
    BY <1>2, WorldFromIds DEF IInv, IdsOK
  <1>4. Grows /\ FilesStay
    BY DEF Grows, FilesStay, Opened
  <1>5. \A q \in Rpcs : Undisturbed(q)
    BY KeepsUndisturbed
  <1>6. UNCHANGED handlerVars
    OBVIOUS
  <1> HIDE DEF vars, tableVars, idVars, fileVars, gcVars
  <1> QED BY <1>1, <1>3, <1>4, <1>5, <1>6, GcMoves

(* and with that every step: IInv is inductive. *)
LEMMA NextKeepsInv == IInv /\ [Next]_vars => IInv'
  <1> SUFFICES ASSUME IInv, [Next]_vars PROVE IInv'
    OBVIOUS
  <1>1. ASSUME NEW r \in Rpcs, Call(r) \/ HandlerStep(r) \/ IoError(r) \/ Cancel(r)
        PROVE  IInv'
    BY <1>1, CallStep, HandlerKeepsInv, IoErrorStep, FailingSteps
  <1>2. CASE GcStep
    BY <1>2, GcTickStep, GcDeleteStep, GcPurgeStep DEF GcStep
  <1>3. CASE Tick
    BY <1>3, TickStep
  <1>4. CASE Crash
    BY <1>4, CrashStep
  <1>5. CASE UNCHANGED vars
    BY <1>5, StutterKeepsInv
  <1> QED BY <1>1, <1>2, <1>3, <1>4, <1>5 DEF Next

(* The rows, the files and the frames of the handlers stay related as IInv
   says, whatever the handlers of server.rs, the GC, crashes, failing system
   calls and dropped calls do, for every number of them.                    *)
THEOREM InvariantTheorem == Spec => []IInv
  <1>1. IInv /\ [Next]_vars => IInv'
    BY NextKeepsInv
  <1> QED BY InitInv, <1>1, PTL DEF Spec

(* The state of the engine stays typed: in particular no handler applies an
   edit to an image it has no tree of, or stores bytes it does not hold.    *)
THEOREM TypeTheorem == Spec => []TypeOK
  <1>1. IInv => TypeOK
    BY DEF IInv
  <1> QED BY InvariantTheorem, <1>1, PTL

(* Every row of an image, a snapshot or an artifact has its file: the order
   in which server.rs stores files and inserts rows, and session.rs deletes
   rows and removes directories, is enough, with no lock around the two.    *)
THEOREM RowHasFileTheorem == Spec => []RowHasFile
  <1>1. IInv => RowHasFile
    BY DEF IInv
  <1> QED BY InvariantTheorem, <1>1, PTL
=============================================================================
