------------------------- MODULE EngineSerialProofs -------------------------
(***************************************************************************)
(* Proofs about EngineServer for clients that do not overlap their calls   *)
(* on one image (~Overlap), for every number of clients, images, edits,    *)
(* crashes and failing system calls.                                       *)
(*                                                                         *)
(* The argument: a handler has its image to itself, so a step changes      *)
(* nothing that another handler relies on (Spared), except that the end of *)
(* a session can take the rows and the files of an image away at any point *)
(* (its ~Live).  What is left is, action by action, the handler that moves *)
(* and its image.                                                          *)
(***************************************************************************)
EXTENDS EngineSerial, EngineServerProofs

-----------------------------------------------------------------------------
(* What a step may do to an image that no moving handler is called on: its
   session may end, its rows and files may go with the session.            *)

Spared(i) ==
    /\ acked'[i] = acked[i] /\ cache'[i] = cache[i]
    /\ imageSession'[i] = imageSession[i]
    /\ imageFile'[i] \in {None, imageFile[i]} /\ tmpFile'[i] \in {None, tmpFile[i]}
    /\ i \in images' => i \in images
    /\ Live(i)' => /\ Live(i) /\ imageFile'[i] = imageFile[i] /\ tmpFile'[i] = tmpFile[i]
                   /\ i \in images => i \in images'
    /\ \A k \in Snapshots : snapshotImage[k] = i =>
         /\ snapshotImage'[k] = i
         /\ Live(i)' => snapshotFile'[k] = snapshotFile[k]
         /\ k \in snapshots => k \in snapshots' \/ i \notin images'

SparedFd(q) ==
    \/ fd'[q] = fd[q]
    \/ fd'[q] = None /\ tmpFile'[img(q)] = None /\ imageSession'[img(q)] \notin sessions'

(* A handler that does not move, and whose image is spared, stays in order. *)
LEMMA StandsBy ==
    ASSUME SerialInv, NEW q \in Rpcs, Still(q), SparedFd(q),
           img(q) # None => Spared(img(q))
    PROVE  HandlerOK(q)'
  <1>1. FrameOK(q) /\ HandlerOK(q) /\ StoredFirst(q)
    BY DEF SerialInv, IInv, FramesOK, InFlightOK
  <1>2. (img(q))' = img(q) /\ (At_write(q)' <=> At_write(q))
    BY DEF Still, img, At_write
  <1>3. PathOK(q)'
    BY <1>1, <1>2 DEF HandlerOK, PathOK, Still
  <1>4. WriteOK(q)'
    <2>1. pc[q] \in {"w_write", "w_rename"} => img(q) # None
      BY <1>1 DEF FrameOK, ImageLabels
    <2> QED BY <1>1, <1>2, <2>1 DEF HandlerOK, WriteOK, Still, SparedFd, Spared, Live
  <1>5. RestoreOK(q)'
    <2>1. frame[q].op = "snapshot_restore" => img(q) # None
      BY <1>1 DEF HandlerOK, PathOK, FrameOK, ImageLabels
    <2> QED BY <1>1, <1>2, <2>1 DEF HandlerOK, RestoreOK, PathOK, At_write, Still, Spared
  <1>6. OpenOK(q)'
    <2>1. frame[q].op = "image_open" /\ pc[q] \notin {"open_check", "touch"} => img(q) # None
      BY <1>1 DEF HandlerOK, PathOK, FrameOK, ImageLabels
    <2>2. pc[q] \in {"open_row", "open_cache"} => img(q) # None
      BY <1>1 DEF FrameOK, ImageLabels
    <2> QED BY <1>1, <1>2, <2>1, <2>2 DEF HandlerOK, OpenOK, Still, Spared
  <1>7. SnapshotOK(q)'
    <2>1. pc[q] \in {"snap_store", "snap_insert"} => img(q) # None
      BY <1>1 DEF FrameOK, ImageLabels
    <2> QED BY <1>1, <1>2, <2>1 DEF HandlerOK, SnapshotOK, StoredFirst, Still, Spared
  <1> QED BY <1>3, <1>4, <1>5, <1>6, <1>7 DEF HandlerOK

(* A spared image stays whole. *)
LEMMA SparedOK ==
    ASSUME SerialInv, NEW j \in Images, Spared(j)
    PROVE  Unopened(j)' /\ imageFile'[j] # Torn /\ cache'[j] # Torn
  BY StorageAssumption DEF SerialInv, Untorn, Unopened, Spared, Opened

(* A handler that stands by stays in order if all images but i are spared and
   it is not called on i.                                                     *)
LEMMA StandsByAll ==
    ASSUME SerialInv, NEW i, \A j \in Images : j # i => Spared(j),
           NEW q \in Rpcs, Still(q), SparedFd(q), img(q) # i \/ i \notin Images
    PROVE  HandlerOK(q)' /\ buf'[q] # Torn
  <1>1. img(q) # None => img(q) \in Images
    BY TypedAt DEF SerialInv
  <1>2. HandlerOK(q)'
    BY <1>1, StandsBy
  <1> QED BY <1>2 DEF SerialInv, Untorn, Still

-----------------------------------------------------------------------------
(* How the moving handler moves. *)

Quit(r) == /\ Others(r)
           /\ pc'[r] = "idle" /\ frame'[r] = NoFrame /\ buf'[r] = None

To(r, l, b) == /\ Others(r)
               /\ pc'[r] = l /\ frame'[r] = frame[r] /\ buf'[r] = b

(* Returning, Goto and GotoWith are moves of one handler. *)
LEMMA Moves ==
    ASSUME IInv, NEW r \in Rpcs
    PROVE  /\ Fail(r) \/ Succeed(r) => Quit(r)
           /\ \A l \in Labels : Goto(r, l) => To(r, l, buf[r])
           /\ \A l \in Labels, b \in {None} \cup Contents : GotoWith(r, l, b) => To(r, l, b)
  <1>1. HandlerType
    BY TypeParts DEF IInv
  <1> QED BY <1>1, DropMoves, GotoMoves, GotoWithMoves DEF Fail, Succeed, Quit, To

(* Only an edit that returns from its touch is counted as answered. *)
LEMMA SucceedAcks ==
    ASSUME SerialInv, NEW r \in Rpcs, Succeed(r), pc[r] # "touch" \/ frame[r].op # "mutate",
           pc[r] \notin {"src_row", "src_read", "load_check", "load_row", "load_read",
                         "load_insert", "mutate", "flush_build", "flush_size",
                         "flush_validate", "w_open", "w_write", "w_rename", "flush_swap"}
    PROVE  acked' = acked
  BY DEF SerialInv, HandlerOK, PathOK, Succeed

(* Steps that change nothing an image consists of. *)
Silent == UNCHANGED <<sessions, images, snapshots, imageSession, snapshotImage,
                      imageFile, tmpFile, snapshotFile, cache, acked>>

(* A silent step spares every image. *)
LEMMA SilentSpares == Silent => \A j : Spared(j)
  BY DEF Silent, Spared, Live

(* The moves that only look: where they start, where they lead, with what. *)
Walks(r) ==
    LET i == img(r) k == frame[r].snapshot IN
    \/ At(r, "load_check") /\ cache[i] # None /\ To(r, AfterLoad(r), buf[r])
    \/ At(r, "load_check") /\ cache[i] = None /\ To(r, "load_row", buf[r])
    \/ At(r, "load_row") /\ i \in images /\ To(r, "load_read", buf[r])
    \/ At(r, "load_read") /\ imageFile[i] # None /\ To(r, "load_insert", imageFile[i])
    \/ /\ At(r, "read") /\ cache[i] # None
       /\ \E l \in {"save", "art_store", "touch"} : To(r, l, cache[i])
    \/ At(r, "src_row") /\ To(r, "src_read", buf[r])
    \/ At(r, "src_read") /\ To(r, "load_check", buf[r])
    \/ At(r, "flush_build") /\ cache[i] # None /\ To(r, "flush_size", cache[i])
    \/ At(r, "flush_size") /\ To(r, "flush_validate", buf[r])
    \/ At(r, "flush_validate") /\ To(r, "w_open", buf[r])
    \/ At(r, "close_row") /\ i \in images /\ To(r, "close_delete", buf[r])
    \/ At(r, "art_check") /\ To(r, "art_store", buf[r])
    \/ At(r, "exp_row") /\ To(r, "exp_read", buf[r])
    \/ At(r, "snap_row") /\ i \in images /\ To(r, "snap_read", buf[r])
    \/ At(r, "snap_read") /\ imageFile[i] # None /\ To(r, "snap_store", imageFile[i])
    \/ /\ At(r, "rest_snap") /\ k \in snapshots /\ snapshotImage[k] = i
       /\ To(r, "rest_row", buf[r])
    \/ At(r, "rest_row") /\ To(r, "rest_read", buf[r])
    \/ At(r, "rest_read") /\ snapshotFile[k] # None /\ To(r, "w_open", snapshotFile[k])

(* Labels at which no handler returns without doing something. *)
Busy == {"w_write", "rest_evict", "touch", "close_evict"}

SilentStep(r) ==
    \/ LoadCheck(r) \/ LoadRow(r) \/ LoadRead(r) \/ Read(r) \/ Save(r)
    \/ SourceRow(r) \/ SourceRead(r) \/ MutateRefused(r)
    \/ FlushBuild(r) \/ FlushSize(r) \/ FlushValidate(r) \/ WriteRenameFails(r)
    \/ CloseRow(r) \/ ArtifactCheck(r) \/ ArtifactInsert(r) \/ ExportRow(r) \/ ExportRead(r)
    \/ SnapshotRow(r) \/ SnapshotRead(r)
    \/ RestoreSnapshot(r) \/ RestoreRow(r) \/ RestoreRead(r)

(* Steps that change neither the rows of images, nor a file or tree of theirs. *)
Unmoved == UNCHANGED <<sessions, images, snapshots, imageSession, imageMode, snapshotImage,
                       imageFile, tmpFile, snapshotFile, cache>>

(* The looking steps change no image, and walk or return. *)
LEMMA StillSteps ==
    ASSUME IInv, NEW r \in Rpcs, SilentStep(r)
    PROVE  /\ Unmoved /\ fd' = fd
           /\ Walks(r) \/ (Quit(r) /\ pc[r] \notin Busy)
  <1> USE DEF tableVars, idVars, fileVars, Unmoved, At, Busy
  <1>0. IInv /\ FrameOK(r)
    BY DEF IInv, FramesOK
  <1>1. /\ Fail(r) \/ Succeed(r) => Quit(r)
        /\ \A l \in Labels : Goto(r, l) => To(r, l, buf[r])
        /\ \A l \in Labels, b \in {None} \cup Contents : GotoWith(r, l, b) => To(r, l, b)
    BY <1>0, Moves
  <1>5. /\ pc[r] \in ImageLabels => img(r) \in Images
        /\ img(r) \in Images => /\ cache[img(r)] \in {None} \cup Contents
                                /\ imageFile[img(r)] \in {None} \cup Contents
    BY <1>0, TypedAt DEF FrameOK
  <1>6. CASE LoadCheck(r)
    <2>1. "load_row" \in Labels /\ AfterLoad(r) \in Labels
      BY DEF Labels, AfterLoad
    <2> QED BY <1>1, <1>6, <2>1 DEF LoadCheck, Walks
  <1>7. CASE LoadRow(r) \/ SourceRow(r) \/ SourceRead(r) \/ CloseRow(r)
    BY <1>1, <1>7 DEF LoadRow, SourceRow, SourceRead, CloseRow, Walks, Labels
  <1>8. CASE LoadRead(r)
    BY <1>1, <1>5, <1>8 DEF LoadRead, Walks, Labels, ImageLabels
  <1>9. CASE Read(r)
    <2>1. pc[r] = "read" /\ img(r) \in Images
      BY <1>5, <1>9 DEF Read, ImageLabels
    <2>2. CASE Fail(r) \/ Succeed(r)
      BY <1>1, <1>9, <2>1, <2>2 DEF Read
    <2>3. CASE ~(Fail(r) \/ Succeed(r))
      <3>1. PICK l \in {"save", "art_store", "touch"} :
              GotoWith(r, l, cache[img(r)]) /\ cache[img(r)] # None
        BY <1>9, <2>3 DEF Read
      <3>2. l \in Labels
        BY DEF Labels
      <3> QED BY <1>1, <1>5, <1>9, <2>1, <3>1, <3>2 DEF Read, Walks
    <2> QED BY <2>2, <2>3
  <1>10. CASE Save(r) \/ ExportRead(r) \/ MutateRefused(r) \/ WriteRenameFails(r)
    BY <1>1, <1>10 DEF Save, ExportRead, MutateRefused, WriteRenameFails
  <1>11. CASE FlushBuild(r)
    BY <1>1, <1>5, <1>11 DEF FlushBuild, Walks, Labels, ImageLabels
  <1>12. CASE FlushSize(r) \/ FlushValidate(r) \/ ArtifactCheck(r) \/ ExportRow(r)
    BY <1>1, <1>12 DEF FlushSize, FlushValidate, ArtifactCheck, ExportRow, Walks, Labels
  <1>13. CASE ArtifactInsert(r)
    BY <1>1, <1>13 DEF ArtifactInsert, insert_artifact
  <1>14. CASE SnapshotRow(r) \/ RestoreSnapshot(r) \/ RestoreRow(r)
    BY <1>1, <1>14 DEF SnapshotRow, RestoreSnapshot, RestoreRow, Walks, Labels
  <1>15. CASE SnapshotRead(r)
    BY <1>1, <1>5, <1>15 DEF SnapshotRead, Walks, Labels, ImageLabels
  <1>16. CASE RestoreRead(r)
    <2>1. frame[r].snapshot \in Snapshots
      BY <1>0, <1>16, TypedAt DEF RestoreRead, FrameOK, Frames
    <2>2. snapshotFile[frame[r].snapshot] \in {None} \cup Contents
      BY <1>0, <2>1, TypeParts DEF IInv, FileType
    <2> QED BY <1>1, <1>16, <2>2 DEF RestoreRead, Walks, Labels
  <1> QED BY <1>6, <1>7, <1>8, <1>9, <1>10, <1>11, <1>12, <1>13, <1>14, <1>15, <1>16
          DEF SilentStep

(* No look is counted as an answer, and so none changes what an image consists of. *)
LEMMA SilentSteps ==
    ASSUME SerialInv, NEW r \in Rpcs, SilentStep(r)
    PROVE  /\ Silent /\ fd' = fd
           /\ Walks(r) \/ (Quit(r) /\ pc[r] \notin Busy)
  <1>1. /\ Unmoved /\ fd' = fd
        /\ Walks(r) \/ (Quit(r) /\ pc[r] \notin Busy)
    BY StillSteps DEF SerialInv
  <1>2. Fail(r) => UNCHANGED acked
    BY DEF Fail, historyVars
  <1>3. Succeed(r) /\ pc[r] \in {"read", "save", "exp_read", "art_insert"} => UNCHANGED acked
    BY SucceedAcks
  <1>4. UNCHANGED acked
    BY <1>2, <1>3 DEF historyVars, At, SilentStep, LoadCheck, LoadRow, LoadRead, Read, Save,
       SourceRow, SourceRead, MutateRefused, FlushBuild, FlushSize, FlushValidate,
       WriteRenameFails, CloseRow, ArtifactCheck, ArtifactInsert, ExportRow, ExportRead,
       SnapshotRow, SnapshotRead, RestoreSnapshot, RestoreRow, RestoreRead
  <1> QED BY <1>1, <1>4 DEF Unmoved, Silent
-----------------------------------------------------------------------------
(* SerialInv, step by step. *)

(* Handlers stay alone while nobody is called on another image. *)
LEMMA AloneKept ==
    ASSUME Alone, NEW r \in Rpcs, Others(r), (img(r))' \in {None, img(r)}
    PROVE  Alone'
  BY DEF Alone, Others, img

(* A handler that has returned owes nothing. *)
LEMMA QuitOK ==
    ASSUME NEW r \in Rpcs, Quit(r), fd'[r] = None
    PROVE  HandlerOK(r)' /\ buf'[r] # Torn /\ (img(r))' = None
  <1>1. pc'[r] = "idle" /\ frame'[r].op = "none" /\ frame'[r].image = None
    BY DEF Quit, NoFrame
  <1>2. PathOK(r)' /\ WriteOK(r)' /\ RestoreOK(r)' /\ OpenOK(r)' /\ SnapshotOK(r)'
    BY <1>1 DEF PathOK, WriteOK, RestoreOK, OpenOK, SnapshotOK, At_write
  <1> QED BY <1>1, <1>2, StorageAssumption DEF HandlerOK, Quit, img

(* A step of handler r on image i keeps SerialInv, if it leaves both in order and
   spares the rest.                                                            *)
LEMMA StepOn ==
    ASSUME SerialInv, IInv', Alone', NEW r \in Rpcs, NEW i, Others(r),
           \A j \in Images : j # i => Spared(j),
           \A q \in Rpcs : q # r => SparedFd(q) /\ (img(q) # i \/ i \notin Images),
           i \in Images => Unopened(i)' /\ imageFile'[i] # Torn /\ cache'[i] # Torn,
           \A k \in Snapshots : snapshotFile'[k] # Torn,
           HandlerOK(r)', buf'[r] # Torn
    PROVE  SerialInv'
  <1>1. ASSUME NEW q \in Rpcs PROVE HandlerOK(q)' /\ buf'[q] # Torn
    <2>1. CASE q = r
      BY <2>1
    <2>2. CASE q # r
      <3>1. Still(q)
        BY <2>2 DEF Others, Still
      <3> QED BY <2>2, <3>1, StandsByAll
    <2> QED BY <2>1, <2>2
  <1>2. ASSUME NEW j \in Images PROVE Unopened(j)' /\ imageFile'[j] # Torn /\ cache'[j] # Torn
    BY SparedOK
  <1> QED BY <1>1, <1>2 DEF SerialInv, Untorn

(* A step of one handler that spares every image keeps SerialInv, if the handler
   itself is left in order.                                                    *)
LEMMA SparingStep ==
    ASSUME SerialInv, IInv', NEW r \in Rpcs, Others(r), (img(r))' \in {None, img(r)},
           \A j \in Images : Spared(j), \A q \in Rpcs : q # r => SparedFd(q),
           \A k \in Snapshots : snapshotFile'[k] # Torn,
           HandlerOK(r)', buf'[r] # Torn
    PROVE  SerialInv'
  <1>1. Alone'
    BY AloneKept DEF SerialInv
  <1>2. PICK i : i = None
    OBVIOUS
  <1>3. i \notin Images
    BY <1>2, StorageAssumption
  <1>4. ASSUME NEW q \in Rpcs, q # r PROVE SparedFd(q) /\ (img(q) # i \/ i \notin Images)
    BY <1>3, <1>4
  <1> QED BY <1>1, <1>3, <1>4, StepOn

(* A silent step that ends a handler keeps SerialInv. *)
LEMMA SilentQuits ==
    ASSUME SerialInv, IInv', NEW r \in Rpcs, Silent, Quit(r),
           \/ fd' = fd /\ pc[r] # "w_write"
           \/ fd' = [fd EXCEPT ![r] = None]
    PROVE  SerialInv'
  <1>1. fd \in [Rpcs -> Fds] /\ WriteOK(r)
    BY TypeParts DEF SerialInv, IInv, FileType, HandlerOK
  <1>2. fd'[r] = None /\ \A q \in Rpcs : q # r => SparedFd(q)
    BY <1>1 DEF WriteOK, SparedFd
  <1>3. HandlerOK(r)' /\ buf'[r] # Torn /\ (img(r))' = None
    BY <1>2, QuitOK
  <1>4. \A k \in Snapshots : snapshotFile'[k] # Torn
    BY DEF SerialInv, Untorn, Silent
  <1> QED BY <1>2, <1>3, <1>4, SilentSpares, SparingStep DEF Quit

(* A walk leaves its handler in order. *)
LEMMA WalkOK ==
    ASSUME SerialInv, NEW r \in Rpcs, Silent, fd' = fd, Walks(r)
    PROVE  HandlerOK(r)' /\ buf'[r] # Torn /\ Others(r) /\ (img(r))' = img(r)
  <1> USE DEF At, To
  <1>1. FrameOK(r) /\ HandlerOK(r) /\ StoredFirst(r)
    BY DEF SerialInv, IInv, FramesOK, InFlightOK
  <1>2. /\ Others(r) /\ frame'[r] = frame[r] /\ (img(r))' = img(r)
    BY DEF Walks, img
  <1>3. buf'[r] # Torn
    <2>1. /\ buf[r] # Torn
          /\ pc[r] \in ImageLabels => imageFile[img(r)] # Torn /\ cache[img(r)] # Torn
          /\ pc[r] = "rest_read" => snapshotFile[frame[r].snapshot] # Torn
      BY <1>1, TypedAt DEF SerialInv, Untorn, HandlerOK, RestoreOK, FrameOK
    <2> QED BY <2>1 DEF Walks, ImageLabels
  <1>4. PathOK(r)'
    BY <1>1, <1>2 DEF HandlerOK, PathOK, FrameOK, Walks, AfterLoad, At_write
  <1>5. WriteOK(r)'
    BY <1>1, <1>2 DEF HandlerOK, WriteOK, Walks, AfterLoad
  <1>6. RestoreOK(r)'
    BY <1>1, <1>2 DEF HandlerOK, PathOK, RestoreOK, FrameOK, Walks, AfterLoad, At_write, Silent, Live
  <1>7. OpenOK(r)'
    BY <1>1, <1>2 DEF HandlerOK, PathOK, OpenOK, Walks, AfterLoad, Silent, Live
  <1>8. SnapshotOK(r)'
    BY <1>1, <1>2 DEF SnapshotOK, Walks, AfterLoad, Silent, Live
  <1> QED BY <1>2, <1>3, <1>4, <1>5, <1>6, <1>7, <1>8 DEF HandlerOK

(* The looking steps keep SerialInv. *)
LEMMA SilentKeepsSerial ==
    ASSUME SerialInv, IInv', NEW r \in Rpcs, SilentStep(r)
    PROVE  SerialInv'
  <1>1. Silent /\ fd' = fd /\ (Walks(r) \/ (Quit(r) /\ pc[r] \notin Busy))
    BY SilentSteps
  <1>2. CASE Walks(r)
    <2>1. HandlerOK(r)' /\ buf'[r] # Torn /\ Others(r) /\ (img(r))' = img(r)
      BY <1>1, <1>2, WalkOK
    <2>2. \A k \in Snapshots : snapshotFile'[k] # Torn
      BY <1>1 DEF SerialInv, Untorn, Silent
    <2>3. \A q \in Rpcs : SparedFd(q)
      BY <1>1 DEF SparedFd
    <2> QED BY <1>1, <2>1, <2>2, <2>3, SilentSpares, SparingStep
  <1>3. CASE Quit(r) /\ pc[r] \notin Busy
    BY <1>1, <1>3, SilentQuits DEF Busy
  <1> QED BY <1>1, <1>2, <1>3
-----------------------------------------------------------------------------
(* What the other steps do: to their handler, to its image, and to the rest. *)

OthersSpared(r) ==
    /\ \A j \in Images : j # img(r) => Spared(j)
    /\ \A q \in Rpcs : q # r => SparedFd(q) /\ img(q) # img(r)

(* A handler at a label that needs an image has one, for itself. *)
LEMMA OnItsImage ==
    ASSUME SerialInv, NEW r \in Rpcs, pc[r] \in ImageLabels
    PROVE  /\ img(r) \in Images /\ img(r) \in Opened /\ img(r) # None
           /\ \A q \in Rpcs : q # r => img(q) # img(r)
           /\ cache[img(r)] \in {None} \cup Contents
           /\ imageFile[img(r)] \in {None} \cup Contents
           /\ tmpFile[img(r)] \in {None} \cup Contents
           /\ buf[r] \in {None} \cup Contents
           /\ FrameOK(r) /\ HandlerOK(r) /\ StoredFirst(r)
  <1>1. IInv /\ FrameOK(r) /\ HandlerOK(r) /\ StoredFirst(r)
    BY DEF SerialInv, IInv, FramesOK, InFlightOK
  <1>2. img(r) # None /\ img(r) \in Opened
    BY <1>1 DEF FrameOK
  <1>3. img(r) \in Images
    BY <1>2 DEF Opened
  <1>4. \A q \in Rpcs : q # r => img(q) # img(r)
    BY <1>2 DEF SerialInv, Alone
  <1> QED BY <1>1, <1>2, <1>3, <1>4, TypedAt, TypeParts DEF IInv, FileType

(* An open descriptor is that of the tmp file of the handler's own image. *)
LEMMA Descriptors ==
    ASSUME SerialInv, NEW q \in Rpcs
    PROVE  /\ fd[q] \in {None, <<img(q), "tmp">>}
           /\ fd[q] # None => pc[q] = "w_write" /\ img(q) \in Images
  <1>1. WriteOK(q)
    BY DEF SerialInv, HandlerOK
  <1>2. pc[q] = "w_write" => img(q) \in Images
    BY OnItsImage DEF ImageLabels
  <1> QED BY <1>1, <1>2 DEF WriteOK

Frozen == UNCHANGED <<sessions, images, snapshots, imageSession, snapshotImage,
                      imageFile, tmpFile, snapshotFile, acked, fd>>

(* A step that only changes the tree of its image. *)
LEMMA CacheSpares ==
    ASSUME SerialInv, NEW r \in Rpcs, pc[r] \in ImageLabels, Frozen,
           NEW c, cache' = [cache EXCEPT ![img(r)] = c]
    PROVE  OthersSpared(r) /\ cache'[img(r)] = c
  <1>1. cache \in [Images -> {None} \cup Contents]
    BY TypeParts DEF SerialInv, IInv, CacheType
  <1>2. \A j \in Images : j # img(r) => Spared(j)
    BY <1>1 DEF Spared, Frozen, Live
  <1>3. \A q \in Rpcs : q # r => SparedFd(q)
    BY DEF SparedFd, Frozen
  <1> QED BY <1>1, <1>2, <1>3, OnItsImage DEF OthersSpared

CacheStep(r) ==
    \/ LoadInsert(r) \/ OpenCache(r) \/ MutatePartly(r) \/ Mutate(r) \/ FlushSwap(r)
    \/ CloseEvict(r) \/ RestoreEvict(r)

(* The steps that put a tree into the cache, change it or drop it. *)
LEMMA CacheSteps ==
    ASSUME SerialInv, NEW r \in Rpcs, CacheStep(r)
    PROVE  /\ Frozen /\ OthersSpared(r) /\ pc[r] \in ImageLabels
           /\ \/ /\ At(r, "load_insert") /\ To(r, AfterLoad(r), buf[r])
                 /\ cache'[img(r)] = buf[r]
              \/ At(r, "open_cache") /\ To(r, "touch", buf[r]) /\ cache'[img(r)] = buf[r]
              \/ /\ At(r, "mutate") /\ Quit(r) /\ Writable(r)
                 /\ cache'[img(r)] = cache[img(r)] \cup {frame[r].edit}
              \/ /\ At(r, "mutate") /\ Writable(r)
                 /\ cache'[img(r)] = cache[img(r)] \cup {frame[r].edit}
                 /\ \/ To(r, "flush_build", buf[r])
                    \/ To(r, "touch", buf[r]) /\ frame[r].edit \in SkipIfApplied
              \/ /\ At(r, "flush_swap") /\ To(r, "touch", buf[r])
                 /\ cache'[img(r)] = IF cache[img(r)] # None THEN buf[r] ELSE None
              \/ pc[r] \in {"close_evict", "rest_evict"} /\ Quit(r) /\ cache'[img(r)] = None
  <1> USE DEF tableVars, idVars, fileVars, historyVars, Frozen, At
  <1>0. IInv
    BY DEF SerialInv
  <1>1. /\ Fail(r) \/ Succeed(r) => Quit(r)
        /\ \A l \in Labels : Goto(r, l) => To(r, l, buf[r])
    BY <1>0, Moves
  <1>2. AfterLoad(r) \in Labels /\ "touch" \in Labels /\ "flush_build" \in Labels
    BY DEF Labels, AfterLoad
  <1>3. pc[r] \in ImageLabels
    BY DEF CacheStep, LoadInsert, OpenCache, MutatePartly, Mutate, FlushSwap, CloseEvict,
           RestoreEvict, ImageLabels
  <1>4. Frozen
    <2>1. Succeed(r) /\ pc[r] \in {"close_evict", "rest_evict"} => UNCHANGED acked
      BY SucceedAcks
    <2> QED BY <2>1 DEF CacheStep, LoadInsert, OpenCache, MutatePartly, Mutate, FlushSwap,
                        CloseEvict, RestoreEvict, Fail
  <1>5. cache \in [Images -> {None} \cup Contents] /\ img(r) \in Images
    BY <1>0, <1>3, OnItsImage, TypeParts DEF IInv, CacheType
  <1>6. ASSUME NEW c, cache' = [cache EXCEPT ![img(r)] = c]
        PROVE  OthersSpared(r) /\ cache'[img(r)] = c
    BY <1>3, <1>4, <1>6, CacheSpares
  <1>7. CASE LoadInsert(r) \/ OpenCache(r)
    BY <1>1, <1>2, <1>3, <1>4, <1>6, <1>7 DEF LoadInsert, OpenCache
  <1>8. CASE MutatePartly(r) \/ Mutate(r)
    <2>1. cache' = [cache EXCEPT ![img(r)] = cache[img(r)] \cup {frame[r].edit}]
      BY <1>5, <1>8 DEF MutatePartly, Mutate
    <2>2. /\ OthersSpared(r)
          /\ cache'[img(r)] = cache[img(r)] \cup {frame[r].edit}
      BY <1>6, <2>1
    <2> QED BY <1>1, <1>2, <1>3, <1>4, <1>8, <2>2 DEF MutatePartly, Mutate
  <1>9. CASE FlushSwap(r)
    <2>1. PICK c : c = IF cache[img(r)] # None THEN buf[r] ELSE None
      OBVIOUS
    <2>2. cache' = [cache EXCEPT ![img(r)] = c]
      BY <1>5, <1>9, <2>1 DEF FlushSwap
    <2>3. OthersSpared(r) /\ cache'[img(r)] = c
      BY <1>6, <2>2
    <2> QED BY <1>1, <1>2, <1>3, <1>4, <1>9, <2>1, <2>3 DEF FlushSwap
  <1>10. CASE CloseEvict(r) \/ RestoreEvict(r)
    BY <1>1, <1>3, <1>4, <1>6, <1>10 DEF CloseEvict, RestoreEvict
  <1> QED BY <1>7, <1>8, <1>9, <1>10 DEF CacheStep
(* The steps on the tree keep SerialInv. *)
LEMMA CacheKeepsSerial ==
    ASSUME SerialInv, IInv', NEW r \in Rpcs, CacheStep(r)
    PROVE  SerialInv'
  <1> USE DEF At, To
  <1>1. Frozen /\ OthersSpared(r) /\ pc[r] \in ImageLabels
    BY CacheSteps
  <1>2. PICK i : i = img(r)
    OBVIOUS
  <1>3. /\ i \in Images /\ i \in Opened /\ FrameOK(r) /\ HandlerOK(r)
        /\ imageFile[i] # Torn /\ cache[i] # Torn /\ buf[r] # Torn
    BY <1>1, <1>2, OnItsImage DEF SerialInv, Untorn
  <1>4. fd'[r] = None
    BY <1>1, <1>3, CacheSteps DEF HandlerOK, WriteOK, Frozen
  <1>5. cache'[i] # Torn
    <2>1. pc[r] = "mutate" /\ Writable(r) => cache[i] \cup {frame[r].edit} # Torn
      <3>1. pc[r] = "mutate" => frame[r].edit \in Edits
        BY <1>3, TypedAt DEF FrameOK, SerialInv, Frames
      <3>2. Writable(r) => cache[i] \in SUBSET Edits
        BY <1>1, <1>2, OnItsImage DEF Writable, Contents
      <3>3. pc[r] = "mutate" /\ Writable(r) => cache[i] \cup {frame[r].edit} \in SUBSET Edits
        BY <3>1, <3>2
      <3> QED BY <3>3, StorageAssumption
    <2> QED BY <1>2, <1>3, <2>1, CacheSteps, StorageAssumption
  <1>6. /\ Others(r) /\ (img(r))' \in {None, img(r)} /\ buf'[r] # Torn
        /\ HandlerOK(r)'
    <2>1. CASE Quit(r)
      BY <1>4, <2>1, QuitOK DEF Quit
    <2>2. CASE \/ At(r, "load_insert") /\ To(r, AfterLoad(r), buf[r])
               \/ pc[r] \in {"open_cache", "flush_swap"} /\ To(r, "touch", buf[r])
               \/ At(r, "mutate") /\ (To(r, "flush_build", buf[r]) \/ To(r, "touch", buf[r]))
      <3>1. /\ pc'[r] \in {"mutate", "read", "touch", "flush_build"} /\ frame'[r] = frame[r]
            /\ buf'[r] = buf[r] /\ Others(r)
        BY <2>2 DEF AfterLoad
      <3>2. PathOK(r)'
        BY <1>3, <2>2, <3>1 DEF HandlerOK, PathOK, FrameOK, AfterLoad, At_write
      <3>3. OpenOK(r)'
        BY <1>3, <2>2, <3>1 DEF HandlerOK, PathOK, OpenOK, FrameOK, AfterLoad
      <3>4. WriteOK(r)' /\ SnapshotOK(r)' /\ RestoreOK(r)'
        BY <1>3, <1>4, <2>2, <3>1
           DEF HandlerOK, PathOK, WriteOK, SnapshotOK, RestoreOK, FrameOK, AfterLoad, At_write
      <3> QED BY <1>3, <3>1, <3>2, <3>3, <3>4 DEF HandlerOK, img
    <2> QED BY <2>1, <2>2, CacheSteps
  <1>7. Alone'
    BY <1>6, AloneKept DEF SerialInv
  <1>8. Unopened(i)' /\ imageFile'[i] # Torn
    BY <1>1, <1>3 DEF Unopened, Frozen, Opened
  <1>9. \A k \in Snapshots : snapshotFile'[k] # Torn
    BY <1>1 DEF SerialInv, Untorn, Frozen
  <1>10. /\ \A j \in Images : j # i => Spared(j)
         /\ \A q \in Rpcs : q # r => SparedFd(q) /\ (img(q) # i \/ i \notin Images)
    BY <1>1, <1>2 DEF OthersSpared
  <1> QED BY <1>5, <1>6, <1>7, <1>8, <1>9, <1>10, StepOn

-----------------------------------------------------------------------------
(* atomic_write and remove_file. *)

(* The open of the tmp file. *)
LEMMA WriteOpenDoes ==
    ASSUME SerialInv, NEW r \in Rpcs, WriteOpen(r)
    PROVE  /\ pc[r] = "w_open" /\ To(r, "w_write", buf[r]) /\ OthersSpared(r)
           /\ UNCHANGED <<sessions, images, snapshots, imageSession, snapshotImage, imageFile,
                          snapshotFile, cache, acked>>
           /\ tmpFile'[img(r)] = Torn /\ fd'[r] = <<img(r), "tmp">>
  <1> USE DEF WriteOpen, open_tmp, tableVars, idVars, historyVars, At
  <1>1. pc[r] \in ImageLabels
    BY DEF ImageLabels
  <1>2. tmpFile \in [Images -> {None} \cup Contents] /\ fd \in [Rpcs -> Fds] /\ img(r) \in Images
    BY <1>1, OnItsImage, TypeParts DEF SerialInv, IInv, FileType
  <1>3. To(r, "w_write", buf[r])
    BY Moves DEF SerialInv, Labels
  <1>4. \A j \in Images : j # img(r) => Spared(j)
    BY <1>2 DEF Spared, Live
  <1>5. \A q \in Rpcs : q # r => SparedFd(q)
    BY <1>2 DEF SparedFd
  <1> QED BY <1>1, <1>2, <1>3, <1>4, <1>5, OnItsImage DEF OthersSpared

(* The write: to the tmp file, or, after a purge, to no file. *)
LEMMA WriteBytesDoes ==
    ASSUME SerialInv, NEW r \in Rpcs, WriteBytes(r)
    PROVE  /\ pc[r] = "w_write" /\ To(r, "w_rename", buf[r]) /\ OthersSpared(r)
           /\ UNCHANGED <<sessions, images, snapshots, imageSession, snapshotImage, imageFile,
                          snapshotFile, cache, acked>>
           /\ fd'[r] = None
           /\ \/ tmpFile'[img(r)] = buf[r]
              \/ tmpFile'[img(r)] = None /\ ~Live(img(r))
  <1> USE DEF WriteBytes, write_fd, tableVars, idVars, historyVars, At
  <1>1. pc[r] \in ImageLabels
    BY DEF ImageLabels
  <1>2. /\ imageFile \in [Images -> {None} \cup Contents]
        /\ tmpFile \in [Images -> {None} \cup Contents] /\ fd \in [Rpcs -> Fds] /\ img(r) \in Images
    BY <1>1, OnItsImage, TypeParts DEF SerialInv, IInv, FileType
  <1>3. To(r, "w_rename", buf[r])
    BY Moves DEF SerialInv, Labels
  <1>4. WriteOK(r)
    BY <1>1, OnItsImage DEF HandlerOK
  <1>5. ASSUME NEW j \in Images
        PROVE  /\ fd[r] # <<j, "image">>
               /\ fd[r] = <<j, "tmp">> => j = img(r)
    BY <1>4, StorageAssumption DEF WriteOK
  <1>6. UNCHANGED imageFile /\ \A j \in Images : j # img(r) => tmpFile'[j] = tmpFile[j]
    BY <1>2, <1>5
  <1>7. \A j \in Images : j # img(r) => Spared(j)
    BY <1>6 DEF Spared, Live
  <1>8. \A q \in Rpcs : q # r => SparedFd(q)
    BY <1>2 DEF SparedFd
  <1>9. \/ tmpFile'[img(r)] = buf[r]
        \/ tmpFile'[img(r)] = None /\ ~Live(img(r))
    BY <1>2, <1>4 DEF WriteOK
  <1> QED BY <1>1, <1>2, <1>3, <1>6, <1>7, <1>8, <1>9, OnItsImage DEF OthersSpared
AfterWrite(r) == CASE frame[r].op = "image_open" -> "open_row"
                   [] frame[r].op = "mutate"     -> "flush_swap"
                   [] OTHER                      -> "rest_evict"

(* No other handler has a descriptor that a rename or a removal here changes. *)
LEMMA OtherDescriptors ==
    ASSUME SerialInv, NEW r \in Rpcs, pc[r] \in ImageLabels, NEW q \in Rpcs,
           q # r \/ pc[r] # "w_write"
    PROVE  fd[q] # <<img(r), "tmp">> /\ fd[q] # <<img(r), "image">>
  <1>1. img(r) \in Images /\ (q # r => img(q) # img(r))
    BY OnItsImage
  <1>2. <<img(r), "tmp">> # None /\ <<img(r), "image">> # None
    BY <1>1, StorageAssumption
  <1> QED BY <1>1, <1>2, Descriptors

(* The rename: the file is what the handler wrote. *)
LEMMA WriteRenameDoes ==
    ASSUME SerialInv, NEW r \in Rpcs, WriteRename(r)
    PROVE  /\ pc[r] = "w_rename" /\ To(r, AfterWrite(r), buf[r]) /\ OthersSpared(r)
           /\ UNCHANGED <<sessions, images, snapshots, imageSession, snapshotImage,
                          snapshotFile, cache, fd>>
           /\ imageFile'[img(r)] = buf[r] /\ tmpFile'[img(r)] = None /\ tmpFile[img(r)] = buf[r]
           /\ acked'[img(r)] = IF frame[r].op = "snapshot_restore" THEN buf[r] ELSE acked[img(r)]
           /\ imageFile' = [imageFile EXCEPT ![img(r)] = buf[r]]
  <1> USE DEF rename_tmp, tableVars, idVars, At
  <1>1. pc[r] = "w_rename" /\ pc[r] \in ImageLabels
    BY DEF WriteRename, ImageLabels
  <1>2. /\ imageFile \in [Images -> {None} \cup Contents]
        /\ tmpFile \in [Images -> {None} \cup Contents] /\ fd \in [Rpcs -> Fds] /\ img(r) \in Images
        /\ acked \in [Images -> SUBSET Edits]
    BY <1>1, OnItsImage, TypeParts DEF SerialInv, IInv, FileType, HistoryType
  <1>3. AfterWrite(r) \in Labels
    BY DEF AfterWrite, Labels
  <1>4. To(r, AfterWrite(r), buf[r])
    <2>1. Goto(r, AfterWrite(r))
      BY DEF WriteRename, AfterWrite
    <2> QED BY <1>3, <2>1, Moves DEF SerialInv
  <1>5. tmpFile[img(r)] = buf[r] /\ buf[r] # Torn
    BY <1>1, OnItsImage DEF HandlerOK, WriteOK, WriteRename, SerialInv, Untorn
  <1>6. UNCHANGED fd
    <2>1. \A q \in Rpcs : fd[q] # <<img(r), "tmp">> /\ fd[q] # <<img(r), "image">>
      BY <1>1, OtherDescriptors
    <2>2. fd' = [q \in Rpcs |-> fd[q]]
      BY <2>1 DEF WriteRename
    <2> QED BY <1>2, <2>2
  <1>7. \A j \in Images : j # img(r) => acked'[j] = acked[j]
    BY <1>2 DEF WriteRename
  <1>8. \A j \in Images : j # img(r) => Spared(j)
    BY <1>2, <1>7 DEF Spared, Live, WriteRename
  <1>9. \A q \in Rpcs : q # r => SparedFd(q)
    BY <1>6 DEF SparedFd
  <1>10. acked'[img(r)] = IF frame[r].op = "snapshot_restore" THEN buf[r] ELSE acked[img(r)]
    BY <1>2, <1>5 DEF WriteRename
  <1>11. UNCHANGED <<sessions, images, snapshots, imageSession, snapshotImage, snapshotFile, cache>>
    BY DEF WriteRename
  <1>12. /\ imageFile'[img(r)] = buf[r] /\ tmpFile'[img(r)] = None
         /\ imageFile' = [imageFile EXCEPT ![img(r)] = buf[r]]
    BY <1>2, <1>5 DEF WriteRename
  <1> QED BY <1>1, <1>4, <1>5, <1>6, <1>8, <1>9, <1>10, <1>11, <1>12, OnItsImage
          DEF OthersSpared

(* image_close removes the file of its image. *)
LEMMA CloseFileDoes ==
    ASSUME SerialInv, NEW r \in Rpcs, CloseFile(r)
    PROVE  /\ pc[r] = "close_file" /\ To(r, "close_evict", buf[r]) /\ OthersSpared(r)
           /\ UNCHANGED <<sessions, images, snapshots, imageSession, snapshotImage,
                          tmpFile, snapshotFile, cache, acked, fd>>
           /\ imageFile'[img(r)] = None
  <1> USE DEF CloseFile, remove_image_file, tableVars, idVars, historyVars, At
  <1>1. pc[r] \in ImageLabels
    BY DEF ImageLabels
  <1>2. imageFile \in [Images -> {None} \cup Contents] /\ fd \in [Rpcs -> Fds] /\ img(r) \in Images
    BY <1>1, OnItsImage, TypeParts DEF SerialInv, IInv, FileType
  <1>3. To(r, "close_evict", buf[r])
    BY Moves DEF SerialInv, Labels
  <1>4. UNCHANGED fd
    <2>1. \A q \in Rpcs : fd[q] # <<img(r), "image">>
      BY <1>1, OtherDescriptors
    <2>2. fd' = [q \in Rpcs |-> fd[q]]
      BY <2>1
    <2> QED BY <1>2, <2>2
  <1>5. \A j \in Images : j # img(r) => Spared(j)
    BY <1>2 DEF Spared, Live
  <1>6. \A q \in Rpcs : q # r => SparedFd(q)
    BY <1>4 DEF SparedFd
  <1> QED BY <1>1, <1>2, <1>3, <1>4, <1>5, <1>6, OnItsImage DEF OthersSpared

FileStep(r) == WriteOpen(r) \/ WriteBytes(r) \/ WriteRename(r) \/ CloseFile(r)

(* The steps on the files keep SerialInv: the file is never a truncated one. *)
LEMMA FileKeepsSerial ==
    ASSUME SerialInv, IInv', NEW r \in Rpcs, FileStep(r)
    PROVE  SerialInv'
  <1> USE DEF To
  <1>1. /\ pc[r] \in {"w_open", "w_write", "w_rename", "close_file"} /\ Others(r)
        /\ frame'[r] = frame[r] /\ buf'[r] = buf[r] /\ OthersSpared(r)
        /\ UNCHANGED <<sessions, images, snapshots, imageSession, snapshotImage, snapshotFile, cache>>
    BY WriteOpenDoes, WriteBytesDoes, WriteRenameDoes, CloseFileDoes DEF FileStep
  <1>2. PICK i : i = img(r)
    OBVIOUS
  <1>3. /\ i \in Images /\ i \in Opened /\ FrameOK(r) /\ HandlerOK(r)
        /\ imageFile[i] # Torn /\ cache[i] # Torn /\ buf[r] # Torn
    BY <1>1, <1>2, OnItsImage DEF SerialInv, Untorn, ImageLabels
  <1>4. imageFile'[i] # Torn /\ cache'[i] # Torn
    BY <1>1, <1>2, <1>3, StorageAssumption,
       WriteOpenDoes, WriteBytesDoes, WriteRenameDoes, CloseFileDoes DEF FileStep
  <1>5. (img(r))' = img(r)
    BY <1>1 DEF img
  <1>6. HandlerOK(r)'
    <2>1. CASE WriteOpen(r)
      <3>1. /\ pc[r] = "w_open" /\ pc'[r] = "w_write" /\ fd'[r] = <<img(r), "tmp">>
            /\ UNCHANGED <<imageFile, acked>>
        BY <2>1, WriteOpenDoes
      <3> QED BY <1>1, <1>3, <1>5, <3>1
              DEF HandlerOK, PathOK, WriteOK, RestoreOK, OpenOK, SnapshotOK, At_write, Live
    <2>2. CASE WriteBytes(r)
      <3>1. /\ pc[r] = "w_write" /\ pc'[r] = "w_rename" /\ fd'[r] = None
            /\ UNCHANGED <<imageFile, acked>>
            /\ tmpFile'[img(r)] = buf[r] \/ (tmpFile'[img(r)] = None /\ ~Live(img(r)))
        BY <2>2, WriteBytesDoes
      <3> QED BY <1>1, <1>3, <1>5, <3>1
              DEF HandlerOK, PathOK, WriteOK, RestoreOK, OpenOK, SnapshotOK, At_write, Live
    <2>3. CASE WriteRename(r)
      <3>1. /\ pc[r] = "w_rename" /\ pc'[r] = AfterWrite(r) /\ fd' = fd
            /\ imageFile'[img(r)] = buf[r]
            /\ acked'[img(r)] = IF frame[r].op = "snapshot_restore"
                                THEN buf[r] ELSE acked[img(r)]
        BY <2>3, WriteRenameDoes
      <3>2. PathOK(r)' /\ WriteOK(r)' /\ SnapshotOK(r)'
        BY <1>1, <1>3, <1>5, <3>1
           DEF HandlerOK, PathOK, WriteOK, SnapshotOK, At_write, AfterWrite
      <3>3. OpenOK(r)'
        BY <1>1, <1>3, <1>5, <3>1 DEF HandlerOK, PathOK, OpenOK, At_write, AfterWrite, Live
      <3>4. RestoreOK(r)'
        BY <1>1, <1>3, <1>5, <3>1 DEF HandlerOK, PathOK, RestoreOK, At_write, AfterWrite, Live
      <3> QED BY <3>2, <3>3, <3>4 DEF HandlerOK
    <2>4. CASE CloseFile(r)
      <3>1. pc[r] = "close_file" /\ pc'[r] = "close_evict" /\ fd' = fd
        BY <2>4, CloseFileDoes
      <3> QED BY <1>1, <1>3, <3>1
              DEF HandlerOK, PathOK, WriteOK, RestoreOK, OpenOK, SnapshotOK, At_write
    <2> QED BY <2>1, <2>2, <2>3, <2>4 DEF FileStep
  <1>7. Alone'
    BY <1>1, <1>5, AloneKept DEF SerialInv
  <1>8. Unopened(i)' /\ \A k \in Snapshots : snapshotFile'[k] # Torn
    BY <1>1, <1>3 DEF Unopened, Opened, SerialInv, Untorn
  <1>9. /\ \A j \in Images : j # i => Spared(j)
        /\ \A q \in Rpcs : q # r => SparedFd(q) /\ (img(q) # i \/ i \notin Images)
    BY <1>1, <1>2 DEF OthersSpared
  <1> QED BY <1>1, <1>3, <1>4, <1>6, <1>7, <1>8, <1>9, StepOn
-----------------------------------------------------------------------------
(* Rows, ids and requests. *)

(* A failing system call and a dropped call end a handler and change nothing. *)
LEMMA FaultSteps ==
    ASSUME SerialInv, NEW r \in Rpcs, IoError(r) \/ Cancel(r)
    PROVE  /\ Silent /\ Quit(r)
           /\ \/ fd' = fd /\ pc[r] # "w_write"
              \/ fd' = [fd EXCEPT ![r] = None]
           /\ Cancel(r) \/ pc[r] # "rest_evict"
  BY Moves DEF SerialInv, IoError, Cancel, Fail, Silent, tableVars, idVars, fileVars, historyVars

(* The last step of most calls: an edit is answered with Ok. *)
LEMMA TouchDoes ==
    ASSUME SerialInv, NEW r \in Rpcs, Touch(r)
    PROVE  /\ pc[r] = "touch" /\ Quit(r) /\ OthersSpared(r)
           /\ UNCHANGED <<sessions, images, snapshots, imageSession, snapshotImage,
                          imageFile, tmpFile, snapshotFile, cache, fd>>
           /\ acked'[img(r)] = IF frame[r].op = "mutate"
                               THEN acked[img(r)] \cup {frame[r].edit} ELSE acked[img(r)]
  <1> USE DEF Touch, touch_session, tableVars, idVars, fileVars, At
  <1>1. pc[r] = "touch" /\ pc[r] \in ImageLabels
    BY DEF ImageLabels
  <1>2. acked \in [Images -> SUBSET Edits] /\ img(r) \in Images
    BY <1>1, OnItsImage, TypeParts DEF SerialInv, IInv, HistoryType
  <1>3. Quit(r)
    BY Moves DEF SerialInv
  <1>4. \A j \in Images : j # img(r) => acked'[j] = acked[j]
    BY <1>2 DEF Succeed
  <1>5. \A j \in Images : j # img(r) => Spared(j)
    BY <1>4 DEF Spared, Live
  <1>6. \A q \in Rpcs : SparedFd(q)
    BY DEF SparedFd
  <1>7. acked'[img(r)] = IF frame[r].op = "mutate"
                         THEN acked[img(r)] \cup {frame[r].edit} ELSE acked[img(r)]
    BY <1>2 DEF Succeed
  <1> QED BY <1>1, <1>3, <1>5, <1>6, <1>7, OnItsImage DEF OthersSpared

(* A handler that returns, and leaves its image in order, keeps SerialInv. *)
LEMMA QuitsOn ==
    ASSUME SerialInv, IInv', NEW r \in Rpcs, pc[r] \in ImageLabels, Quit(r), OthersSpared(r),
           fd'[r] = None, UNCHANGED <<imageSession, imageFile, cache, snapshotFile>>
    PROVE  SerialInv'
  <1>1. PICK i : i = img(r)
    OBVIOUS
  <1>2. i \in Images /\ i \in Opened /\ imageFile[i] # Torn /\ cache[i] # Torn
    BY <1>1, OnItsImage DEF SerialInv, Untorn
  <1>3. HandlerOK(r)' /\ buf'[r] # Torn /\ (img(r))' = None /\ Others(r)
    BY QuitOK DEF Quit
  <1>4. Alone'
    BY <1>3, AloneKept DEF SerialInv
  <1>5. /\ Unopened(i)' /\ imageFile'[i] # Torn /\ cache'[i] # Torn
        /\ \A k \in Snapshots : snapshotFile'[k] # Torn
    BY <1>2 DEF Unopened, Opened, SerialInv, Untorn
  <1>6. /\ \A j \in Images : j # i => Spared(j)
        /\ \A q \in Rpcs : q # r => SparedFd(q) /\ (img(q) # i \/ i \notin Images)
    BY <1>1 DEF OthersSpared
  <1> QED BY <1>3, <1>4, <1>5, <1>6, StepOn

(* Touch keeps SerialInv. *)
LEMMA TouchKeepsSerial ==
    ASSUME SerialInv, IInv', NEW r \in Rpcs, Touch(r)
    PROVE  SerialInv'
  <1>1. fd'[r] = None
    BY TouchDoes DEF SerialInv, HandlerOK, WriteOK
  <1> QED BY <1>1, TouchDoes, QuitsOn DEF ImageLabels

(* A client calls, on an image that nobody is called on. *)
LEMMA CallDoes ==
    ASSUME SerialInv, ~Overlap, NEW r \in Rpcs, Call(r)
    PROVE  /\ pc[r] = "idle" /\ Silent /\ fd' = fd /\ Others(r) /\ UNCHANGED buf
           /\ \E f : /\ WellFormed(f) /\ frame'[r] = f /\ pc'[r] = Entry(f)
                     /\ f.op \in Calls
                     /\ f.image = None \/ \A q \in Rpcs : img(q) # f.image
  <1>1. HandlerType /\ IdType
    BY TypeParts DEF SerialInv, IInv
  <1>2. PICK f : WellFormed(f) /\ Start(r, f)
    BY <1>1, CallIsWellFormed
  <1>3. Others(r) /\ frame'[r] = f /\ pc'[r] = Entry(f) /\ UNCHANGED buf
    BY <1>1, <1>2 DEF Start, HandlerType, Others
  <1>4. f.op \in Calls /\ (f.image = None \/ \A q \in Rpcs : img(q) # f.image)
    BY <1>2 DEF Start
  <1>5. Silent /\ fd' = fd /\ pc[r] = "idle"
    BY DEF Call, Silent, tableVars, idVars, fileVars, historyVars, At
  <1> QED BY <1>2, <1>3, <1>4, <1>5

(* A new call keeps SerialInv. *)
LEMMA CallKeepsSerial ==
    ASSUME SerialInv, IInv', ~Overlap, NEW r \in Rpcs, Call(r)
    PROVE  SerialInv'
  <1>1. pc[r] = "idle" /\ Silent /\ fd' = fd /\ Others(r) /\ UNCHANGED buf
    BY CallDoes
  <1>2. PICK f : /\ WellFormed(f) /\ frame'[r] = f /\ pc'[r] = Entry(f)
                 /\ f.image = None \/ \A q \in Rpcs : img(q) # f.image
    BY CallDoes
  <1>3. (img(r))' = f.image
    BY <1>2 DEF img
  <1>4. Alone'
    <2>1. \A q \in Rpcs : q # r => (img(q))' = img(q)
      BY <1>1 DEF Others, img
    <2> QED BY <1>2, <1>3, <2>1 DEF SerialInv, Alone
  <1>5. fd'[r] = None /\ buf'[r] # Torn
    BY <1>1 DEF SerialInv, Untorn, HandlerOK, WriteOK
  <1>6. /\ f.op = "mutate" => Entry(f) \in {"src_row", "load_check"}
        /\ f.op = "snapshot_restore" => Entry(f) = "rest_snap" /\ f.snapshot \in Snapshots
        /\ f.op = "image_open" => Entry(f) = "open_check"
        /\ Entry(f) = "open_check" => f.op = "image_open"
        /\ Entry(f) \notin {"w_open", "w_write", "w_rename", "open_row", "open_cache", "flush_swap",
                            "rest_evict", "snap_store", "snap_insert"}
    BY <1>2 DEF Entry, WellFormed, Frames
  <1>7. HandlerOK(r)'
    BY <1>2, <1>5, <1>6
       DEF HandlerOK, PathOK, WriteOK, RestoreOK, OpenOK, SnapshotOK, At_write
  <1>8. PICK i : i = None
    OBVIOUS
  <1>9. i \notin Images
    BY <1>8, StorageAssumption
  <1>10. /\ \A q \in Rpcs : q # r => SparedFd(q) /\ (img(q) # i \/ i \notin Images)
         /\ \A k \in Snapshots : snapshotFile'[k] # Torn
    BY <1>1, <1>9 DEF SparedFd, Silent, SerialInv, Untorn
  <1> QED BY <1>1, <1>4, <1>5, <1>7, <1>9, <1>10, SilentSpares, StepOn
(* open_from_bytes: no such session, or a fresh image. *)
LEMMA OpenCheckDoes ==
    ASSUME SerialInv, NEW r \in Rpcs, OpenCheck(r)
    PROVE  /\ pc[r] = "open_check" /\ fd' = fd
           /\ \/ Silent /\ Quit(r)
              \/ \E i \in Images \ Opened :
                   /\ Others(r) /\ pc'[r] = "w_open" /\ buf'[r] = {}
                   /\ frame'[r] = [frame[r] EXCEPT !.image = i]
                   /\ frame[r].session \in sessions
                   /\ imageSession' = [imageSession EXCEPT ![i] = frame[r].session]
                   /\ UNCHANGED <<sessions, images, snapshots, snapshotImage, imageFile, tmpFile,
                                  snapshotFile, cache, acked>>
  <1> USE DEF OpenCheck, tableVars, idVars, fileVars, historyVars, At
  <1>1. CASE Fail(r) /\ UNCHANGED idVars
    BY <1>1, Moves DEF SerialInv, Silent, Fail
  <1>2. HandlerType
    BY TypeParts DEF SerialInv, IInv
  <1>3. ASSUME NEW i \in Images \ Opened, frame' = [frame EXCEPT ![r].image = i],
               pc' = [pc EXCEPT ![r] = "w_open"], buf' = [buf EXCEPT ![r] = {}]
        PROVE  /\ Others(r) /\ pc'[r] = "w_open" /\ buf'[r] = {}
               /\ frame'[r] = [frame[r] EXCEPT !.image = i]
    BY <1>2, <1>3 DEF HandlerType, Others
  <1> QED BY <1>1, <1>3

(* It keeps SerialInv. *)
LEMMA OpenCheckKeepsSerial ==
    ASSUME SerialInv, IInv', NEW r \in Rpcs, OpenCheck(r)
    PROVE  SerialInv'
  <1>1. pc[r] = "open_check" /\ fd' = fd
    BY OpenCheckDoes
  <1>2. CASE Silent /\ Quit(r)
    BY <1>1, <1>2, SilentQuits
  <1>3. ASSUME NEW i \in Images \ Opened, Others(r), pc'[r] = "w_open", buf'[r] = {},
               frame'[r] = [frame[r] EXCEPT !.image = i], frame[r].session \in sessions,
               imageSession' = [imageSession EXCEPT ![i] = frame[r].session],
               UNCHANGED <<sessions, images, snapshots, snapshotImage, imageFile, tmpFile,
                           snapshotFile, cache, acked>>
        PROVE  SerialInv'
    <2>1. imageSession \in [Images -> Sessions \cup {None}] /\ sessions \subseteq Sessions
      BY TypeParts DEF SerialInv, IInv, IdType, TableType
    <2>2. frame'[r].op = frame[r].op /\ frame'[r].image = i /\ (img(r))' = i
      BY <1>3, TypedAt DEF SerialInv, Frames, img
    <2>3. \A q \in Rpcs : img(q) # i
      BY <1>3, TypedAt, StorageAssumption DEF SerialInv, FrameOK
    <2>4. Alone'
      <3>1. \A q \in Rpcs : q # r => (img(q))' = img(q)
        BY <1>3 DEF Others, img
      <3> QED BY <2>2, <2>3, <3>1 DEF SerialInv, Alone
    <2>5. \A j \in Images : j # i => Spared(j)
      BY <1>3, <2>1 DEF Spared, Live
    <2>6. frame[r].op = "image_open" /\ fd'[r] = None
      BY <1>1 DEF SerialInv, HandlerOK, PathOK, WriteOK
    <2>7. acked[i] = {} /\ cache[i] = None /\ imageFile[i] = None
      BY <1>3 DEF SerialInv, Unopened
    <2>8. HandlerOK(r)'
      BY <1>3, <2>2, <2>6, <2>7
         DEF HandlerOK, PathOK, WriteOK, RestoreOK, OpenOK, SnapshotOK, At_write
    <2>9. {} # Torn
      BY StorageAssumption
    <2>10. /\ Unopened(i)' /\ imageFile'[i] # Torn /\ cache'[i] # Torn
           /\ \A k \in Snapshots : snapshotFile'[k] # Torn
      BY <1>3, <2>1, <2>7, StorageAssumption DEF Unopened, Opened, SerialInv, Untorn
    <2>11. \A q \in Rpcs : q # r => SparedFd(q) /\ (img(q) # i \/ i \notin Images)
      BY <1>1, <2>3 DEF SparedFd
    <2> QED BY <1>3, <2>4, <2>5, <2>8, <2>9, <2>10, <2>11, StepOn
  <1> QED BY <1>2, <1>3, OpenCheckDoes

(* The INSERT of the image row: no such session, or the image has its row. *)
LEMMA OpenRowDoes ==
    ASSUME SerialInv, NEW r \in Rpcs, OpenRow(r)
    PROVE  /\ pc[r] = "open_row" /\ fd' = fd
           /\ \/ Silent /\ Quit(r)
              \/ /\ To(r, "open_cache", buf[r]) /\ OthersSpared(r)
                 /\ Live(img(r)) /\ images' = images \cup {img(r)}
                 /\ UNCHANGED <<sessions, snapshots, imageSession, snapshotImage, imageFile,
                                tmpFile, snapshotFile, cache, acked>>
  <1> USE DEF OpenRow, insert_image, tableVars, idVars, fileVars, historyVars, At
  <1>1. CASE Fail(r) /\ UNCHANGED tableVars
    BY <1>1, Moves DEF SerialInv, Silent, Fail
  <1>2. CASE insert_image(img(r)) /\ Goto(r, "open_cache") /\ UNCHANGED historyVars
    <2>1. To(r, "open_cache", buf[r])
      BY <1>2, Moves DEF SerialInv, Labels
    <2>2. pc[r] \in ImageLabels
      BY DEF ImageLabels
    <2>3. OthersSpared(r)
      BY <1>2, <2>2, OnItsImage DEF OthersSpared, Spared, SparedFd, Live
    <2> QED BY <1>2, <2>1, <2>3 DEF Live
  <1> QED BY <1>1, <1>2

(* The DELETE of the image row takes its snapshots with it. *)
LEMMA CloseDeleteDoes ==
    ASSUME SerialInv, NEW r \in Rpcs, CloseDelete(r)
    PROVE  /\ pc[r] = "close_delete" /\ fd' = fd
           /\ To(r, "close_file", buf[r]) /\ OthersSpared(r)
           /\ images' = images \ {img(r)}
           /\ snapshots' = {k \in snapshots : snapshotImage[k] # img(r)}
           /\ UNCHANGED <<sessions, imageSession, snapshotImage, imageFile,
                          tmpFile, snapshotFile, cache, acked>>
  <1> USE DEF CloseDelete, delete_image, tableVars, idVars, fileVars, historyVars, At
  <1>1. To(r, "close_file", buf[r])
    BY Moves DEF SerialInv, Labels
  <1>2. pc[r] \in ImageLabels
    BY DEF ImageLabels
  <1>3. \A j \in Images : j # img(r) => Spared(j)
    BY DEF Spared, Live
  <1>4. OthersSpared(r)
    BY <1>2, <1>3, OnItsImage DEF OthersSpared, SparedFd
  <1> QED BY <1>1, <1>4

(* Both keep SerialInv. *)
LEMMA RowKeepsSerial ==
    ASSUME SerialInv, IInv', NEW r \in Rpcs, OpenRow(r) \/ CloseDelete(r)
    PROVE  SerialInv'
  <1>1. CASE Silent /\ Quit(r) /\ fd' = fd /\ pc[r] = "open_row"
    BY <1>1, SilentQuits
  <1>2. CASE \/ pc[r] = "open_row" /\ To(r, "open_cache", buf[r]) /\ Live(img(r))
             \/ pc[r] = "close_delete" /\ To(r, "close_file", buf[r])
    <2>1. /\ OthersSpared(r) /\ fd' = fd
          /\ UNCHANGED <<sessions, imageSession, snapshotImage, imageFile, tmpFile,
                         snapshotFile, cache, acked>>
          /\ snapshots' \subseteq snapshots
      <3>1. pc'[r] # "idle"
        BY <1>2 DEF To
      <3> QED BY <3>1, OpenRowDoes, CloseDeleteDoes DEF Quit
    <2>2. PICK i : i = img(r)
      OBVIOUS
    <2>3. /\ i \in Images /\ i \in Opened /\ FrameOK(r) /\ HandlerOK(r)
          /\ imageFile[i] # Torn /\ cache[i] # Torn /\ buf[r] # Torn
      BY <1>2, <2>2, OnItsImage DEF SerialInv, Untorn, ImageLabels
    <2>4. HandlerOK(r)'
      <3>1. (img(r))' = img(r)
        BY <1>2 DEF To, img
      <3>2. PathOK(r)' /\ WriteOK(r)' /\ RestoreOK(r)' /\ SnapshotOK(r)'
        BY <1>2, <2>1, <2>3
           DEF To, HandlerOK, PathOK, WriteOK, RestoreOK, SnapshotOK, FrameOK, At_write
      <3>3. OpenOK(r)'
        BY <1>2, <2>1, <2>3, <3>1 DEF To, HandlerOK, PathOK, OpenOK, FrameOK
      <3> QED BY <3>2, <3>3 DEF HandlerOK
    <2>5. Alone'
      BY <1>2, AloneKept DEF SerialInv, To, img
    <2>6. /\ Unopened(i)' /\ imageFile'[i] # Torn /\ cache'[i] # Torn
          /\ \A k \in Snapshots : snapshotFile'[k] # Torn
      BY <2>1, <2>3 DEF Unopened, Opened, SerialInv, Untorn
    <2>7. /\ \A j \in Images : j # i => Spared(j)
          /\ \A q \in Rpcs : q # r => SparedFd(q) /\ (img(q) # i \/ i \notin Images)
      BY <2>1, <2>2 DEF OthersSpared
    <2>8. Others(r) /\ buf'[r] # Torn
      BY <1>2, <2>3 DEF To
    <2> QED BY <2>4, <2>5, <2>6, <2>7, <2>8, StepOn
  <1> QED BY <1>1, <1>2, OpenRowDoes, CloseDeleteDoes
(* A snapshot is stored under a fresh id; no file or row of an image changes. *)
LEMMA SnapshotStoreDoes ==
    ASSUME SerialInv, NEW r \in Rpcs, SnapshotStore(r)
    PROVE  /\ pc[r] = "snap_store" /\ fd' = fd /\ (\A j \in Images : Spared(j))
           /\ Others(r) /\ pc'[r] = "snap_insert" /\ buf'[r] = buf[r]
           /\ \E k \in Snapshots \ Taken :
                /\ frame'[r] = [frame[r] EXCEPT !.snapshot = k]
                /\ snapshotImage' = [snapshotImage EXCEPT ![k] = img(r)]
                /\ snapshotFile' = [snapshotFile EXCEPT ![k] = buf[r]]
           /\ UNCHANGED <<sessions, images, snapshots, imageSession, imageFile, tmpFile,
                          cache, acked>>
  <1> USE DEF SnapshotStore, store_snapshot_file, tableVars, historyVars, At
  <1>1. HandlerType /\ snapshotImage \in [Snapshots -> Images \cup {None}]
        /\ snapshotFile \in [Snapshots -> {None} \cup Contents]
    BY TypeParts DEF SerialInv, IInv, IdType, FileType
  <1>2. PICK k \in Snapshots \ Taken :
          /\ frame' = [frame EXCEPT ![r].snapshot = k]
          /\ snapshotImage' = [snapshotImage EXCEPT ![k] = img(r)]
          /\ snapshotFile' = [snapshotFile EXCEPT ![k] = buf[r]]
    OBVIOUS
  <1>3. /\ Others(r) /\ pc'[r] = "snap_insert" /\ buf'[r] = buf[r]
        /\ frame'[r] = [frame[r] EXCEPT !.snapshot = k]
    BY <1>1, <1>2 DEF HandlerType, Others
  <1>4. \A h \in Snapshots : h \in Taken =>
          snapshotImage'[h] = snapshotImage[h] /\ snapshotFile'[h] = snapshotFile[h]
    BY <1>1, <1>2
  <1>5. \A j \in Images : Spared(j)
    BY <1>4, StorageAssumption DEF Spared, Live, Taken
  <1> QED BY <1>2, <1>3, <1>5

(* An artifact is stored under a fresh id. *)
LEMMA ArtifactStoreDoes ==
    ASSUME SerialInv, NEW r \in Rpcs, ArtifactStore(r)
    PROVE  /\ pc[r] = "art_store" /\ fd' = fd /\ Silent
           /\ Others(r) /\ pc'[r] = "art_insert" /\ buf'[r] = buf[r]
           /\ \E a \in Artifacts : frame'[r] = [frame[r] EXCEPT !.artifact = a]
  <1> USE DEF ArtifactStore, store_artifact_file, tableVars, historyVars, At
  <1>1. HandlerType
    BY TypeParts DEF SerialInv, IInv
  <1>2. PICK a \in Artifacts : frame' = [frame EXCEPT ![r].artifact = a]
    OBVIOUS
  <1>3. /\ Others(r) /\ pc'[r] = "art_insert" /\ buf'[r] = buf[r]
        /\ frame'[r] = [frame[r] EXCEPT !.artifact = a]
    BY <1>1, <1>2 DEF HandlerType, Others
  <1> QED BY <1>2, <1>3 DEF Silent

(* The INSERT of the snapshot row: no such image, or the snapshot has its row. *)
LEMMA SnapshotInsertDoes ==
    ASSUME SerialInv, NEW r \in Rpcs, SnapshotInsert(r)
    PROVE  /\ pc[r] = "snap_insert" /\ fd' = fd /\ (\A j \in Images : Spared(j))
           /\ \/ Silent /\ Quit(r)
              \/ /\ To(r, "touch", buf[r]) /\ snapshots' = snapshots \cup {frame[r].snapshot}
                 /\ snapshotImage[frame[r].snapshot] \in images
           /\ UNCHANGED <<sessions, images, imageSession, snapshotImage, imageFile, tmpFile,
                          snapshotFile, cache, acked>>
  <1> USE DEF SnapshotInsert, insert_image_snapshot, tableVars, idVars, fileVars, historyVars, At
  <1>1. CASE Fail(r) /\ UNCHANGED tableVars
    BY <1>1, Moves, SilentSpares DEF SerialInv, Silent, Fail
  <1>2. CASE /\ insert_image_snapshot(frame[r].snapshot) /\ Goto(r, "touch")
             /\ UNCHANGED historyVars
    <2>1. To(r, "touch", buf[r])
      BY <1>2, Moves DEF SerialInv, Labels
    <2>2. \A j \in Images : Spared(j)
      BY <1>2 DEF Spared, Live
    <2> QED BY <1>2, <2>1, <2>2
  <1> QED BY <1>1, <1>2

(* The three keep SerialInv. *)
LEMMA StoreKeepsSerial ==
    ASSUME SerialInv, IInv', NEW r \in Rpcs,
           SnapshotStore(r) \/ SnapshotInsert(r) \/ ArtifactStore(r)
    PROVE  SerialInv'
  <1>1. /\ pc[r] \in {"snap_store", "snap_insert", "art_store"} /\ fd' = fd
        /\ \A j \in Images : Spared(j)
    BY SnapshotStoreDoes, SnapshotInsertDoes, ArtifactStoreDoes, SilentSpares
  <1>2. \A q \in Rpcs : SparedFd(q)
    BY <1>1 DEF SparedFd
  <1>3. FrameOK(r) /\ HandlerOK(r) /\ buf[r] # Torn /\ fd'[r] = None
        /\ \A k \in Snapshots : snapshotFile[k] # Torn
    BY <1>1 DEF SerialInv, IInv, FramesOK, Untorn, HandlerOK, WriteOK
  <1>4. CASE Silent /\ Quit(r)
    BY <1>1, <1>4, SilentQuits
  <1>5. CASE SnapshotStore(r)
    <2>1. PICK k \in Snapshots \ Taken :
            /\ frame'[r] = [frame[r] EXCEPT !.snapshot = k]
            /\ snapshotFile' = [snapshotFile EXCEPT ![k] = buf[r]]
      BY <1>5, SnapshotStoreDoes
    <2>2. /\ pc[r] = "snap_store" /\ Others(r) /\ pc'[r] = "snap_insert" /\ buf'[r] = buf[r]
          /\ UNCHANGED <<sessions, imageSession, imageFile>>
      BY <1>5, SnapshotStoreDoes
    <2>3. /\ frame'[r].op = frame[r].op /\ frame'[r].snapshot = k /\ (img(r))' = img(r)
      BY <2>1, TypedAt DEF SerialInv, Frames, img
    <2>4. snapshotFile \in [Snapshots -> {None} \cup Contents]
      BY TypeParts DEF SerialInv, IInv, FileType
    <2>5. HandlerOK(r)'
      <3>1. PathOK(r)' /\ WriteOK(r)' /\ RestoreOK(r)' /\ OpenOK(r)'
        BY <1>3, <2>2, <2>3
           DEF HandlerOK, PathOK, WriteOK, RestoreOK, OpenOK, At_write
      <3>2. SnapshotOK(r)'
        BY <1>3, <2>1, <2>2, <2>3, <2>4 DEF HandlerOK, SnapshotOK, Live
      <3> QED BY <3>1, <3>2 DEF HandlerOK
    <2>6. \A h \in Snapshots : snapshotFile'[h] # Torn
      BY <1>3, <2>1, <2>4
    <2> QED BY <1>1, <1>2, <1>3, <2>2, <2>3, <2>5, <2>6, SparingStep
  <1>6. CASE pc[r] = "snap_insert" /\ To(r, "touch", buf[r]) /\ UNCHANGED snapshotFile
    <2>1. HandlerOK(r)'
      BY <1>3, <1>6 DEF To, HandlerOK, PathOK, WriteOK, RestoreOK, OpenOK, SnapshotOK, At_write
    <2> QED BY <1>1, <1>2, <1>3, <1>6, <2>1, SparingStep DEF To, img
  <1>7. CASE ArtifactStore(r)
    <2>1. PICK a \in Artifacts : frame'[r] = [frame[r] EXCEPT !.artifact = a]
      BY <1>7, ArtifactStoreDoes
    <2>2. /\ pc[r] = "art_store" /\ Others(r) /\ pc'[r] = "art_insert" /\ buf'[r] = buf[r] /\ Silent
      BY <1>7, ArtifactStoreDoes
    <2>3. /\ frame'[r].op = frame[r].op /\ (img(r))' = img(r)
      BY <2>1, TypedAt DEF SerialInv, Frames, img
    <2>4. HandlerOK(r)'
      BY <1>3, <2>2, <2>3
         DEF HandlerOK, PathOK, WriteOK, RestoreOK, OpenOK, SnapshotOK, At_write
    <2> QED BY <1>1, <1>2, <1>3, <2>2, <2>3, <2>4, SparingStep DEF Silent
  <1> QED BY <1>4, <1>5, <1>6, <1>7, SnapshotInsertDoes
-----------------------------------------------------------------------------
(* Sessions, the GC and crashes. *)

(* The DELETE of a session spares the images of the others. *)
LEMMA DeleteSpares ==
    ASSUME NEW s, delete_session(s), UNCHANGED <<idVars, fileVars, cache, acked>>
    PROVE  (\A j \in Images : Spared(j)) /\ fd' = fd /\ UNCHANGED snapshotFile
  BY DEF delete_session, idVars, fileVars, Spared, Live

(* So does the removal of the directory of a session without a row. *)
LEMMA PurgeSpares ==
    ASSUME SerialInv, NEW s, s \notin sessions, remove_session_dir(s),
           UNCHANGED <<tableVars, idVars, cache, acked>>
    PROVE  /\ \A j \in Images : Spared(j)
           /\ \A q \in Rpcs : SparedFd(q) /\ (fd[q] = None => fd'[q] = None)
           /\ \A k \in Snapshots : snapshotFile'[k] # Torn
  <1> USE DEF remove_session_dir, tableVars, idVars
  <1>1. \A j \in Images : Spared(j)
    BY StorageAssumption DEF Spared, Live
  <1>2. ASSUME NEW q \in Rpcs PROVE SparedFd(q) /\ (fd[q] = None => fd'[q] = None)
    <2>1. CASE fd[q] = None
      BY <2>1 DEF SparedFd
    <2>2. CASE fd[q] # None
      <3>1. fd[q] = <<img(q), "tmp">> /\ img(q) \in Images /\ fd[q][1] = img(q)
        BY <2>2, Descriptors
      <3> QED BY <2>2, <3>1 DEF SparedFd, Live
    <2> QED BY <2>1, <2>2
  <1>3. \A k \in Snapshots : snapshotFile'[k] # Torn
    BY StorageAssumption DEF SerialInv, Untorn
  <1> QED BY <1>1, <1>2, <1>3

SessionOf(r) == create_session(r) \/ destroy_rows(r) \/ destroy_files(r)

(* Creating and destroying sessions spares every image. *)
LEMMA SessionDoes ==
    ASSUME SerialInv, NEW r \in Rpcs, SessionOf(r)
    PROVE  /\ pc[r] \in {"sess_insert", "destroy_rows", "destroy_files"}
           /\ \A j \in Images : Spared(j)
           /\ \A q \in Rpcs : SparedFd(q) /\ (fd[q] = None => fd'[q] = None)
           /\ \A k \in Snapshots : snapshotFile'[k] # Torn
           /\ Quit(r) \/ To(r, "destroy_files", buf[r])
  <1> USE DEF tableVars, idVars, fileVars, historyVars, At
  <1>1. \A k \in Snapshots : snapshotFile[k] # Torn
    BY DEF SerialInv, Untorn
  <1>2. /\ Succeed(r) => Quit(r)
        /\ Goto(r, "destroy_files") => To(r, "destroy_files", buf[r])
    BY Moves DEF SerialInv, Labels
  <1>3. pc[r] \in {"sess_insert", "destroy_rows", "destroy_files"}
    BY DEF SessionOf, create_session, destroy_rows, destroy_files
  <1>4. Succeed(r) => UNCHANGED acked
    BY <1>3, SucceedAcks
  <1>5. CASE create_session(r)
    <2>1. PICK s \in Sessions \ minted : insert_session(s, now)
      BY <1>5 DEF create_session
    <2>2. \A j \in Images : imageSession[j] # s
      BY StorageAssumption DEF SerialInv, IInv, IdsOK
    <2>3. \A j \in Images : Spared(j)
      BY <1>4, <1>5, <2>1, <2>2 DEF create_session, insert_session, Spared, Live
    <2> QED BY <1>1, <1>2, <1>3, <1>5, <2>3 DEF create_session, SparedFd
  <1>6. CASE destroy_rows(r)
    <2>1. UNCHANGED acked
      BY <1>4, <1>6 DEF destroy_rows
    <2>2. (\A j \in Images : Spared(j)) /\ fd' = fd /\ UNCHANGED snapshotFile
      BY <1>6, <2>1, DeleteSpares DEF destroy_rows
    <2> QED BY <1>1, <1>2, <1>3, <1>6, <2>2 DEF destroy_rows, SparedFd
  <1>7. CASE destroy_files(r)
    <2>1. frame[r].session \notin sessions
      BY <1>7 DEF destroy_files, SerialInv, IInv, IdsOK
    <2>2. UNCHANGED acked /\ Quit(r)
      BY <1>2, <1>4, <1>7 DEF destroy_files
    <2> QED BY <1>3, <1>7, <2>1, <2>2, PurgeSpares DEF destroy_files
  <1> QED BY <1>5, <1>6, <1>7 DEF SessionOf

(* They keep SerialInv. *)
LEMMA SessionKeepsSerial ==
    ASSUME SerialInv, IInv', NEW r \in Rpcs, SessionOf(r)
    PROVE  SerialInv'
  <1>1. /\ pc[r] \in {"sess_insert", "destroy_rows", "destroy_files"}
        /\ \A j \in Images : Spared(j)
        /\ \A q \in Rpcs : SparedFd(q) /\ (fd[q] = None => fd'[q] = None)
        /\ \A k \in Snapshots : snapshotFile'[k] # Torn
        /\ Quit(r) \/ To(r, "destroy_files", buf[r])
    BY SessionDoes
  <1>2. HandlerOK(r) /\ buf[r] # Torn
    BY DEF SerialInv, Untorn
  <1>3. fd'[r] = None
    BY <1>1, <1>2 DEF HandlerOK, WriteOK
  <1>4. HandlerOK(r)' /\ buf'[r] # Torn /\ Others(r) /\ (img(r))' \in {None, img(r)}
    <2>1. CASE Quit(r)
      BY <1>3, <2>1, QuitOK DEF Quit
    <2>2. CASE To(r, "destroy_files", buf[r])
      <3>1. HandlerOK(r)'
        BY <1>1, <1>2, <1>3, <2>2
           DEF To, HandlerOK, PathOK, WriteOK, RestoreOK, OpenOK, SnapshotOK, At_write
      <3> QED BY <1>2, <2>2, <3>1 DEF To, img
    <2> QED BY <1>1, <2>1, <2>2
  <1> QED BY <1>1, <1>4, SparingStep

World == GcStep \/ Tick \/ UNCHANGED vars

(* The GC, the clock and stuttering move no handler and spare every image. *)
LEMMA WorldDoes ==
    ASSUME SerialInv, World
    PROVE  /\ UNCHANGED handlerVars
           /\ \A j \in Images : Spared(j)
           /\ \A q \in Rpcs : SparedFd(q)
           /\ \A k \in Snapshots : snapshotFile'[k] # Torn
  <1> USE DEF tableVars, idVars, fileVars, historyVars
  <1>1. \A k \in Snapshots : snapshotFile[k] # Torn
    BY DEF SerialInv, Untorn
  <1>2. CASE GcTick \/ Tick \/ UNCHANGED vars
    <2>1. Silent /\ fd' = fd /\ UNCHANGED handlerVars
      BY <1>2 DEF GcTick, Tick, vars, Silent
    <2> QED BY <1>1, <2>1, SilentSpares DEF Silent, SparedFd
  <1>3. ASSUME NEW s \in Sessions, GcDelete(s)
        PROVE  /\ UNCHANGED handlerVars
               /\ \A j \in Images : Spared(j)
               /\ \A q \in Rpcs : SparedFd(q)
               /\ \A k \in Snapshots : snapshotFile'[k] # Torn
    <2>1. (\A j \in Images : Spared(j)) /\ fd' = fd /\ UNCHANGED snapshotFile
      BY <1>3, DeleteSpares DEF GcDelete
    <2> QED BY <1>1, <1>3, <2>1 DEF GcDelete, SparedFd
  <1>4. CASE GcPurge
    <2>1. gcPurging \notin sessions
      BY <1>4 DEF GcPurge, SerialInv, IInv, IdsOK
    <2>2. PICK s : s = gcPurging
      OBVIOUS
    <2>3. /\ s \notin sessions /\ remove_session_dir(s) /\ UNCHANGED handlerVars
          /\ UNCHANGED <<tableVars, idVars, cache, acked>>
      BY <1>4, <2>1, <2>2 DEF GcPurge
    <2> QED BY <2>3, PurgeSpares
  <1> QED BY <1>2, <1>3, <1>4 DEF World, GcStep

(* They keep SerialInv. *)
LEMMA WorldKeepsSerial ==
    ASSUME SerialInv, IInv', World
    PROVE  SerialInv'
  <1>1. PICK i : i = None
    OBVIOUS
  <1>2. i \notin Images
    BY <1>1, StorageAssumption
  <1>3. ASSUME NEW q \in Rpcs PROVE HandlerOK(q)' /\ buf'[q] # Torn
    <2>1. Still(q)
      BY WorldDoes DEF handlerVars, Still
    <2> QED BY <1>2, <2>1, WorldDoes, StandsByAll
  <1>4. ASSUME NEW j \in Images PROVE Unopened(j)' /\ imageFile'[j] # Torn /\ cache'[j] # Torn
    BY WorldDoes, SparedOK
  <1>5. Alone'
    BY WorldDoes DEF SerialInv, Alone, handlerVars, img
  <1> QED BY <1>3, <1>4, <1>5, WorldDoes DEF SerialInv, Untorn

(* After a crash there is no handler and no tree. *)
LEMMA CrashKeepsSerial ==
    ASSUME SerialInv, IInv', Crash
    PROVE  SerialInv'
  <1>1. ASSUME NEW q \in Rpcs
        PROVE  HandlerOK(q)' /\ buf'[q] # Torn /\ (img(q))' = None
    <2>1. /\ pc'[q] = "idle" /\ frame'[q].op = "none" /\ frame'[q].image = None
          /\ fd'[q] = None /\ buf'[q] = None
      BY DEF Crash, NoFrame
    <2>2. PathOK(q)' /\ WriteOK(q)' /\ RestoreOK(q)' /\ OpenOK(q)' /\ SnapshotOK(q)'
      BY <2>1 DEF PathOK, WriteOK, RestoreOK, OpenOK, SnapshotOK, At_write
    <2> QED BY <2>1, <2>2, StorageAssumption DEF HandlerOK, img
  <1>2. Alone'
    BY <1>1 DEF Alone
  <1>3. ASSUME NEW j \in Images PROVE Unopened(j)' /\ imageFile'[j] # Torn /\ cache'[j] # Torn
    BY StorageAssumption DEF Crash, SerialInv, Untorn, Unopened, Opened, idVars, historyVars
  <1>4. \A k \in Snapshots : snapshotFile'[k] # Torn
    BY DEF Crash, SerialInv, Untorn
  <1> QED BY <1>1, <1>2, <1>3, <1>4 DEF SerialInv, Untorn
-----------------------------------------------------------------------------
(* The engine that has just started on an empty data directory. *)
LEMMA InitSerial == Init => SerialInv
  <1> SUFFICES ASSUME Init PROVE SerialInv
    OBVIOUS
  <1>1. IInv
    BY InitInv
  <1>2. ASSUME NEW r \in Rpcs
        PROVE  HandlerOK(r) /\ buf[r] # Torn /\ img(r) = None
    <2>1. /\ pc[r] = "idle" /\ frame[r].op = "none" /\ frame[r].image = None
          /\ fd[r] = None /\ buf[r] = None
      BY DEF Init, StorageInit, NoFrame
    <2>2. PathOK(r) /\ WriteOK(r) /\ RestoreOK(r) /\ OpenOK(r) /\ SnapshotOK(r)
      BY <2>1 DEF PathOK, WriteOK, RestoreOK, OpenOK, SnapshotOK, At_write
    <2> QED BY <2>1, <2>2, StorageAssumption DEF HandlerOK, img
  <1>3. Alone
    BY <1>2 DEF Alone
  <1>4. ASSUME NEW i \in Images PROVE Unopened(i) /\ imageFile[i] # Torn /\ cache[i] # Torn
    BY StorageAssumption DEF Init, StorageInit, Unopened
  <1>5. \A k \in Snapshots : snapshotFile[k] # Torn
    BY StorageAssumption DEF Init, StorageInit
  <1> QED BY <1>1, <1>2, <1>3, <1>4, <1>5 DEF SerialInv, Untorn

(* The kinds of steps the proofs go through. *)
RowStep(r)   == OpenRow(r) \/ CloseDelete(r)
StoreStep(r) == SnapshotStore(r) \/ SnapshotInsert(r) \/ ArtifactStore(r)

(* Every step is of one of these kinds. *)
LEMMA KindsOfSteps ==
    ASSUME [Next]_vars
    PROVE  \/ \E r \in Rpcs : \/ Call(r) \/ SilentStep(r) \/ CacheStep(r) \/ FileStep(r)
                              \/ Touch(r) \/ SessionOf(r) \/ OpenCheck(r) \/ RowStep(r)
                              \/ StoreStep(r) \/ IoError(r) \/ Cancel(r)
           \/ World \/ Crash
  <1>1. ASSUME NEW r \in Rpcs, HandlerStep(r)
        PROVE  \/ SilentStep(r) \/ CacheStep(r) \/ FileStep(r)
               \/ Touch(r) \/ SessionOf(r) \/ OpenCheck(r) \/ RowStep(r) \/ StoreStep(r)
    BY <1>1 DEF HandlerStep, SessionStep, WriteStep, OpenStep, LoadStep, ReadStep, MutateStep,
       FlushStep, CloseStep, ArtifactStep, SnapshotStep, RestoreStep, SilentStep, CacheStep,
       FileStep, SessionOf, RowStep, StoreStep
  <1> QED BY <1>1 DEF Next, World

(* Every step keeps SerialInv. *)
LEMMA NextKeepsSerial ==
    ASSUME ~Overlap, SerialInv, [Next]_vars
    PROVE  SerialInv'
  <1>1. IInv'
    BY NextKeepsInv DEF SerialInv
  <1>2. ASSUME NEW r \in Rpcs, Call(r) \/ SilentStep(r) \/ CacheStep(r) \/ FileStep(r)
        PROVE  SerialInv'
    BY <1>1, <1>2, CallKeepsSerial, SilentKeepsSerial, CacheKeepsSerial, FileKeepsSerial
  <1>3. ASSUME NEW r \in Rpcs, Touch(r) \/ SessionOf(r) \/ OpenCheck(r) \/ RowStep(r) \/ StoreStep(r)
        PROVE  SerialInv'
    BY <1>1, <1>3, TouchKeepsSerial, SessionKeepsSerial, OpenCheckKeepsSerial, RowKeepsSerial,
       StoreKeepsSerial DEF RowStep, StoreStep
  <1>4. ASSUME NEW r \in Rpcs, IoError(r) \/ Cancel(r)
        PROVE  SerialInv'
    BY <1>1, <1>4, FaultSteps, SilentQuits
  <1>5. CASE World
    BY <1>1, <1>5, WorldKeepsSerial
  <1>6. CASE Crash
    BY <1>1, <1>6, CrashKeepsSerial
  <1> QED BY <1>2, <1>3, <1>4, <1>5, <1>6, KindsOfSteps

(* SerialInv holds in every state, whatever crashes, fails or is cancelled. *)
THEOREM SerialTheorem ==
    ASSUME ~Overlap
    PROVE  Spec => []SerialInv
  <1>1. Init => SerialInv
    BY InitSerial
  <1>2. SerialInv /\ [Next]_vars => SerialInv'
    BY NextKeepsSerial
  <1> QED BY <1>1, <1>2, PTL DEF Spec

(* The stored file of an image is never a truncated one. *)
THEOREM NeverTornTheorem ==
    ASSUME ~Overlap
    PROVE  Spec => []NeverTorn
  <1>1. SerialInv => NeverTorn
    BY TypeParts DEF SerialInv, Untorn, NeverTorn, IInv, TableType
  <1> QED BY <1>1, SerialTheorem, PTL

(* When image_snapshot_restore answers Ok, the stored file is the snapshot and no
   tree from before is left.                                                   *)
THEOREM RestoreIsExactTheorem ==
    ASSUME ~Overlap
    PROVE  Spec => RestoreIsExact
  <1> DEFINE Exact ==
        \A r \in Rpcs : RestoreEvict(r) =>
          /\ img(r) \in images => imageFile[img(r)] = snapshotFile[frame[r].snapshot]
          /\ cache'[img(r)] = None
  <1>1. SerialInv /\ [Next]_vars => [Exact]_vars
    <2> SUFFICES ASSUME SerialInv, NEW r \in Rpcs, RestoreEvict(r)
                 PROVE  /\ img(r) \in images =>
                             imageFile[img(r)] = snapshotFile[frame[r].snapshot]
                        /\ cache'[img(r)] = None
      OBVIOUS
    <2>1. pc[r] = "rest_evict" /\ pc[r] \in ImageLabels
      BY DEF RestoreEvict, At, ImageLabels
    <2>2. HandlerOK(r) /\ img(r) \in Images
      BY <2>1, OnItsImage
    <2>3. img(r) \in images => Live(img(r))
      BY DEF SerialInv, IInv, ForeignKeys, Live
    <2>4. img(r) \in images => imageFile[img(r)] = snapshotFile[frame[r].snapshot]
      BY <2>1, <2>2, <2>3 DEF HandlerOK, PathOK, RestoreOK
    <2>5. cache'[img(r)] = None
      BY <2>2, TypeParts DEF RestoreEvict, SerialInv, IInv, CacheType
    <2> QED BY <2>4, <2>5
  <1> QED BY <1>1, SerialTheorem, PTL DEF Spec, RestoreIsExact

-----------------------------------------------------------------------------
(* Where the edits are that clients were told Ok for: in the stored file, in
   the tree that is served and in the bytes of image_save, if no restore is
   dropped half-way (RestoreCompletes).  AckedInv is inductive on top of
   SerialInv; the lemmas follow the kinds of steps above.                    *)

-----------------------------------------------------------------------------
(* The ones that stand by. *)

(* A handler that does not move, and whose image is spared, still holds bytes
   that have the edits.                                                       *)
LEMMA BystanderHasAcked ==
    ASSUME AckedInv, NEW q \in Rpcs, Still(q), img(q) # None => Spared(img(q))
    PROVE  BytesHaveAcked(q)' /\ Called(q)'
  <1>1. FrameOK(q) /\ BytesHaveAcked(q) /\ Called(q)
    BY DEF AckedInv, SerialInv, IInv, FramesOK
  <1>3. Called(q)'
    BY <1>1 DEF Called, Still
  <1>4. \/ pc[q] \in {"load_insert", "open_cache", "flush_swap", "save", "flush_build"}
        \/ Flushing(q)
        \/ pc[q] = "touch" /\ frame[q].op = "mutate"
        => img(q) # None
    BY <1>1 DEF FrameOK, ImageLabels, Flushing
  <1>5. CASE img(q) = None
    BY <1>3, <1>4, <1>5 DEF BytesHaveAcked, Still, Flushing, At_write, img
  <1>6. CASE img(q) # None
    <2>1. PICK i : i = img(q)
      OBVIOUS
    <2>2. /\ Counted(i)' = Counted(i) /\ cache'[i] = cache[i]
          /\ imageFile'[i] \in {None, imageFile[i]}
      BY <1>6, <2>1 DEF Spared, Counted
    <2> QED BY <1>1, <1>3, <2>1, <2>2 DEF BytesHaveAcked, Still, Counted, Flushing, At_write, img
  <1> QED BY <1>3, <1>5, <1>6

(* A spared image still has the edits, unless a restore of it has just left
   without dropping the tree.                                                 *)
LEMMA SparedHasAcked ==
    ASSUME AckedInv, NEW j \in Images, Spared(j), Evicting(j) => Evicting(j)'
    PROVE  ImageHasAcked(j)'
  <1>1. ImageHasAcked(j)
    BY DEF AckedInv
  <1> QED BY <1>1 DEF ImageHasAcked, Spared, Counted

(* A step of handler r on image i keeps AckedInv, if it leaves both in order and
   spares the rest.                                                           *)
LEMMA AckedStep ==
    ASSUME AckedInv, SerialInv', NEW r \in Rpcs, NEW i, Others(r),
           \A j \in Images : j # i => Spared(j),
           \A q \in Rpcs : q # r => img(q) # i \/ i \notin Images,
           img(r) = i \/ pc[r] # "rest_evict",
           i \in Images => ImageHasAcked(i)',
           BytesHaveAcked(r)', Called(r)'
    PROVE  AckedInv'
  <1>1. ASSUME NEW q \in Rpcs PROVE BytesHaveAcked(q)' /\ Called(q)'
    <2>1. CASE q = r
      BY <2>1
    <2>2. CASE q # r
      <3>1. Still(q)
        BY <2>2 DEF Others, Still
      <3>2. img(q) # None => img(q) \in Images
        BY TypedAt DEF AckedInv, SerialInv
      <3> QED BY <2>2, <3>1, <3>2, BystanderHasAcked
    <2> QED BY <2>1, <2>2
  <1>2. ASSUME NEW j \in Images PROVE ImageHasAcked(j)'
    <2>1. CASE j = i
      BY <2>1
    <2>2. CASE j # i
      <3>1. ASSUME NEW q \in Rpcs, img(q) = j, pc[q] = "rest_evict"
            PROVE  Evicting(j)'
        <4>1. q # r
          BY <2>2, <3>1
        <4>2. (img(q))' = j /\ pc'[q] = "rest_evict"
          BY <3>1, <4>1 DEF Others, img
        <4> QED BY <4>2 DEF Evicting
      <3>2. Evicting(j) => Evicting(j)'
        BY <3>1 DEF Evicting
      <3> QED BY <2>2, <3>2, SparedHasAcked
    <2> QED BY <2>1, <2>2
  <1> QED BY <1>1, <1>2 DEF AckedInv

(* The same, where no image is changed. *)
LEMMA AckedSparing ==
    ASSUME AckedInv, SerialInv', NEW r \in Rpcs, Others(r), \A j \in Images : Spared(j),
           pc[r] # "rest_evict", BytesHaveAcked(r)', Called(r)'
    PROVE  AckedInv'
  <1>1. PICK i : i = None
    OBVIOUS
  <1>2. i \notin Images
    BY <1>1, StorageAssumption
  <1> QED BY <1>2, AckedStep

(* A handler that has returned holds nothing. *)
LEMMA QuitHasAcked ==
    ASSUME NEW r \in Rpcs, Quit(r)
    PROVE  BytesHaveAcked(r)' /\ Called(r)'
  BY DEF Quit, BytesHaveAcked, Called, NoFrame, Flushing, At_write
-----------------------------------------------------------------------------
(* AckedInv, kind of step by kind of step. *)

(* A handler that is not dropping the tree of its image knows that nobody is. *)
LEMMA NotEvicting ==
    ASSUME SerialInv, NEW r \in Rpcs, pc[r] \in ImageLabels, pc[r] # "rest_evict"
    PROVE  ~Evicting(img(r))
  BY OnItsImage DEF Evicting

(* A walk picks up bytes that have the edits. *)
LEMMA WalkHasAcked ==
    ASSUME AckedInv, NEW r \in Rpcs, Silent, Walks(r)
    PROVE  BytesHaveAcked(r)' /\ Called(r)' /\ pc[r] # "rest_evict" /\ Others(r)
  <1> USE DEF At, To
  <1>1. FrameOK(r) /\ PathOK(r) /\ BytesHaveAcked(r) /\ Called(r)
    BY DEF AckedInv, SerialInv, IInv, FramesOK, HandlerOK
  <1>2. /\ Others(r) /\ frame'[r] = frame[r] /\ pc[r] # "rest_evict"
    BY DEF Walks
  <1>3. PICK i : i = img(r)
    OBVIOUS
  <1>4. pc[r] \in ImageLabels => ImageHasAcked(i) /\ ~Evicting(i)
    BY <1>2, <1>3, OnItsImage, NotEvicting DEF AckedInv
  <1>5. UNCHANGED <<imageFile, cache, acked>> /\ (img(r))' = i /\ Counted(i)' = Counted(i)
    BY <1>2, <1>3 DEF Silent, img, Counted
  <1>6. CASE \/ At(r, "load_read") /\ imageFile[i] # None /\ To(r, "load_insert", imageFile[i])
             \/ At(r, "read") /\ cache[i] # None
                /\ \E l \in {"save", "art_store", "touch"} : To(r, l, cache[i])
    <2>1. ImageHasAcked(i) /\ ~Evicting(i)
      BY <1>4, <1>6 DEF ImageLabels
    <2> QED BY <1>1, <1>2, <1>3, <1>5, <1>6, <2>1
            DEF BytesHaveAcked, ImageHasAcked, PathOK, Called, Flushing, At_write
  <1>7. CASE At(r, "flush_build") /\ cache[i] # None /\ To(r, "flush_size", cache[i])
    <2>1. ImageHasAcked(i) /\ ~Evicting(i)
      BY <1>4, <1>7 DEF ImageLabels
    <2> QED BY <1>1, <1>2, <1>3, <1>5, <1>7, <2>1
            DEF BytesHaveAcked, ImageHasAcked, PathOK, Called, Flushing, At_write
  <1>8. CASE \/ At(r, "flush_size") /\ To(r, "flush_validate", buf[r])
             \/ At(r, "flush_validate") /\ To(r, "w_open", buf[r])
    BY <1>1, <1>2, <1>3, <1>5, <1>8 DEF BytesHaveAcked, Called, Flushing, At_write
  <1>9. CASE At(r, "rest_read") /\ pc'[r] = "w_open"
    BY <1>1, <1>2, <1>9 DEF BytesHaveAcked, FrameOK, Called, Flushing, At_write
  <1>10. CASE pc'[r] \in {"mutate", "read", "load_row", "load_read", "src_read", "load_check",
                          "close_delete", "art_store", "exp_read", "snap_read", "snap_store",
                          "rest_row", "rest_read"}
    BY <1>1, <1>2, <1>10 DEF BytesHaveAcked, Called, Flushing, At_write
  <1> QED BY <1>2, <1>3, <1>6, <1>7, <1>8, <1>9, <1>10 DEF Walks, AfterLoad

(* A silent step that ends a handler keeps AckedInv. *)
LEMMA SilentQuitsAcked ==
    ASSUME AckedInv, SerialInv', NEW r \in Rpcs, Silent, Quit(r), pc[r] # "rest_evict"
    PROVE  AckedInv'
  BY QuitHasAcked, SilentSpares, AckedSparing DEF Quit

(* The looking steps keep AckedInv. *)
LEMMA SilentKeepsAcked ==
    ASSUME AckedInv, SerialInv', NEW r \in Rpcs, SilentStep(r)
    PROVE  AckedInv'
  <1>1. Silent /\ (Walks(r) \/ (Quit(r) /\ pc[r] \notin Busy))
    BY SilentSteps DEF AckedInv
  <1>2. CASE Walks(r)
    BY <1>1, <1>2, WalkHasAcked, SilentSpares, AckedSparing
  <1>3. CASE Quit(r) /\ pc[r] \notin Busy
    BY <1>1, <1>3, SilentQuitsAcked DEF Busy
  <1> QED BY <1>1, <1>2, <1>3

(* The steps on the tree: what is put into the cache has the edits. *)
LEMMA CacheKeepsAcked ==
    ASSUME AckedInv, SerialInv', NEW r \in Rpcs, CacheStep(r)
    PROVE  AckedInv'
  <1> USE DEF At, To
  <1>1. SerialInv /\ Frozen /\ OthersSpared(r) /\ pc[r] \in ImageLabels
    BY CacheSteps DEF AckedInv
  <1>2. PICK i : i = img(r)
    OBVIOUS
  <1>3. /\ i \in Images /\ FrameOK(r) /\ PathOK(r) /\ ImageHasAcked(i) /\ BytesHaveAcked(r)
        /\ Called(r) /\ (pc[r] # "rest_evict" => ~Evicting(i))
    BY <1>1, <1>2, OnItsImage, NotEvicting DEF AckedInv, HandlerOK
  <1>4. imageFile' = imageFile /\ Counted(i)' = Counted(i)
    BY <1>1 DEF Frozen, Counted
  <1>5. /\ \A j \in Images : j # i => Spared(j)
        /\ \A q \in Rpcs : q # r => img(q) # i \/ i \notin Images
    BY <1>1, <1>2 DEF OthersSpared
  <1>6. /\ Others(r) /\ BytesHaveAcked(r)' /\ Called(r)' /\ ImageHasAcked(i)'
    <2>1. CASE At(r, "load_insert") /\ To(r, AfterLoad(r), buf[r]) /\ cache'[i] = buf[r]
      <3>1. pc'[r] \in {"mutate", "read"} /\ frame'[r] = frame[r] /\ Others(r)
        BY <2>1 DEF AfterLoad
      <3> QED BY <1>2, <1>3, <1>4, <2>1, <3>1
              DEF BytesHaveAcked, ImageHasAcked, Called, Flushing, At_write
    <2>2. CASE At(r, "open_cache") /\ To(r, "touch", buf[r]) /\ cache'[i] = buf[r]
      BY <1>2, <1>3, <1>4, <2>2
         DEF BytesHaveAcked, ImageHasAcked, PathOK, Called, Flushing, At_write
    <2>3. CASE At(r, "mutate") /\ Writable(r) /\ cache'[i] = cache[i] \cup {frame[r].edit}
      <3>1. ImageHasAcked(i)'
        BY <1>2, <1>3, <1>4, <2>3 DEF ImageHasAcked, Writable
      <3>2. CASE Quit(r)
        BY <3>1, <3>2, QuitHasAcked DEF Quit
      <3>3. CASE \/ To(r, "flush_build", buf[r])
                 \/ To(r, "touch", buf[r]) /\ frame[r].edit \in SkipIfApplied
        <4>1. (img(r))' = i
          BY <1>2, <3>3 DEF img
        <4> QED BY <1>3, <2>3, <3>1, <3>3, <4>1 DEF BytesHaveAcked, Called, Flushing, At_write
      <3> QED BY <1>1, <2>3, <3>2, <3>3, CacheSteps
    <2>4. CASE /\ At(r, "flush_swap") /\ To(r, "touch", buf[r])
               /\ cache'[i] = IF cache[i] # None THEN buf[r] ELSE None
      <3>1. (img(r))' = i
        BY <1>2, <2>4 DEF img
      <3> QED BY <1>2, <1>3, <1>4, <2>4, <3>1
              DEF BytesHaveAcked, ImageHasAcked, Called, Flushing, At_write
    <2>5. CASE Quit(r) /\ cache'[i] = None
      BY <1>3, <1>4, <2>5, QuitHasAcked DEF ImageHasAcked, Quit
    <2> QED BY <1>1, <1>2, <2>1, <2>2, <2>3, <2>4, <2>5, CacheSteps
  <1> QED BY <1>2, <1>5, <1>6, AckedStep
(* atomic_write and remove_file: what becomes the file has the edits, and what a
   restore renames is what it answers for from then on.                         *)
LEMMA FileKeepsAcked ==
    ASSUME AckedInv, SerialInv', NEW r \in Rpcs, FileStep(r)
    PROVE  AckedInv'
  <1> USE DEF To
  <1>0. SerialInv
    BY DEF AckedInv
  <1>1. /\ pc[r] \in {"w_open", "w_write", "w_rename", "close_file"} /\ Others(r)
        /\ frame'[r] = frame[r] /\ buf'[r] = buf[r] /\ OthersSpared(r) /\ cache' = cache
    BY <1>0, WriteOpenDoes, WriteBytesDoes, WriteRenameDoes, CloseFileDoes DEF FileStep
  <1>2. PICK i : i = img(r)
    OBVIOUS
  <1>3. pc[r] \in ImageLabels /\ pc[r] # "rest_evict"
    BY <1>1 DEF ImageLabels
  <1>4. /\ i \in Images /\ HandlerOK(r) /\ ImageHasAcked(i) /\ BytesHaveAcked(r)
        /\ Called(r) /\ ~Evicting(i)
    BY <1>0, <1>2, <1>3, OnItsImage, NotEvicting DEF AckedInv
  <1>5. /\ \A j \in Images : j # i => Spared(j)
        /\ \A q \in Rpcs : q # r => img(q) # i \/ i \notin Images
    BY <1>1, <1>2 DEF OthersSpared
  <1>6. (img(r))' = i /\ Called(r)'
    BY <1>1, <1>2, <1>4 DEF img, Called
  <1>7. BytesHaveAcked(r)' /\ ImageHasAcked(i)'
    <2>1. CASE WriteOpen(r) \/ WriteBytes(r)
      <3>1. /\ pc[r] \in {"w_open", "w_write"} /\ pc'[r] \in {"w_write", "w_rename"}
            /\ UNCHANGED <<imageFile, acked>>
        BY <1>0, <2>1, WriteOpenDoes, WriteBytesDoes
      <3> QED BY <1>1, <1>2, <1>4, <1>6, <3>1
              DEF BytesHaveAcked, ImageHasAcked, Counted, Flushing, At_write
    <2>2. CASE CloseFile(r)
      <3>1. pc'[r] = "close_evict" /\ acked' = acked /\ imageFile'[i] = None
        BY <1>0, <1>2, <2>2, CloseFileDoes
      <3> QED BY <1>1, <1>4, <3>1
              DEF BytesHaveAcked, ImageHasAcked, Counted, Flushing, At_write
    <2>3. CASE WriteRename(r)
      <3>1. /\ pc[r] = "w_rename" /\ pc'[r] = AfterWrite(r) /\ imageFile'[i] = buf[r]
            /\ acked'[i] = IF frame[r].op = "snapshot_restore" THEN buf[r] ELSE acked[i]
        BY <1>0, <1>2, <2>3, WriteRenameDoes
      <3>2. frame[r].op \in {"image_open", "mutate", "snapshot_restore"}
        BY <1>4, <3>1 DEF HandlerOK, PathOK, At_write
      <3>3. CASE frame[r].op = "mutate"
        <4>1. pc'[r] = "flush_swap"
          BY <3>1, <3>3 DEF AfterWrite
        <4>2. /\ Counted(i) \subseteq buf[r] /\ frame[r].edit \in buf[r]
              /\ cache[i] # None => buf[r] \subseteq cache[i]
          BY <1>2, <1>4, <3>1, <3>3 DEF BytesHaveAcked, Flushing, At_write
        <4>3. Counted(i)' = Counted(i)
          BY <3>1, <3>3 DEF Counted
        <4> QED BY <1>1, <1>4, <1>6, <3>1, <4>1, <4>2, <4>3
                DEF BytesHaveAcked, ImageHasAcked, Flushing, At_write
      <3>4. CASE frame[r].op = "image_open"
        <4>1. pc'[r] = "open_row"
          BY <3>1, <3>4 DEF AfterWrite
        <4>2. acked[i] = {} /\ cache[i] = None
          BY <1>2, <1>4, <3>1, <3>4 DEF HandlerOK, OpenOK
        <4> QED BY <1>1, <3>1, <3>4, <4>1, <4>2
                DEF BytesHaveAcked, ImageHasAcked, Counted, Flushing, At_write
      <3>5. CASE frame[r].op = "snapshot_restore"
        <4>1. pc'[r] = "rest_evict"
          BY <3>1, <3>5 DEF AfterWrite
        <4>2. Evicting(i)'
          BY <1>6, <4>1 DEF Evicting
        <4> QED BY <3>1, <3>5, <4>1, <4>2
                DEF BytesHaveAcked, ImageHasAcked, Counted, Flushing, At_write
      <3> QED BY <3>2, <3>3, <3>4, <3>5
    <2> QED BY <2>1, <2>2, <2>3 DEF FileStep
  <1> QED BY <1>1, <1>2, <1>5, <1>6, <1>7, AckedStep

(* The answer Ok to an edit: it is in the file and in the tree. *)
LEMMA TouchKeepsAcked ==
    ASSUME AckedInv, SerialInv', NEW r \in Rpcs, Touch(r)
    PROVE  AckedInv'
  <1>0. SerialInv
    BY DEF AckedInv
  <1>1. /\ pc[r] = "touch" /\ Quit(r) /\ OthersSpared(r) /\ UNCHANGED <<imageFile, cache>>
        /\ acked'[img(r)] = IF frame[r].op = "mutate"
                            THEN acked[img(r)] \cup {frame[r].edit} ELSE acked[img(r)]
    BY <1>0, TouchDoes
  <1>2. PICK i : i = img(r)
    OBVIOUS
  <1>3. pc[r] \in ImageLabels /\ pc[r] # "rest_evict"
    BY <1>1 DEF ImageLabels
  <1>4. i \in Images /\ ImageHasAcked(i) /\ BytesHaveAcked(r) /\ ~Evicting(i)
    BY <1>0, <1>2, <1>3, OnItsImage, NotEvicting DEF AckedInv
  <1>5. ImageHasAcked(i)'
    BY <1>1, <1>2, <1>4 DEF ImageHasAcked, BytesHaveAcked, Counted
  <1>6. /\ \A j \in Images : j # i => Spared(j)
        /\ \A q \in Rpcs : q # r => img(q) # i \/ i \notin Images
    BY <1>1, <1>2 DEF OthersSpared
  <1> QED BY <1>1, <1>2, <1>5, <1>6, QuitHasAcked, AckedStep DEF Quit

(* A new call holds nothing yet. *)
LEMMA CallKeepsAcked ==
    ASSUME AckedInv, SerialInv', ~Overlap, NEW r \in Rpcs, Call(r)
    PROVE  AckedInv'
  <1>1. SerialInv /\ pc[r] = "idle" /\ Silent /\ Others(r)
    BY CallDoes DEF AckedInv
  <1>2. PICK f : WellFormed(f) /\ frame'[r] = f /\ pc'[r] = Entry(f) /\ f.op \in Calls
    BY <1>1, CallDoes
  <1>3. Entry(f) \in {"sess_insert", "destroy_rows", "open_check", "close_row", "art_check",
                      "exp_row", "snap_row", "rest_snap", "src_row", "load_check"}
    BY DEF Entry
  <1>4. BytesHaveAcked(r)' /\ Called(r)'
    BY <1>2, <1>3 DEF BytesHaveAcked, Called, Flushing, At_write
  <1> QED BY <1>1, <1>4, SilentSpares, AckedSparing

(* Sessions come and go, snapshots and artifacts are stored. *)
LEMMA SparingKeepsAcked ==
    ASSUME AckedInv, SerialInv', NEW r \in Rpcs, SessionOf(r) \/ StoreStep(r)
    PROVE  AckedInv'
  <1>0. SerialInv /\ Called(r) /\ FrameOK(r) /\ PathOK(r)
    BY DEF AckedInv, SerialInv, HandlerOK, IInv, FramesOK
  <1>1. /\ pc[r] \in {"sess_insert", "destroy_rows", "destroy_files",
                      "snap_store", "snap_insert", "art_store"}
        /\ \A j \in Images : Spared(j)
    BY <1>0, SessionDoes, SnapshotStoreDoes, SnapshotInsertDoes, ArtifactStoreDoes, SilentSpares
       DEF StoreStep
  <1>2. CASE Quit(r)
    BY <1>1, <1>2, QuitHasAcked, AckedSparing DEF Quit
  <1>3. CASE /\ pc'[r] \in {"destroy_files", "snap_insert", "art_insert", "touch"}
             /\ Others(r) /\ frame'[r].op = frame[r].op
    <2>1. frame[r].op # "mutate"
      BY <1>0, <1>1 DEF PathOK
    <2> QED BY <1>0, <1>1, <1>3, <2>1, AckedSparing
            DEF BytesHaveAcked, Called, Flushing, At_write
  <1>4. CASE SessionOf(r)
    BY <1>0, <1>2, <1>3, <1>4, SessionDoes DEF To
  <1>5. CASE SnapshotStore(r) \/ ArtifactStore(r)
    <2>1. frame[r] \in Frames
      BY <1>0, TypedAt DEF SerialInv
    <2>2. frame'[r].op = frame[r].op
      <3>1. CASE SnapshotStore(r)
        <4>1. PICK k : frame'[r] = [frame[r] EXCEPT !.snapshot = k]
          BY <1>0, <3>1, SnapshotStoreDoes
        <4> QED BY <2>1, <4>1 DEF Frames
      <3>2. CASE ArtifactStore(r)
        <4>1. PICK a : frame'[r] = [frame[r] EXCEPT !.artifact = a]
          BY <1>0, <3>2, ArtifactStoreDoes
        <4> QED BY <2>1, <4>1 DEF Frames
      <3> QED BY <1>5, <3>1, <3>2
    <2> QED BY <1>0, <1>3, <1>5, <2>2, SnapshotStoreDoes, ArtifactStoreDoes
  <1>6. CASE SnapshotInsert(r)
    BY <1>0, <1>2, <1>3, <1>6, SnapshotInsertDoes DEF To
  <1> QED BY <1>4, <1>5, <1>6 DEF StoreStep
(* A fresh image has nothing to lose. *)
LEMMA OpenCheckKeepsAcked ==
    ASSUME AckedInv, SerialInv', NEW r \in Rpcs, OpenCheck(r)
    PROVE  AckedInv'
  <1>0. SerialInv /\ Called(r) /\ PathOK(r)
    BY DEF AckedInv, SerialInv, HandlerOK
  <1>1. pc[r] = "open_check"
    BY <1>0, OpenCheckDoes
  <1>2. CASE Silent /\ Quit(r)
    BY <1>1, <1>2, SilentQuitsAcked
  <1>3. ASSUME NEW i \in Images \ Opened, Others(r), pc'[r] = "w_open",
               frame'[r] = [frame[r] EXCEPT !.image = i],
               imageSession' = [imageSession EXCEPT ![i] = frame[r].session],
               UNCHANGED <<sessions, images, snapshots, snapshotImage, imageFile, tmpFile,
                           snapshotFile, cache, acked>>
        PROVE  AckedInv'
    <2>1. frame[r] \in Frames /\ imageSession \in [Images -> Sessions \cup {None}]
      BY <1>0, TypedAt, TypeParts DEF SerialInv, IInv, IdType
    <2>2. frame[r].op = "image_open" /\ frame'[r].op = frame[r].op
      BY <1>0, <1>1, <1>3, <2>1 DEF PathOK, Frames
    <2>3. BytesHaveAcked(r)' /\ Called(r)'
      BY <1>0, <1>3, <2>2 DEF BytesHaveAcked, Called, Flushing, At_write
    <2>4. ImageHasAcked(i)'
      BY <1>0, <1>3 DEF SerialInv, Unopened, ImageHasAcked
    <2>5. \A j \in Images : j # i => Spared(j)
      BY <1>3, <2>1 DEF Spared, Live
    <2>6. \A q \in Rpcs : img(q) # i
      BY <1>0, <1>3, TypedAt, StorageAssumption DEF SerialInv, FrameOK
    <2> QED BY <1>1, <1>3, <2>3, <2>4, <2>5, <2>6, AckedStep
  <1> QED BY <1>0, <1>2, <1>3, OpenCheckDoes

(* The rows of images: a new one has the bytes its handler holds. *)
LEMMA RowKeepsAcked ==
    ASSUME AckedInv, SerialInv', NEW r \in Rpcs, RowStep(r)
    PROVE  AckedInv'
  <1> USE DEF To
  <1>0. SerialInv /\ Called(r) /\ FrameOK(r) /\ OpenOK(r)
    BY DEF AckedInv, SerialInv, HandlerOK, IInv, FramesOK
  <1>1. CASE Silent /\ Quit(r) /\ pc[r] = "open_row"
    BY <1>1, SilentQuitsAcked
  <1>2. CASE \/ pc[r] = "open_row" /\ To(r, "open_cache", buf[r]) /\ Live(img(r))
             \/ pc[r] = "close_delete" /\ To(r, "close_file", buf[r])
    <2>1. OthersSpared(r) /\ UNCHANGED <<imageFile, cache, acked>>
      <3>1. pc'[r] # "idle"
        BY <1>2
      <3> QED BY <1>0, <3>1, OpenRowDoes, CloseDeleteDoes DEF Quit, RowStep
    <2>2. PICK i : i = img(r)
      OBVIOUS
    <2>3. pc[r] \in ImageLabels /\ pc[r] # "rest_evict"
      BY <1>2 DEF ImageLabels
    <2>4. i \in Images /\ ImageHasAcked(i) /\ ~Evicting(i)
      BY <1>0, <2>2, <2>3, OnItsImage, NotEvicting DEF AckedInv
    <2>5. ImageHasAcked(i)' /\ Called(r)'
      BY <1>0, <1>2, <2>1, <2>4 DEF ImageHasAcked, Counted, Called
    <2>6. BytesHaveAcked(r)'
      <3>1. (img(r))' = i
        BY <1>2, <2>2 DEF img
      <3>2. CASE pc[r] = "close_delete"
        BY <1>2, <3>2 DEF BytesHaveAcked, Flushing, At_write
      <3>3. CASE pc[r] = "open_row"
        <4>1. buf[r] = {} /\ acked[i] = {} /\ imageFile[i] = {}
          BY <1>0, <1>2, <2>2, <3>3 DEF OpenOK, FrameOK
        <4> QED BY <1>2, <2>1, <3>1, <3>3, <4>1 DEF BytesHaveAcked, Counted, Flushing, At_write
      <3> QED BY <1>2, <3>2, <3>3
    <2>7. /\ \A j \in Images : j # i => Spared(j)
          /\ \A q \in Rpcs : q # r => img(q) # i \/ i \notin Images
      BY <2>1, <2>2 DEF OthersSpared
    <2>8. Others(r)
      BY <1>2
    <2> QED BY <2>2, <2>5, <2>6, <2>7, <2>8, AckedStep
  <1> QED BY <1>0, <1>1, <1>2, OpenRowDoes, CloseDeleteDoes DEF RowStep

(* A failing system call, a call that is dropped (but no restore). *)
LEMMA FaultKeepsAcked ==
    ASSUME AckedInv, SerialInv', RestoreCompletes, NEW r \in Rpcs, IoError(r) \/ Cancel(r)
    PROVE  AckedInv'
  <1>1. SerialInv /\ Called(r) /\ PathOK(r)
    BY DEF AckedInv, SerialInv, HandlerOK
  <1>2. pc[r] # "rest_evict"
    <2>1. CASE Cancel(r)
      <3>1. "snapshot_restore" \notin Calls
        BY <2>1 DEF Cancel, RestoreCompletes
      <3> QED BY <1>1, <3>1 DEF PathOK, Called
    <2> QED BY <1>1, <2>1, FaultSteps
  <1> QED BY <1>1, <1>2, FaultSteps, SilentQuitsAcked

(* The GC and the clock. *)
LEMMA WorldKeepsAcked ==
    ASSUME AckedInv, SerialInv', World
    PROVE  AckedInv'
  <1>1. UNCHANGED handlerVars /\ \A j \in Images : Spared(j)
    BY WorldDoes DEF AckedInv
  <1>2. ASSUME NEW q \in Rpcs PROVE BytesHaveAcked(q)' /\ Called(q)'
    <2>1. Still(q) /\ (img(q) # None => img(q) \in Images)
      BY <1>1, TypedAt DEF handlerVars, Still, AckedInv, SerialInv
    <2> QED BY <1>1, <2>1, BystanderHasAcked
  <1>3. ASSUME NEW j \in Images PROVE ImageHasAcked(j)'
    <2>1. Evicting(j) => Evicting(j)'
      BY <1>1 DEF handlerVars, Evicting, img
    <2> QED BY <1>1, <2>1, SparedHasAcked
  <1> QED BY <1>2, <1>3 DEF AckedInv

(* A crash takes the trees and the handlers, and no file. *)
LEMMA CrashKeepsAcked ==
    ASSUME AckedInv, SerialInv', Crash
    PROVE  AckedInv'
  <1>1. ASSUME NEW q \in Rpcs PROVE BytesHaveAcked(q)' /\ Called(q)'
    <2>1. pc'[q] = "idle" /\ frame'[q].op = "none"
      BY DEF Crash, NoFrame
    <2> QED BY <2>1 DEF BytesHaveAcked, Called, Flushing, At_write
  <1>2. ASSUME NEW j \in Images PROVE ImageHasAcked(j)'
    <2>1. ImageHasAcked(j) /\ cache'[j] = None /\ UNCHANGED <<imageFile, acked>>
      BY DEF AckedInv, Crash, historyVars
    <2> QED BY <2>1 DEF ImageHasAcked, Counted
  <1> QED BY <1>1, <1>2 DEF AckedInv

-----------------------------------------------------------------------------
(* AckedInv holds at the start ... *)
LEMMA InitAcked == Init => AckedInv
  <1> SUFFICES ASSUME Init PROVE AckedInv
    OBVIOUS
  <1>1. SerialInv
    BY InitSerial
  <1>2. ASSUME NEW r \in Rpcs PROVE BytesHaveAcked(r) /\ Called(r)
    <2>1. pc[r] = "idle" /\ frame[r].op = "none"
      BY DEF Init, NoFrame
    <2> QED BY <2>1 DEF BytesHaveAcked, Called, Flushing, At_write
  <1>3. ASSUME NEW i \in Images PROVE ImageHasAcked(i)
    BY DEF Init, StorageInit, ImageHasAcked
  <1> QED BY <1>1, <1>2, <1>3 DEF AckedInv

(* ... and every step keeps it. *)
LEMMA NextKeepsAcked ==
    ASSUME ~Overlap, RestoreCompletes, AckedInv, [Next]_vars
    PROVE  AckedInv'
  <1>1. SerialInv'
    BY NextKeepsSerial DEF AckedInv
  <1>2. ASSUME NEW r \in Rpcs, Call(r) \/ SilentStep(r) \/ CacheStep(r) \/ FileStep(r)
        PROVE  AckedInv'
    BY <1>1, <1>2, CallKeepsAcked, SilentKeepsAcked, CacheKeepsAcked, FileKeepsAcked
  <1>3. ASSUME NEW r \in Rpcs, Touch(r) \/ SessionOf(r) \/ OpenCheck(r) \/ RowStep(r) \/ StoreStep(r)
        PROVE  AckedInv'
    BY <1>1, <1>3, TouchKeepsAcked, SparingKeepsAcked, OpenCheckKeepsAcked, RowKeepsAcked
  <1>4. ASSUME NEW r \in Rpcs, IoError(r) \/ Cancel(r)
        PROVE  AckedInv'
    BY <1>1, <1>4, FaultKeepsAcked
  <1>5. CASE World
    BY <1>1, <1>5, WorldKeepsAcked
  <1>6. CASE Crash
    BY <1>1, <1>6, CrashKeepsAcked
  <1> QED BY <1>2, <1>3, <1>4, <1>5, <1>6, KindsOfSteps

(* AckedInv holds in every state, whatever crashes or fails. *)
THEOREM AckedTheorem ==
    ASSUME ~Overlap, RestoreCompletes
    PROVE  Spec => []AckedInv
  <1>1. Init => AckedInv
    BY InitAcked
  <1>2. AckedInv /\ [Next]_vars => AckedInv'
    BY NextKeepsAcked
  <1> QED BY <1>1, <1>2, PTL DEF Spec

(* An edit that was answered with Ok is in the stored file, but for the ones that
   skip their flush when they find their bytes in the tree (hii_unlock and
   hii_set_value, which a failed flush left there).                             *)
THEOREM CountedIsStoredTheorem ==
    ASSUME ~Overlap, RestoreCompletes
    PROVE  Spec => [](\A i \in images : Counted(i) \subseteq imageFile[i])
  <1>1. AckedInv => \A i \in images : Counted(i) \subseteq imageFile[i]
    <2> SUFFICES ASSUME AckedInv, NEW i \in images PROVE Counted(i) \subseteq imageFile[i]
      OBVIOUS
    <2>1. i \in Images /\ imageFile[i] # None
      BY TypeParts DEF AckedInv, SerialInv, IInv, TableType, RowHasFile
    <2> QED BY <2>1 DEF AckedInv, ImageHasAcked
  <1> QED BY <1>1, AckedTheorem, PTL

(* Where every edit flushes, every edit that was answered with Ok is in the stored
   file, across failures of later edits, crashes, cancelled calls and the GC.   *)
THEOREM AckedIsStoredTheorem ==
    ASSUME ~Overlap, RestoreCompletes, SkipIfApplied = {}
    PROVE  Spec => []AckedIsStored
  <1>1. (\A i \in images : Counted(i) \subseteq imageFile[i]) => AckedIsStored
    BY DEF AckedIsStored, Counted
  <1> QED BY <1>1, CountedIsStoredTheorem, PTL

(* Between calls the tree that is served has every edit of the stored file. *)
THEOREM CacheNotBehindTheorem ==
    ASSUME ~Overlap, RestoreCompletes
    PROVE  Spec => []CacheNotBehind
  <1>1. AckedInv => CacheNotBehind
    <2> SUFFICES ASSUME AckedInv, NEW i \in images, Quiet(i), cache[i] # None
                 PROVE  imageFile[i] \subseteq cache[i]
      BY DEF CacheNotBehind
    <2>1. i \in Images /\ imageFile[i] # None
      BY TypeParts DEF AckedInv, SerialInv, IInv, TableType, RowHasFile
    <2>2. ~Evicting(i)
      BY DEF Quiet, Evicting
    <2> QED BY <2>1, <2>2 DEF AckedInv, ImageHasAcked
  <1> QED BY <1>1, AckedTheorem, PTL

(* Where every edit flushes, image_save writes every edit that was answered Ok. *)
THEOREM SaveHasAckedTheorem ==
    ASSUME ~Overlap, RestoreCompletes, SkipIfApplied = {}
    PROVE  Spec => SaveHasAcked
  <1> DEFINE Has ==
        \A r \in Rpcs : Save(r) /\ Buildable(buf[r]) => acked[img(r)] \subseteq buf[r]
  <1>1. AckedInv /\ [Next]_vars => [Has]_vars
    BY DEF AckedInv, BytesHaveAcked, Counted, Save, At
  <1> QED BY <1>1, AckedTheorem, PTL DEF Spec, SaveHasAcked

-----------------------------------------------------------------------------
(* What is left of an image that was closed, where no process dies, no call is
   dropped and no system call fails (Faults = {}); what an image opened
   read-only can store, and which files go, whatever the clients do.         *)

-----------------------------------------------------------------------------
(* Closed images. *)

(* Labels of the handlers that answer for an image without a row. *)
Answering == {"open_row", "close_file", "close_evict"}

(* An image that is spared loses no row while its session lives. *)
LEMMA SparedRow ==
    ASSUME NEW j \in Images, Spared(j)
    PROVE  Rowless(j)' => Rowless(j) /\ imageFile'[j] = imageFile[j] /\ cache'[j] = cache[j]
  BY DEF Rowless, Spared, Opened

(* A step of handler r on image i keeps ClosedInv, if it leaves both in order and
   spares the rest.                                                            *)
LEMMA ClosedStep ==
    ASSUME ClosedInv, SerialInv', NEW r \in Rpcs, NEW i, Others(r),
           \A j \in Images : j # i => Spared(j),
           \A q \in Rpcs : q # r => img(q) # i \/ i \notin Images,
           img(r) = i \/ pc[r] \notin Answering,
           i \in Images => LeftoverOK(i)',
           RowlessOK(r)'
    PROVE  ClosedInv'
  <1>1. ASSUME NEW q \in Rpcs, q # r PROVE RowlessOK(q)'
    <2>1. pc'[q] = pc[q] /\ frame'[q] = frame[q]
      BY <1>1 DEF Others
    <2>2. img(q) # None => img(q) \in Images
      BY TypedAt DEF ClosedInv, SerialInv
    <2>3. img(q) # None => (Rowless(img(q))' => Rowless(img(q)))
      <3> SUFFICES ASSUME img(q) # None, Rowless(img(q))' PROVE Rowless(img(q))
        OBVIOUS
      <3>1. PICK j : j = img(q)
        OBVIOUS
      <3>2. j \in Images /\ Spared(j)
        BY <1>1, <2>2, <3>1
      <3>3. (img(q))' = j
        BY <2>1, <3>1 DEF img
      <3>4. Rowless(j)'
        BY <3>3
      <3> QED BY <3>1, <3>2, <3>4, SparedRow
    <2>4. RowlessOK(q) /\ (img(q))' = img(q)
      BY <2>1 DEF ClosedInv, img
    <2> QED BY <2>1, <2>3, <2>4 DEF RowlessOK, Opening
  <1>2. ASSUME NEW j \in Images, j # i PROVE LeftoverOK(j)'
    <2> SUFFICES ASSUME Rowless(j)' PROVE LeftoverOK(j)'
      BY DEF LeftoverOK
    <2>1. Rowless(j) /\ imageFile'[j] = imageFile[j] /\ cache'[j] = cache[j] /\ LeftoverOK(j)
      BY <1>2, SparedRow DEF ClosedInv
    <2>2. ASSUME NEW q \in Rpcs, img(q) = j, pc[q] \in Answering
          PROVE  (img(q))' = j /\ pc'[q] = pc[q]
      <3>1. q # r
        BY <1>2, <2>2
      <3> QED BY <2>2, <3>1 DEF Others, img
    <2>3. imageFile'[j] # None =>
            \E q \in Rpcs : (img(q))' = j /\ pc'[q] \in {"open_row", "close_file"}
      BY <2>1, <2>2 DEF LeftoverOK, Answering
    <2>4. cache'[j] # None =>
            \E q \in Rpcs : (img(q))' = j /\ pc'[q] \in {"close_file", "close_evict"}
      BY <2>1, <2>2 DEF LeftoverOK, Answering
    <2> QED BY <2>3, <2>4 DEF LeftoverOK
  <1>3. \A j \in Images : LeftoverOK(j)'
    BY <1>2
  <1>4. \A q \in Rpcs : RowlessOK(q)'
    BY <1>1
  <1> QED BY <1>3, <1>4 DEF ClosedInv
(* The same, where no image is changed. *)
LEMMA ClosedSparing ==
    ASSUME ClosedInv, SerialInv', NEW r \in Rpcs, Others(r), \A j \in Images : Spared(j),
           pc[r] \notin Answering, RowlessOK(r)'
    PROVE  ClosedInv'
  <1>1. PICK i : i = None
    OBVIOUS
  <1>2. i \notin Images
    BY <1>1, StorageAssumption
  <1> QED BY <1>2, ClosedStep

(* A handler on an image with a row, at a label that only such handlers reach,
   may go where it likes while it spares the image.                           *)
LEMMA RowedMoves ==
    ASSUME ClosedInv, NEW r \in Rpcs, \A j \in Images : Spared(j),
           (img(r))' \in {None, img(r)}, (img(r))' = None \/ ~Rowless(img(r))
    PROVE  RowlessOK(r)'
  <1>1. CASE (img(r))' = None
    BY <1>1 DEF RowlessOK
  <1>2. CASE (img(r))' # None
    <2>1. PICK j : j = img(r)
      OBVIOUS
    <2>2. j \in Images /\ (img(r))' = j
      BY <1>2, <2>1, TypedAt DEF ClosedInv, SerialInv
    <2>3. ~Rowless(j)'
      BY <1>2, <2>1, <2>2, SparedRow
    <2> QED BY <2>2, <2>3 DEF RowlessOK
  <1> QED BY <1>1, <1>2

(* A handler on an image without a row: what is left is its own to remove. *)
LEMMA OnRowless ==
    ASSUME ClosedInv, NEW r \in Rpcs, pc[r] \in ImageLabels, Rowless(img(r))
    PROVE  /\ \/ Opening(r)
              \/ pc[r] \in {"close_file", "close_evict", "src_row", "src_read", "load_check",
                            "load_row", "close_row", "snap_row", "rest_snap"}
           /\ pc[r] \notin {"open_row", "close_file"} => imageFile[img(r)] = None
           /\ pc[r] \notin {"close_file", "close_evict"} => cache[img(r)] = None
           /\ img(r) \notin images
  <1>1. /\ img(r) \in Images /\ img(r) # None
        /\ \A q \in Rpcs : q # r => img(q) # img(r)
    BY OnItsImage DEF ClosedInv
  <1>2. LeftoverOK(img(r)) /\ RowlessOK(r)
    BY <1>1 DEF ClosedInv
  <1> QED BY <1>1, <1>2 DEF LeftoverOK, RowlessOK, Rowless

(* The looking steps keep ClosedInv: a look for the row of a closed image fails. *)
LEMMA SilentKeepsClosed ==
    ASSUME ClosedInv, SerialInv', NEW r \in Rpcs, SilentStep(r)
    PROVE  ClosedInv'
  <1> USE DEF At, To
  <1>0. SerialInv
    BY DEF ClosedInv
  <1>1. Silent /\ (Walks(r) \/ (Quit(r) /\ pc[r] \notin Busy)) /\ \A j \in Images : Spared(j)
    BY <1>0, SilentSteps, SilentSpares
  <1>2. pc[r] \notin Answering
    BY DEF SilentStep, LoadCheck, LoadRow, LoadRead, Read, Save, SourceRow, SourceRead,
       MutateRefused, FlushBuild, FlushSize, FlushValidate, WriteRenameFails, CloseRow,
       ArtifactCheck, ArtifactInsert, ExportRow, ExportRead, SnapshotRow, SnapshotRead,
       RestoreSnapshot, RestoreRow, RestoreRead, Answering
  <1>3. Others(r) /\ (img(r))' \in {None, img(r)}
    BY <1>1 DEF Walks, Quit, NoFrame, img
  <1>4. CASE Quit(r)
    BY <1>1, <1>2, <1>3, <1>4, ClosedSparing DEF Quit, NoFrame, RowlessOK, img
  <1>5. CASE Walks(r) /\ (img(r) = None \/ ~Rowless(img(r)))
    <2>1. RowlessOK(r)'
      BY <1>1, <1>3, <1>5, RowedMoves
    <2> QED BY <1>1, <1>2, <1>3, <2>1, ClosedSparing
  <1>6. CASE Walks(r) /\ img(r) # None /\ Rowless(img(r))
    <2>1. RowlessOK(r)
      BY DEF ClosedInv
    <2>2. pc[r] \in ImageLabels
      BY <1>6, <2>1 DEF RowlessOK, Opening, ImageLabels
    <2>3. /\ \/ Opening(r)
             \/ pc[r] \in {"close_file", "close_evict", "src_row", "src_read", "load_check",
                           "load_row", "close_row", "snap_row", "rest_snap"}
          /\ pc[r] \notin {"close_file", "close_evict"} => cache[img(r)] = None
          /\ img(r) \notin images
      BY <1>6, <2>2, OnRowless
    <2>4. \A k \in snapshots : snapshotImage[k] \in images
      BY <1>0 DEF SerialInv, IInv, ForeignKeys
    <2>5. pc'[r] \in {"src_read", "load_check", "load_row"}
      BY <1>6, <2>3, <2>4 DEF Walks, Opening
    <2> QED BY <1>1, <1>2, <1>3, <2>5, ClosedSparing DEF RowlessOK
  <1> QED BY <1>1, <1>4, <1>5, <1>6

(* The steps on the tree: the only one on a closed image is its eviction. *)
LEMMA CacheKeepsClosed ==
    ASSUME ClosedInv, SerialInv', NEW r \in Rpcs, CacheStep(r)
    PROVE  ClosedInv'
  <1> USE DEF At, To
  <1>0. SerialInv
    BY DEF ClosedInv
  <1>1. /\ Frozen /\ OthersSpared(r) /\ pc[r] \in ImageLabels
        /\ Others(r) /\ (img(r))' \in {None, img(r)}
        /\ \/ pc[r] \in {"load_insert", "open_cache", "mutate", "flush_swap", "rest_evict"}
           \/ pc[r] = "close_evict" /\ Quit(r) /\ cache'[img(r)] = None
    BY <1>0, CacheSteps DEF Quit, NoFrame, img
  <1>2. PICK i : i = img(r)
    OBVIOUS
  <1>3. /\ i \in Images /\ i # None
        /\ \A j \in Images : j # i => Spared(j)
        /\ \A q \in Rpcs : q # r => img(q) # i
    BY <1>0, <1>1, <1>2, OnItsImage DEF OthersSpared
  <1>4. Rowless(i)' => Rowless(i)
    BY <1>1 DEF Rowless, Live, Opened, Frozen
  <1>5. CASE ~Rowless(i)
    BY <1>1, <1>2, <1>3, <1>4, <1>5, ClosedStep DEF LeftoverOK, RowlessOK
  <1>6. CASE Rowless(i)
    <2>1. pc[r] = "close_evict" /\ imageFile[i] = None
      BY <1>1, <1>2, <1>6, OnRowless DEF Opening
    <2>2. LeftoverOK(i)'
      BY <1>1, <1>2, <2>1 DEF LeftoverOK, Frozen
    <2>3. RowlessOK(r)'
      BY <1>1, <2>1 DEF RowlessOK, Quit, NoFrame, img
    <2> QED BY <1>1, <1>2, <1>3, <2>2, <2>3, ClosedStep
  <1> QED BY <1>5, <1>6

(* The steps on the files. *)
LEMMA FileKeepsClosed ==
    ASSUME ClosedInv, SerialInv', NEW r \in Rpcs, FileStep(r)
    PROVE  ClosedInv'
  <1> USE DEF To
  <1>0. SerialInv
    BY DEF ClosedInv
  <1>1. /\ pc[r] \in {"w_open", "w_write", "w_rename", "close_file"} /\ Others(r)
        /\ frame'[r] = frame[r] /\ OthersSpared(r)
        /\ UNCHANGED <<sessions, images, imageSession, cache>>
    BY <1>0, WriteOpenDoes, WriteBytesDoes, WriteRenameDoes, CloseFileDoes DEF FileStep
  <1>2. PICK i : i = img(r)
    OBVIOUS
  <1>3. pc[r] \in ImageLabels
    BY <1>1 DEF ImageLabels
  <1>4. /\ i \in Images /\ i # None /\ (img(r))' = i
        /\ \A j \in Images : j # i => Spared(j)
        /\ \A q \in Rpcs : q # r => img(q) # i
    BY <1>0, <1>1, <1>2, <1>3, OnItsImage DEF OthersSpared, img
  <1>5. Rowless(i)' <=> Rowless(i)
    BY <1>1 DEF Rowless, Live, Opened
  <1>6. CASE ~Rowless(i)
    BY <1>1, <1>2, <1>4, <1>5, <1>6, ClosedStep DEF LeftoverOK, RowlessOK
  <1>7. CASE Rowless(i)
    <2>1. /\ Opening(r) \/ pc[r] = "close_file"
          /\ pc[r] # "close_file" => imageFile[i] = None /\ cache[i] = None
      BY <1>1, <1>2, <1>3, <1>7, OnRowless
    <2>2. CASE WriteOpen(r) \/ WriteBytes(r)
      <3>1. /\ pc[r] \in {"w_open", "w_write"} /\ pc'[r] \in {"w_write", "w_rename"}
            /\ UNCHANGED imageFile
        BY <1>0, <2>2, WriteOpenDoes, WriteBytesDoes
      <3>2. LeftoverOK(i)'
        BY <1>1, <2>1, <3>1 DEF LeftoverOK
      <3>3. RowlessOK(r)'
        BY <1>1, <2>1, <3>1 DEF RowlessOK, Opening
      <3> QED BY <1>1, <1>2, <1>4, <3>2, <3>3, ClosedStep
    <2>3. CASE WriteRename(r)
      <3>1. pc[r] = "w_rename" /\ pc'[r] = AfterWrite(r)
        BY <1>0, <2>3, WriteRenameDoes
      <3>2. pc'[r] = "open_row" /\ frame[r].op = "image_open"
        BY <2>1, <3>1 DEF Opening, AfterWrite
      <3>3. LeftoverOK(i)'
        BY <1>1, <1>4, <2>1, <3>1, <3>2 DEF LeftoverOK
      <3>4. RowlessOK(r)'
        BY <1>1, <3>2 DEF RowlessOK, Opening
      <3> QED BY <1>1, <1>2, <1>4, <3>3, <3>4, ClosedStep
    <2>4. CASE CloseFile(r)
      <3>1. pc'[r] = "close_evict" /\ imageFile'[i] = None
        BY <1>0, <1>2, <2>4, CloseFileDoes
      <3>2. LeftoverOK(i)'
        BY <1>4, <3>1 DEF LeftoverOK
      <3>3. RowlessOK(r)'
        BY <3>1 DEF RowlessOK
      <3> QED BY <1>1, <1>2, <1>4, <3>2, <3>3, ClosedStep
    <2> QED BY <2>2, <2>3, <2>4 DEF FileStep
  <1> QED BY <1>6, <1>7
(* A call on an image begins with a look at its row or at the cache. *)
LEMMA CallLooks ==
    ASSUME IInv, NEW r \in Rpcs, Call(r)
    PROVE  \/ (img(r))' = None
           \/ pc'[r] \in {"close_row", "load_check", "src_row", "snap_row", "rest_snap"}
  <1>1. HandlerType
    BY TypeParts DEF IInv
  <1>2. ASSUME NEW f, Start(r, f) PROVE (img(r))' = f.image /\ pc'[r] = Entry(f)
    BY <1>1, <1>2 DEF Start, HandlerType, img
  <1>3. ASSUME NEW op, NEW s, NEW m, Start(r, SessionRequest(op, s, m)) PROVE (img(r))' = None
    BY <1>2, <1>3 DEF SessionRequest
  <1>4. ASSUME NEW op \in ImageOps \cup {"mutate", "snapshot_restore"}, NEW i, NEW e, NEW k, NEW a,
               Start(r, ImageRequest(op, i, e, k, a))
        PROVE  pc'[r] \in {"close_row", "load_check", "src_row", "snap_row", "rest_snap"}
    BY <1>2, <1>4 DEF ImageRequest, Entry, ImageOps
  <1>5. ASSUME NEW a, Start(r, ImageRequest("artifact_export", None, None, None, a))
        PROVE  (img(r))' = None
    BY <1>2, <1>5 DEF ImageRequest
  <1> QED BY <1>3, <1>4, <1>5 DEF Call

(* Calls keep ClosedInv. *)
LEMMA CallKeepsClosed ==
    ASSUME ClosedInv, SerialInv', ~Overlap, NEW r \in Rpcs, Call(r)
    PROVE  ClosedInv'
  <1>1. pc[r] = "idle" /\ Silent /\ Others(r)
    BY CallDoes DEF ClosedInv
  <1>2. RowlessOK(r)'
    BY CallLooks DEF ClosedInv, SerialInv, RowlessOK
  <1> QED BY <1>1, <1>2, SilentSpares, ClosedSparing DEF Answering

(* A call that ends with a touch is on an image with a row. *)
LEMMA TouchKeepsClosed ==
    ASSUME ClosedInv, SerialInv', NEW r \in Rpcs, Touch(r)
    PROVE  ClosedInv'
  <1>0. SerialInv
    BY DEF ClosedInv
  <1>1. /\ pc[r] = "touch" /\ Quit(r) /\ OthersSpared(r)
        /\ UNCHANGED <<sessions, images, imageSession, imageFile, cache>>
    BY <1>0, TouchDoes
  <1>2. PICK i : i = img(r)
    OBVIOUS
  <1>3. pc[r] \in ImageLabels
    BY <1>1 DEF ImageLabels
  <1>4. /\ i \in Images /\ \A j \in Images : j # i => Spared(j)
        /\ \A q \in Rpcs : q # r => img(q) # i
    BY <1>0, <1>1, <1>2, <1>3, OnItsImage DEF OthersSpared
  <1>5. ~Rowless(i)
    BY <1>1, <1>2, <1>3, OnRowless DEF Opening
  <1>6. LeftoverOK(i)'
    BY <1>1, <1>5 DEF LeftoverOK, Rowless, Live, Opened
  <1>7. RowlessOK(r)' /\ Others(r)
    BY <1>1 DEF Quit, RowlessOK, NoFrame, img
  <1> QED BY <1>2, <1>4, <1>6, <1>7, ClosedStep

(* Sessions come and go, snapshots and artifacts are stored. *)
LEMMA SparingKeepsClosed ==
    ASSUME ClosedInv, SerialInv', NEW r \in Rpcs, SessionOf(r) \/ StoreStep(r)
    PROVE  ClosedInv'
  <1>0. SerialInv /\ RowlessOK(r) /\ frame[r] \in Frames
    BY TypedAt DEF ClosedInv, SerialInv
  <1>1. /\ pc[r] \in {"sess_insert", "destroy_rows", "destroy_files",
                      "snap_store", "snap_insert", "art_store"}
        /\ \A j \in Images : Spared(j)
    BY <1>0, SessionDoes, SnapshotStoreDoes, SnapshotInsertDoes, ArtifactStoreDoes, SilentSpares
       DEF StoreStep
  <1>2. Others(r) /\ (img(r))' \in {None, img(r)}
    <2>1. CASE SessionOf(r)
      BY <1>0, <2>1, SessionDoes DEF To, Quit, NoFrame, img
    <2>2. CASE SnapshotStore(r)
      <3>1. PICK k : frame'[r] = [frame[r] EXCEPT !.snapshot = k]
        BY <1>0, <2>2, SnapshotStoreDoes
      <3> QED BY <1>0, <2>2, <3>1, SnapshotStoreDoes DEF Frames, img
    <2>3. CASE ArtifactStore(r)
      <3>1. PICK a : frame'[r] = [frame[r] EXCEPT !.artifact = a]
        BY <1>0, <2>3, ArtifactStoreDoes
      <3> QED BY <1>0, <2>3, <3>1, ArtifactStoreDoes DEF Frames, img
    <2>4. CASE SnapshotInsert(r)
      BY <1>0, <2>4, SnapshotInsertDoes DEF To, Quit, NoFrame, img
    <2> QED BY <2>1, <2>2, <2>3, <2>4 DEF StoreStep
  <1>3. img(r) = None \/ ~Rowless(img(r))
    BY <1>0, <1>1 DEF RowlessOK, Opening
  <1>4. RowlessOK(r)'
    BY <1>1, <1>2, <1>3, RowedMoves
  <1> QED BY <1>1, <1>2, <1>4, ClosedSparing DEF Answering

(* A fresh image is the business of the handler that opens it. *)
LEMMA OpenCheckKeepsClosed ==
    ASSUME ClosedInv, SerialInv', NEW r \in Rpcs, OpenCheck(r)
    PROVE  ClosedInv'
  <1>0. SerialInv /\ PathOK(r)
    BY DEF ClosedInv, SerialInv, HandlerOK
  <1>1. pc[r] = "open_check"
    BY <1>0, OpenCheckDoes
  <1>2. CASE Silent /\ Quit(r)
    BY <1>1, <1>2, SilentSpares, ClosedSparing DEF Quit, Answering, RowlessOK, NoFrame, img
  <1>3. ASSUME NEW i \in Images \ Opened, Others(r), pc'[r] = "w_open",
               frame'[r] = [frame[r] EXCEPT !.image = i],
               imageSession' = [imageSession EXCEPT ![i] = frame[r].session],
               UNCHANGED <<sessions, images, snapshots, snapshotImage, imageFile, tmpFile,
                           snapshotFile, cache, acked>>
        PROVE  ClosedInv'
    <2>1. frame[r] \in Frames /\ imageSession \in [Images -> Sessions \cup {None}]
      BY <1>0, TypedAt, TypeParts DEF SerialInv, IInv, IdType
    <2>2. frame[r].op = "image_open" /\ frame'[r].op = frame[r].op
      BY <1>0, <1>1, <1>3, <2>1 DEF PathOK, Frames
    <2>3. RowlessOK(r)'
      BY <1>3, <2>2 DEF RowlessOK, Opening
    <2>4. LeftoverOK(i)'
      BY <1>0, <1>3 DEF SerialInv, Unopened, LeftoverOK
    <2>5. \A j \in Images : j # i => Spared(j)
      BY <1>3, <2>1 DEF Spared, Live
    <2>6. \A q \in Rpcs : img(q) # i
      BY <1>0, <1>3, TypedAt, StorageAssumption DEF SerialInv, FrameOK
    <2>7. pc[r] \notin Answering
      BY <1>1 DEF Answering
    <2> QED BY <1>3, <2>3, <2>4, <2>5, <2>6, <2>7, ClosedStep
  <1> QED BY <1>0, <1>2, <1>3, OpenCheckDoes

(* The row of an image is inserted by the handler that opens it, and deleted by one
   that then removes file and tree.                                               *)
LEMMA RowKeepsClosed ==
    ASSUME ClosedInv, SerialInv', NEW r \in Rpcs, RowStep(r)
    PROVE  ClosedInv'
  <1> USE DEF To
  <1>0. SerialInv
    BY DEF ClosedInv
  <1>1. PICK i : i = img(r)
    OBVIOUS
  <1>2. pc[r] \in {"open_row", "close_delete"} /\ pc[r] \in ImageLabels
    BY <1>0, OpenRowDoes, CloseDeleteDoes DEF RowStep, ImageLabels
  <1>3. i \in Images /\ i # None /\ \A q \in Rpcs : q # r => img(q) # i
    BY <1>0, <1>1, <1>2, OnItsImage
  <1>4. CASE Silent /\ Quit(r) /\ ~Live(i)
    <2>1. LeftoverOK(i)'
      BY <1>4 DEF LeftoverOK, Rowless, Silent, Live
    <2>2. RowlessOK(r)' /\ Others(r)
      BY <1>4 DEF Quit, RowlessOK, NoFrame, img
    <2> QED BY <1>1, <1>3, <1>4, <2>1, <2>2, SilentSpares, ClosedStep
  <1>5. CASE pc[r] = "open_row" /\ To(r, "open_cache", buf[r])
    <2>1. OthersSpared(r) /\ images' = images \cup {i}
      <3>1. pc'[r] # "idle" /\ OpenRow(r)
        BY <1>0, <1>5, CloseDeleteDoes DEF RowStep
      <3> QED BY <1>0, <1>1, <3>1, OpenRowDoes DEF Quit
    <2>2. (img(r))' = i
      BY <1>1, <1>5 DEF img
    <2>3. ~Rowless(i)' /\ LeftoverOK(i)' /\ RowlessOK(r)'
      BY <2>1, <2>2 DEF LeftoverOK, RowlessOK, Rowless
    <2> QED BY <1>1, <1>3, <1>5, <2>1, <2>3, ClosedStep DEF OthersSpared
  <1>6. CASE CloseDelete(r)
    <2>1. OthersSpared(r) /\ Others(r) /\ pc'[r] = "close_file" /\ frame'[r] = frame[r]
      BY <1>0, <1>6, CloseDeleteDoes
    <2>2. (img(r))' = i
      BY <1>1, <2>1 DEF img
    <2>3. LeftoverOK(i)' /\ RowlessOK(r)'
      BY <2>1, <2>2 DEF LeftoverOK, RowlessOK
    <2> QED BY <1>1, <1>3, <2>1, <2>3, ClosedStep DEF OthersSpared
  <1>7. CASE OpenRow(r) /\ Silent /\ Quit(r)
    <2>1. insert_image(img(r)) /\ Goto(r, "open_cache") => pc'[r] = "open_cache"
      BY <1>0, Moves DEF SerialInv, Labels
    <2>2. ~Live(i)
      BY <1>1, <1>7, <2>1 DEF OpenRow, Quit, Live
    <2> QED BY <1>4, <1>7, <2>2
  <1> QED BY <1>0, <1>5, <1>6, <1>7, OpenRowDoes DEF RowStep

(* The GC and the clock. *)
LEMMA WorldKeepsClosed ==
    ASSUME ClosedInv, SerialInv', World
    PROVE  ClosedInv'
  <1>1. UNCHANGED handlerVars /\ \A j \in Images : Spared(j)
    BY WorldDoes DEF ClosedInv
  <1>2. ASSUME NEW q \in Rpcs PROVE RowlessOK(q)'
    <2>1. RowlessOK(q) /\ UNCHANGED <<pc, frame>>
      BY <1>1 DEF ClosedInv, handlerVars
    <2>2. PICK j : j = img(q)
      OBVIOUS
    <2>3. (img(q))' = j /\ (j # None => j \in Images)
      BY <2>1, <2>2, TypedAt DEF img, ClosedInv, SerialInv
    <2>4. j # None => (Rowless(j)' => Rowless(j))
      BY <1>1, <2>3, SparedRow
    <2> QED BY <2>1, <2>2, <2>3, <2>4 DEF RowlessOK, Opening
  <1>3. ASSUME NEW j \in Images PROVE LeftoverOK(j)'
    BY <1>1, SparedRow DEF ClosedInv, LeftoverOK, handlerVars, img
  <1> QED BY <1>2, <1>3 DEF ClosedInv

(* Every step keeps ClosedInv. *)
LEMMA NextKeepsClosed ==
    ASSUME ~Overlap, Faults = {}, ClosedInv, [Next]_vars
    PROVE  ClosedInv'
  <1>1. SerialInv'
    BY NextKeepsSerial DEF ClosedInv
  <1>2. ASSUME NEW r \in Rpcs, Call(r) \/ SilentStep(r) \/ CacheStep(r) \/ FileStep(r)
        PROVE  ClosedInv'
    BY <1>1, <1>2, CallKeepsClosed, SilentKeepsClosed, CacheKeepsClosed, FileKeepsClosed
  <1>3. ASSUME NEW r \in Rpcs, Touch(r) \/ SessionOf(r) \/ OpenCheck(r) \/ RowStep(r) \/ StoreStep(r)
        PROVE  ClosedInv'
    BY <1>1, <1>3, TouchKeepsClosed, SparingKeepsClosed, OpenCheckKeepsClosed, RowKeepsClosed
  <1>4. ~Crash /\ \A r \in Rpcs : ~IoError(r) /\ ~Cancel(r)
    BY DEF Crash, IoError, Cancel
  <1>5. CASE World
    BY <1>1, <1>5, WorldKeepsClosed
  <1> QED BY <1>2, <1>3, <1>4, <1>5, KindsOfSteps

(* ClosedInv holds in every state. *)
THEOREM ClosedTheorem ==
    ASSUME ~Overlap, Faults = {}
    PROVE  Spec => []ClosedInv
  <1>1. Init => ClosedInv
    <2> SUFFICES ASSUME Init PROVE ClosedInv
      OBVIOUS
    <2>1. SerialInv /\ \A r \in Rpcs : img(r) = None
      BY InitSerial DEF Init, NoFrame, img
    <2>2. \A i \in Images : i \notin Opened
      BY DEF Init, StorageInit, Opened
    <2> QED BY <2>1, <2>2 DEF ClosedInv, LeftoverOK, RowlessOK, Rowless
  <1>2. ClosedInv /\ [Next]_vars => ClosedInv'
    BY NextKeepsClosed
  <1> QED BY <1>1, <1>2, PTL DEF Spec

(* When image_close has answered, neither the file nor the tree of the image is left
   while its session lives.                                                       *)
THEOREM ClosedIsGoneTheorem ==
    ASSUME ~Overlap, Faults = {}
    PROVE  Spec => []ClosedIsGone
  <1>1. ClosedInv => ClosedIsGone
    BY DEF ClosedInv, ClosedIsGone, LeftoverOK, Rowless, Live, Quiet, Opened
  <1> QED BY <1>1, ClosedTheorem, PTL
-----------------------------------------------------------------------------
(* Files that are kept, whatever the clients do. *)

(* Where handlers go: only a purging destroy_session goes on to the directory. *)
LEMMA WhereHandlersGo ==
    ASSUME ~Purge, NEW r \in Rpcs, HandlerStep(r) \/ IoError(r) \/ Cancel(r)
    PROVE  /\ gcPurging' = gcPurging
           /\ \E l : l # "destroy_files" /\ pc' = [pc EXCEPT ![r] = l]
  <1> USE DEF gcVars, Goto, GotoWith, Fail, Succeed, Drop
  <1>1. CASE SessionStep(r)
    BY <1>1 DEF SessionStep, create_session, destroy_rows, destroy_files
  <1>2. CASE WriteStep(r)
    BY <1>2 DEF WriteStep, WriteOpen, WriteBytes, WriteRename, WriteRenameFails
  <1>3. CASE OpenStep(r)
    BY <1>3 DEF OpenStep, OpenCheck, OpenRow, OpenCache
  <1>4. CASE LoadStep(r)
    BY <1>4 DEF LoadStep, LoadCheck, LoadRow, LoadRead, LoadInsert, AfterLoad
  <1>5. CASE ReadStep(r)
    BY <1>5 DEF ReadStep, Read, Save, Touch
  <1>6. CASE MutateStep(r)
    BY <1>6 DEF MutateStep, SourceRow, SourceRead, MutateRefused, MutatePartly, Mutate
  <1>7. CASE FlushStep(r)
    BY <1>7 DEF FlushStep, FlushBuild, FlushSize, FlushValidate, FlushSwap
  <1>8. CASE CloseStep(r)
    BY <1>8 DEF CloseStep, CloseRow, CloseDelete, CloseFile, CloseEvict
  <1>9. CASE ArtifactStep(r)
    BY <1>9 DEF ArtifactStep, ArtifactCheck, ArtifactStore, ArtifactInsert, ExportRow, ExportRead
  <1>10. CASE SnapshotStep(r)
    BY <1>10 DEF SnapshotStep, SnapshotRow, SnapshotRead, SnapshotStore, SnapshotInsert
  <1>11. CASE RestoreStep(r)
    BY <1>11 DEF RestoreStep, RestoreSnapshot, RestoreRow, RestoreRead, RestoreEvict
  <1>12. CASE IoError(r) \/ Cancel(r)
    BY <1>12 DEF IoError, Cancel
  <1> QED BY <1>1, <1>2, <1>3, <1>4, <1>5, <1>6, <1>7, <1>8, <1>9, <1>10, <1>11, <1>12
          DEF HandlerStep

(* Nobody comes to purge where purging is off. *)
LEMMA NextKeepsKeeps ==
    ASSUME KeepsInv, [Next]_vars
    PROVE  KeepsInv'
  <1>1. IInv' /\ pc \in [Rpcs -> Labels]
    BY NextKeepsInv, TypeParts DEF KeepsInv, IInv, HandlerType
  <1>2. ASSUME ~Purge PROVE gcPurging' = None /\ \A q \in Rpcs : pc'[q] # "destroy_files"
    <2>1. gcPurging = None /\ \A q \in Rpcs : pc[q] # "destroy_files"
      BY <1>2 DEF KeepsInv
    <2>2. ASSUME NEW r \in Rpcs, HandlerStep(r) \/ IoError(r) \/ Cancel(r)
          PROVE  gcPurging' = None /\ \A q \in Rpcs : pc'[q] # "destroy_files"
      BY <1>1, <1>2, <2>1, <2>2, WhereHandlersGo
    <2>3. ASSUME NEW r \in Rpcs, Call(r)
          PROVE  gcPurging' = None /\ \A q \in Rpcs : pc'[q] # "destroy_files"
      <3>1. PICK f : Start(r, f)
        BY <2>3 DEF Call
      <3>2. pc' = [pc EXCEPT ![r] = Entry(f)] /\ gcPurging' = gcPurging
        BY <2>3, <3>1 DEF Start, Call, gcVars
      <3>3. Entry(f) # "destroy_files"
        BY DEF Entry
      <3> QED BY <1>1, <2>1, <3>2, <3>3
    <2>4. CASE GcStep \/ Tick \/ UNCHANGED vars
      BY <1>2, <2>1, <2>4
         DEF GcStep, GcTick, GcDelete, GcPurge, Tick, vars, handlerVars, gcVars
    <2>5. CASE Crash
      BY <2>5 DEF Crash
    <2> QED BY <2>2, <2>3, <2>4, <2>5 DEF Next
  <1> QED BY <1>1, <1>2 DEF KeepsInv

StoredFiles == <<imageFile, snapshotFile, artifactFile>>

(* The steps that change a stored file. *)
LEMMA WhoChangesFiles ==
    ASSUME [Next]_vars, StoredFiles' # StoredFiles
    PROVE  \/ \E r \in Rpcs : \/ WriteBytes(r) \/ WriteRename(r) \/ CloseFile(r)
                              \/ SnapshotStore(r) \/ ArtifactStore(r) \/ destroy_files(r)
           \/ GcPurge
  <1> USE DEF StoredFiles, fileVars
  <1>1. ASSUME NEW r \in Rpcs, HandlerStep(r)
        PROVE  \/ WriteBytes(r) \/ WriteRename(r) \/ CloseFile(r)
               \/ SnapshotStore(r) \/ ArtifactStore(r) \/ destroy_files(r)
    <2>1. CASE SessionStep(r) \/ WriteStep(r) \/ OpenStep(r)
      BY <2>1 DEF SessionStep, create_session, destroy_rows, WriteStep, WriteOpen, open_tmp,
         WriteRenameFails, OpenStep, OpenCheck, OpenRow, OpenCache
    <2>2. CASE LoadStep(r) \/ ReadStep(r) \/ MutateStep(r)
      BY <2>2 DEF LoadStep, LoadCheck, LoadRow, LoadRead, LoadInsert, ReadStep, Read, Save, Touch,
         MutateStep, SourceRow, SourceRead, MutateRefused, MutatePartly, Mutate
    <2>3. CASE FlushStep(r) \/ CloseStep(r) \/ ArtifactStep(r)
      BY <2>3 DEF FlushStep, FlushBuild, FlushSize, FlushValidate, FlushSwap, CloseStep, CloseRow,
         CloseDelete, CloseEvict, ArtifactStep, ArtifactCheck, ArtifactInsert, ExportRow, ExportRead
    <2>4. CASE SnapshotStep(r) \/ RestoreStep(r)
      BY <2>4 DEF SnapshotStep, SnapshotRow, SnapshotRead, SnapshotInsert, RestoreStep,
         RestoreSnapshot, RestoreRow, RestoreRead, RestoreEvict
    <2> QED BY <1>1, <2>1, <2>2, <2>3, <2>4 DEF HandlerStep
  <1>2. ASSUME NEW r \in Rpcs PROVE ~(Call(r) \/ IoError(r) \/ Cancel(r))
    BY DEF Call, IoError, Cancel
  <1>3. ~Tick /\ ~Crash /\ ~UNCHANGED vars /\ ~GcTick /\ \A s \in Sessions : ~GcDelete(s)
    BY DEF Tick, Crash, vars, GcTick, GcDelete
  <1> QED BY <1>1, <1>2, <1>3 DEF Next, GcStep

(* Without --purge-artifacts nothing but image_close removes a file. *)
THEOREM FilesKeptTheorem == Spec => FilesKept
  <1> DEFINE Kept ==
        ~Purge =>
         /\ \A i \in Images : imageFile[i] # None /\ imageFile'[i] = None
                              => \E r \in Rpcs : CloseFile(r) /\ img(r) = i
         /\ \A k \in Snapshots : snapshotFile[k] # None => snapshotFile'[k] # None
         /\ \A a \in Artifacts : artifactFile[a] => artifactFile'[a]
  <1>1. KeepsInv /\ [Next]_vars => [Kept]_vars
    <2> SUFFICES ASSUME KeepsInv, [Next]_vars, ~Purge PROVE Kept
      OBVIOUS
    <2>1. FileType /\ \A r \in Rpcs : FrameOK(r)
      BY TypeParts DEF KeepsInv, IInv, FramesOK
    <2>2. CASE StoredFiles' = StoredFiles
      BY <2>2 DEF StoredFiles
    <2>3. ASSUME NEW r \in Rpcs, WriteBytes(r) PROVE Kept
      <3>1. buf[r] # None
        BY <2>1, <2>3 DEF FrameOK, BytesLabels, WriteBytes, At
      <3> QED BY <2>1, <2>3, <3>1 DEF WriteBytes, write_fd, FileType
    <2>4. ASSUME NEW r \in Rpcs, WriteRename(r) PROVE Kept
      BY <2>1, <2>4 DEF WriteRename, rename_tmp, FileType
    <2>5. ASSUME NEW r \in Rpcs, CloseFile(r) PROVE Kept
      BY <2>1, <2>5 DEF CloseFile, remove_image_file, FileType
    <2>6. ASSUME NEW r \in Rpcs, SnapshotStore(r) PROVE Kept
      <3>1. buf[r] # None
        BY <2>1, <2>6 DEF FrameOK, BytesLabels, SnapshotStore, At
      <3>2. PICK k \in Snapshots : store_snapshot_file(k, buf[r])
        BY <2>6 DEF SnapshotStore
      <3> QED BY <2>1, <3>1, <3>2 DEF store_snapshot_file, FileType
    <2>7. ASSUME NEW r \in Rpcs, ArtifactStore(r) PROVE Kept
      <3>1. PICK a \in Artifacts : store_artifact_file(a)
        BY <2>7 DEF ArtifactStore
      <3> QED BY <2>1, <3>1 DEF store_artifact_file, FileType
    <2>8. ~GcPurge /\ \A r \in Rpcs : ~destroy_files(r)
      BY DEF KeepsInv, GcPurge, destroy_files, At
    <2> QED BY <2>2, <2>3, <2>4, <2>5, <2>6, <2>7, <2>8, WhoChangesFiles
  <1>2. Init => KeepsInv
    BY InitInv DEF Init, KeepsInv
  <1>3. KeepsInv /\ [Next]_vars => KeepsInv'
    BY NextKeepsKeeps
  <1> QED BY <1>1, <1>2, <1>3, PTL DEF Spec, FilesKept
-----------------------------------------------------------------------------
(* Edits that need write mode, whatever the clients do. *)

(* A descriptor is closed or follows its file. *)
Follows(q) == fd'[q] = None \/ (fd[q] # None /\ fd'[q][1] = fd[q][1])

(* A handler that does not move owes what it owed. *)
LEMMA OtherGated ==
    ASSUME GatedInv, NEW q \in Rpcs, pc'[q] = pc[q], frame'[q] = frame[q], buf'[q] = buf[q],
           Follows(q), \A i \in Opened : imageMode'[i] = imageMode[i],
           \A k \in Taken : snapshotImage'[k] = snapshotImage[k]
    PROVE  GatedHandler(q)'
  <1>1. GatedHandler(q) /\ (img(q) # None => img(q) \in Opened)
    BY TypedAt DEF GatedInv, FrameOK
  <1>2. (img(q))' = img(q)
    BY DEF img
  <1>3. img(q) # None => Clean(img(q), buf[q])'
    BY <1>1, <1>2 DEF GatedHandler, Clean
  <1>4. fd'[q] # None => pc'[q] = "w_write" /\ fd'[q][1] = img(q)
    BY <1>1 DEF GatedHandler, Follows
  <1>5. pc[q] \in {"rest_row", "rest_read"} =>
          snapshotImage'[frame[q].snapshot] = img(q) /\ frame[q].snapshot \in Taken'
    BY <1>1 DEF GatedHandler, Taken
  <1> QED BY <1>1, <1>2, <1>3, <1>4, <1>5 DEF GatedHandler

(* A step of handler r that leaves the files and r in order keeps GatedInv. *)
LEMMA GatedStep ==
    ASSUME GatedInv, IInv', NEW r \in Rpcs, Others(r), \A q \in Rpcs : q # r => Follows(q),
           \A i \in Opened : imageMode'[i] = imageMode[i],
           \A k \in Taken : snapshotImage'[k] = snapshotImage[k],
           GatedFiles', GatedHandler(r)'
    PROVE  GatedInv'
  <1>1. ASSUME NEW q \in Rpcs, q # r PROVE GatedHandler(q)'
    BY <1>1, OtherGated DEF Others
  <1> QED BY <1>1 DEF GatedInv

(* What is in order stays so while nobody touches it. *)
LEMMA StillIsClean ==
    ASSUME GatedInv, UNCHANGED <<imageSession, imageMode, snapshotImage, imageFile, tmpFile,
                                 snapshotFile, cache>>
    PROVE  GatedFiles'
  BY DEF GatedInv, GatedFiles, Clean, Opened, Taken

(* A handler that returns holds nothing. *)
LEMMA GatedQuit ==
    ASSUME NEW r \in Rpcs, Quit(r), fd'[r] = None
    PROVE  GatedHandler(r)'
  BY DEF Quit, GatedHandler, NoFrame, img

(* A handler that goes on with clean bytes, past the labels that promise more. *)
LEMMA GatedGoes ==
    ASSUME GatedInv, NEW r \in Rpcs, NEW l, NEW b, To(r, l, b), fd'[r] = None,
           imageMode' = imageMode, l \notin {"idle", "rest_row", "rest_read"},
           b = buf[r] \/ (img(r) # None /\ Clean(img(r), b))
    PROVE  GatedHandler(r)'
  <1>1. GatedHandler(r) /\ (img(r))' = img(r) /\ pc'[r] = l /\ buf'[r] = b
    BY DEF GatedInv, To, img
  <1>2. img(r) # None => Clean(img(r), b)'
    BY <1>1 DEF GatedHandler, Clean
  <1> QED BY <1>1, <1>2 DEF GatedHandler

(* The looking steps: what is read of an image opened read-only is clean. *)
LEMMA SilentKeepsGated ==
    ASSUME GatedInv, IInv', NEW r \in Rpcs, SilentStep(r)
    PROVE  GatedInv'
  <1> USE DEF At
  <1>0. IInv /\ GatedHandler(r) /\ FrameOK(r) /\ img(r) \in Images \cup {None}
    BY TypedAt DEF GatedInv
  <1>1. Unmoved /\ fd' = fd /\ (Walks(r) \/ (Quit(r) /\ pc[r] \notin Busy))
    BY <1>0, StillSteps
  <1>2. GatedFiles' /\ Others(r)
    BY <1>1, StillIsClean DEF Unmoved, Walks, To, Quit
  <1>3. CASE Quit(r) /\ pc[r] \notin Busy
    <2>1. GatedHandler(r)'
      BY <1>0, <1>1, <1>3, GatedQuit DEF GatedHandler, Busy
    <2> QED BY <1>1, <1>2, <2>1, GatedStep DEF Follows, Unmoved
  <1>4. CASE Walks(r)
    <2>1. pc[r] # "w_write" /\ fd'[r] = None
      BY <1>0, <1>1, <1>4 DEF Walks, GatedHandler
    <2>2. pc[r] \in ImageLabels => img(r) \in Images /\ img(r) # None
      BY <1>0 DEF FrameOK
    <2>3. CASE pc[r] \in {"load_check", "load_row", "src_row", "src_read", "flush_size",
                          "flush_validate", "close_row", "art_check", "exp_row", "snap_row"}
      <3>1. PICK l : To(r, l, buf[r]) /\ l \notin {"idle", "rest_row", "rest_read"}
        BY <1>4, <2>3 DEF Walks, AfterLoad
      <3> QED BY <1>1, <1>2, <2>1, <3>1, GatedGoes, GatedStep DEF Follows, Unmoved
    <2>4. CASE pc[r] \in {"load_read", "snap_read"}
      <3>1. PICK l : To(r, l, imageFile[img(r)]) /\ l \notin {"idle", "rest_row", "rest_read"}
        BY <1>4, <2>4 DEF Walks
      <3>2. img(r) # None /\ Clean(img(r), imageFile[img(r)])
        BY <2>2, <2>4 DEF GatedInv, GatedFiles, ImageLabels
      <3> QED BY <1>1, <1>2, <2>1, <3>1, <3>2, GatedGoes, GatedStep DEF Follows, Unmoved
    <2>5. CASE pc[r] \in {"read", "flush_build"}
      <3>1. PICK l : To(r, l, cache[img(r)]) /\ l \notin {"idle", "rest_row", "rest_read"}
        BY <1>4, <2>5 DEF Walks
      <3>2. img(r) # None /\ Clean(img(r), cache[img(r)])
        BY <2>2, <2>5 DEF GatedInv, GatedFiles, ImageLabels
      <3> QED BY <1>1, <1>2, <2>1, <3>1, <3>2, GatedGoes, GatedStep DEF Follows, Unmoved
    <2>6. CASE pc[r] = "rest_read"
      <3>1. PICK k : k = frame[r].snapshot
        OBVIOUS
      <3>2. To(r, "w_open", snapshotFile[k])
        BY <1>4, <2>6, <3>1 DEF Walks
      <3>3. img(r) # None /\ Clean(img(r), snapshotFile[k])
        BY <1>0, <2>2, <2>6, <3>1 DEF GatedInv, GatedHandler, GatedFiles, ImageLabels
      <3> QED BY <1>1, <1>2, <2>1, <3>2, <3>3, GatedGoes, GatedStep DEF Follows, Unmoved
    <2>7. CASE pc[r] \in {"rest_snap", "rest_row"}
      <3>1. PICK l : To(r, l, buf[r]) /\ l # "idle"
        BY <1>4, <2>7 DEF Walks
      <3>2. snapshotImage[frame[r].snapshot] = img(r) /\ frame[r].snapshot \in Taken
        <4>1. snapshots \subseteq Snapshots
          BY <1>0, TypeParts DEF IInv, TableType
        <4> QED BY <1>0, <1>4, <2>2, <2>7, <4>1 DEF Walks, GatedHandler, Taken, ImageLabels
      <3>3. (img(r))' = img(r) /\ buf'[r] = buf[r] /\ frame'[r] = frame[r] /\ pc'[r] # "idle"
        BY <3>1 DEF To, img
      <3>4. GatedHandler(r)'
        BY <1>0, <1>1, <2>1, <3>2, <3>3 DEF GatedHandler, Clean, Unmoved, Taken
      <3> QED BY <1>1, <1>2, <3>4, GatedStep DEF Follows, Unmoved
    <2> QED BY <1>4, <2>3, <2>4, <2>5, <2>6, <2>7 DEF Walks
  <1> QED BY <1>1, <1>3, <1>4
(* A step that puts a clean tree into the cache, or none. *)
LEMMA GatedTree ==
    ASSUME GatedInv, NEW i \in Images, NEW c, Clean(i, c), cache' = [cache EXCEPT ![i] = c],
           UNCHANGED <<imageSession, imageMode, snapshotImage, imageFile, tmpFile, snapshotFile>>
    PROVE  GatedFiles'
  <1>1. cache \in [Images -> {None} \cup Contents]
    BY TypeParts DEF GatedInv, IInv, CacheType
  <1> QED BY <1>1 DEF GatedInv, GatedFiles, Clean, Opened, Taken

(* The steps on the trees: an edit that needs write mode looks at the mode. *)
LEMMA CacheKeepsGated ==
    ASSUME GatedInv, IInv', NEW r \in Rpcs, CacheStep(r)
    PROVE  GatedInv'
  <1> USE DEF At
  <1>0. IInv /\ GatedHandler(r) /\ FrameOK(r)
    BY TypedAt DEF GatedInv
  <1>1. UNCHANGED <<imageSession, imageMode, snapshotImage, imageFile, tmpFile, snapshotFile, fd>>
    BY DEF CacheStep, LoadInsert, OpenCache, MutatePartly, Mutate, FlushSwap, CloseEvict,
       RestoreEvict, idVars, fileVars
  <1>2. pc[r] \in ImageLabels /\ pc[r] # "w_write"
    BY DEF CacheStep, LoadInsert, OpenCache, MutatePartly, Mutate, FlushSwap, CloseEvict,
       RestoreEvict, ImageLabels
  <1>3. PICK i : i = img(r)
    OBVIOUS
  <1>4. i \in Images /\ i # None /\ fd'[r] = None /\ cache[i] \in {None} \cup Contents
    BY <1>0, <1>1, <1>2, <1>3, TypedAt DEF FrameOK, GatedHandler
  <1>5. Quit(r) \/ \E l : l \notin {"idle", "rest_row", "rest_read"} /\ To(r, l, buf[r])
    <2>1. /\ Fail(r) \/ Succeed(r) => Quit(r)
          /\ \A l \in Labels : Goto(r, l) => To(r, l, buf[r])
      BY <1>0, Moves
    <2>2. CASE LoadInsert(r) \/ Mutate(r)
      <3>1. PICK l \in {"mutate", "read", "touch", "flush_build"} : Goto(r, l)
        BY <2>2 DEF LoadInsert, Mutate, AfterLoad
      <3> QED BY <2>1, <3>1 DEF Labels
    <2>3. CASE OpenCache(r) \/ FlushSwap(r)
      BY <2>1, <2>3 DEF OpenCache, FlushSwap, Labels
    <2>4. CASE MutatePartly(r) \/ CloseEvict(r) \/ RestoreEvict(r)
      BY <2>1, <2>4 DEF MutatePartly, CloseEvict, RestoreEvict
    <2> QED BY <2>2, <2>3, <2>4 DEF CacheStep
  <1>6. GatedHandler(r)'
    BY <1>1, <1>4, <1>5, GatedQuit, GatedGoes
  <1>7. Clean(i, buf[r]) /\ Clean(i, cache[i]) /\ Clean(i, None)
    BY <1>0, <1>3, <1>4 DEF GatedInv, GatedHandler, GatedFiles, Clean
  <1>8. \E c : Clean(i, c) /\ cache' = [cache EXCEPT ![i] = c]
    <2>1. CASE MutatePartly(r) \/ Mutate(r)
      <3>1. /\ cache[i] \notin {None, Torn}
            /\ frame[r].edit \in WriteGated => imageMode[i] = "write"
            /\ cache' = [cache EXCEPT ![i] = cache[i] \cup {frame[r].edit}]
        BY <1>3, <2>1 DEF MutatePartly, Mutate, Writable
      <3>2. Clean(i, cache[i] \cup {frame[r].edit})
        BY <1>7, <3>1 DEF Clean
      <3> QED BY <3>1, <3>2
    <2>2. CASE LoadInsert(r) \/ OpenCache(r)
      BY <1>3, <1>7, <2>2 DEF LoadInsert, OpenCache
    <2>3. CASE CloseEvict(r) \/ RestoreEvict(r)
      BY <1>3, <1>7, <2>3 DEF CloseEvict, RestoreEvict
    <2>4. CASE FlushSwap(r)
      <3>1. cache \in [Images -> {None} \cup Contents]
        BY <1>0, TypeParts DEF IInv, CacheType
      <3>2. cache = [cache EXCEPT ![i] = cache[i]]
        BY <1>4, <3>1
      <3> QED BY <1>3, <1>7, <2>4, <3>2 DEF FlushSwap
    <2> QED BY <2>1, <2>2, <2>3, <2>4 DEF CacheStep
  <1>9. GatedFiles' /\ Others(r)
    BY <1>1, <1>4, <1>5, <1>8, GatedTree DEF Quit, To
  <1> QED BY <1>1, <1>6, <1>9, GatedStep DEF Follows

(* The steps on the files: what is written through a descriptor, even after the file
   it was opened for has been renamed, are bytes for the same image.               *)
LEMMA FileKeepsGated ==
    ASSUME GatedInv, IInv', NEW r \in Rpcs, FileStep(r)
    PROVE  GatedInv'
  <1> USE DEF At
  <1>0. IInv /\ GatedHandler(r) /\ FrameOK(r) /\ FileType
    BY TypedAt, TypeParts DEF GatedInv, IInv
  <1>1. UNCHANGED <<imageSession, imageMode, snapshotImage, snapshotFile, cache>>
    BY DEF FileStep, WriteOpen, WriteBytes, WriteRename, CloseFile, open_tmp, write_fd, rename_tmp,
       remove_image_file, idVars
  <1>2. /\ pc[r] \in {"w_open", "w_write", "w_rename", "close_file"}
        /\ \E l \in Labels \ {"idle", "rest_row", "rest_read"} :
             Goto(r, l) /\ (l = "w_write" <=> WriteOpen(r))
    BY DEF FileStep, WriteOpen, WriteBytes, WriteRename, CloseFile, Labels
  <1>3. PICK i : i = img(r)
    OBVIOUS
  <1>4. i \in Images /\ i # None
    BY <1>0, <1>2, <1>3, TypedAt DEF FrameOK, ImageLabels
  <1>5. PICK l \in Labels \ {"idle", "rest_row", "rest_read"} :
          To(r, l, buf[r]) /\ (l = "w_write" <=> WriteOpen(r))
    BY <1>0, <1>2, Moves
  <1>6. Others(r) /\ (img(r))' = i /\ buf'[r] = buf[r] /\ pc'[r] = l
    BY <1>3, <1>5 DEF To, img
  <1>7. Clean(i, buf[r]) /\ Clean(i, tmpFile[i]) /\ Clean(i, None) /\ Clean(i, Torn)
    BY <1>0, <1>3, <1>4 DEF GatedInv, GatedHandler, GatedFiles, Clean
  <1>8. CASE WriteOpen(r)
    <2>1. open_tmp(r, i) /\ l = "w_write"
      BY <1>3, <1>5, <1>8 DEF WriteOpen
    <2>2. fd'[r][1] = i /\ \A q \in Rpcs : q # r => fd'[q] = fd[q]
      BY <1>0, <2>1 DEF open_tmp, FileType
    <2>3. GatedFiles'
      BY <1>0, <1>1, <2>1 DEF open_tmp, GatedInv, GatedFiles, Clean, Opened, Taken, FileType
    <2>4. GatedHandler(r)'
      BY <1>1, <1>4, <1>6, <1>7, <2>1, <2>2 DEF GatedHandler, Clean
    <2> QED BY <1>1, <1>6, <2>2, <2>3, <2>4, GatedStep DEF Follows
  <1>9. CASE WriteBytes(r)
    <2>1. write_fd(r, buf[r]) /\ pc[r] = "w_write"
      BY <1>9 DEF WriteBytes
    <2>2. fd'[r] = None /\ \A q \in Rpcs : q # r => fd'[q] = fd[q]
      BY <1>0, <2>1 DEF write_fd, FileType
    <2>3. \A j \in Images : fd[r] \in {<<j, "tmp">>, <<j, "image">>} => j = i
      BY <1>0, <1>3, StorageAssumption DEF GatedHandler
    <2>4. \A j \in Images : /\ tmpFile'[j] = tmpFile[j] \/ (j = i /\ tmpFile'[j] = buf[r])
                            /\ imageFile'[j] = imageFile[j] \/ (j = i /\ imageFile'[j] = buf[r])
      BY <1>0, <2>1, <2>3 DEF write_fd
    <2>5. GatedFiles'
      BY <1>1, <1>7, <2>4 DEF GatedInv, GatedFiles, Clean, Opened, Taken
    <2>6. GatedHandler(r)'
      BY <1>1, <1>4, <1>5, <1>6, <1>7, <2>2, GatedGoes
    <2> QED BY <1>1, <1>6, <2>2, <2>5, <2>6, GatedStep DEF Follows
  <1>10. CASE WriteRename(r)
    <2>1. rename_tmp(i) /\ pc[r] = "w_rename"
      BY <1>3, <1>10 DEF WriteRename
    <2>2. \A q \in Rpcs : Follows(q)
      <3>1. <<i, "tmp">> # None
        BY <1>4, StorageAssumption
      <3>2. ASSUME NEW q \in Rpcs
            PROVE  \/ fd'[q] = fd[q] \/ fd'[q] = None
                   \/ fd[q] = <<i, "tmp">> /\ fd'[q] = <<i, "image">>
        BY <1>0, <2>1 DEF rename_tmp, FileType
      <3> QED BY <3>1, <3>2 DEF Follows
    <2>3. GatedFiles'
      BY <1>0, <1>1, <1>7, <2>1
         DEF rename_tmp, GatedInv, GatedFiles, Clean, Opened, Taken, FileType
    <2>4. fd'[r] = None
      BY <1>0, <2>1, <2>2 DEF GatedHandler, Follows
    <2>5. GatedHandler(r)'
      BY <1>1, <1>4, <1>5, <1>7, <2>4, GatedGoes
    <2> QED BY <1>1, <1>6, <2>2, <2>3, <2>5, GatedStep
  <1>11. CASE CloseFile(r)
    <2>1. remove_image_file(i) /\ pc[r] = "close_file"
      BY <1>3, <1>11 DEF CloseFile
    <2>2. \A q \in Rpcs : Follows(q)
      BY <1>0, <2>1, StorageAssumption DEF remove_image_file, Follows, FileType, Fds
    <2>3. GatedFiles'
      BY <1>0, <1>1, <1>7, <2>1
         DEF remove_image_file, GatedInv, GatedFiles, Clean, Opened, Taken, FileType
    <2>4. fd'[r] = None
      BY <1>0, <2>1, <2>2 DEF GatedHandler, Follows
    <2>5. GatedHandler(r)'
      BY <1>1, <1>4, <1>5, <1>7, <2>4, GatedGoes
    <2> QED BY <1>1, <1>6, <2>2, <2>3, <2>5, GatedStep
  <1> QED BY <1>8, <1>9, <1>10, <1>11 DEF FileStep
(* The removal of a session directory leaves nothing that was not there. *)
LEMMA PurgeIsClean ==
    ASSUME GatedInv, NEW s, remove_session_dir(s), UNCHANGED <<idVars, cache>>
    PROVE  GatedFiles' /\ \A q \in Rpcs : Follows(q)
  <1>1. FileType
    BY TypeParts DEF GatedInv, IInv
  <1>2. GatedFiles'
    BY <1>1 DEF remove_session_dir, GatedInv, GatedFiles, Clean, Opened, Taken, FileType, idVars
  <1>3. \A q \in Rpcs : Follows(q)
    BY <1>1 DEF remove_session_dir, Follows, FileType
  <1> QED BY <1>2, <1>3

(* A call starts without bytes, at a label that promises nothing. *)
LEMMA CallKeepsGated ==
    ASSUME GatedInv, IInv', NEW r \in Rpcs, Call(r)
    PROVE  GatedInv'
  <1>1. IInv /\ HandlerType /\ IdType /\ GatedHandler(r)
    BY TypeParts DEF GatedInv, IInv
  <1>2. /\ pc[r] = "idle"
        /\ UNCHANGED <<imageSession, imageMode, snapshotImage, imageFile, tmpFile, snapshotFile,
                       cache, fd>>
    BY DEF Call, At, idVars, fileVars
  <1>3. PICK f : WellFormed(f) /\ Start(r, f)
    BY <1>1, CallIsWellFormed
  <1>4. Others(r) /\ pc'[r] = Entry(f) /\ buf'[r] = buf[r]
    BY <1>1, <1>3 DEF Start, Others, HandlerType
  <1>5. pc'[r] \notin {"rest_row", "rest_read", "w_write"}
    BY <1>4 DEF Entry
  <1>6. buf'[r] = None /\ fd'[r] = None
    BY <1>1, <1>2, <1>4 DEF GatedHandler
  <1>7. GatedHandler(r)'
    BY <1>5, <1>6 DEF GatedHandler, Clean
  <1>8. GatedFiles'
    BY <1>2, StillIsClean
  <1> QED BY <1>2, <1>4, <1>7, <1>8, GatedStep DEF Follows

(* The steps that move rows or the clock, or end the call. *)
LEMMA RowsKeepGated ==
    ASSUME GatedInv, IInv', NEW r \in Rpcs,
           Touch(r) \/ create_session(r) \/ destroy_rows(r) \/ RowStep(r) \/ SnapshotInsert(r)
    PROVE  GatedInv'
  <1>1. IInv /\ GatedHandler(r)
    BY DEF GatedInv
  <1>2. /\ UNCHANGED <<imageSession, imageMode, snapshotImage, imageFile, tmpFile, snapshotFile,
                       cache, fd>>
        /\ pc[r] # "w_write"
    BY DEF Touch, create_session, destroy_rows, RowStep, OpenRow, CloseDelete, SnapshotInsert, At,
       idVars, fileVars
  <1>3. Fail(r) \/ Succeed(r) \/ \E l \in {"destroy_files", "open_cache", "close_file", "touch"} : Goto(r, l)
    BY DEF Touch, create_session, destroy_rows, RowStep, OpenRow, CloseDelete, SnapshotInsert
  <1>4. Quit(r) \/ \E l : l \notin {"idle", "rest_row", "rest_read"} /\ To(r, l, buf[r])
    <2>1. {"destroy_files", "open_cache", "close_file", "touch"} \subseteq Labels
      BY DEF Labels
    <2> QED BY <1>1, <1>3, <2>1, Moves
  <1>5. GatedFiles' /\ fd'[r] = None /\ Others(r)
    BY <1>1, <1>2, <1>4, StillIsClean DEF GatedHandler, Quit, To
  <1>6. GatedHandler(r)'
    BY <1>2, <1>4, <1>5, GatedQuit, GatedGoes
  <1> QED BY <1>2, <1>5, <1>6, GatedStep DEF Follows

(* A new image has no file and no tree yet, whatever mode it is opened in. *)
LEMMA OpenCheckKeepsGated ==
    ASSUME GatedInv, IInv', NEW r \in Rpcs, OpenCheck(r)
    PROVE  GatedInv'
  <1>1. IInv /\ GatedHandler(r) /\ HandlerType /\ IdType
    BY TypeParts DEF GatedInv, IInv
  <1>2. UNCHANGED <<snapshotImage, imageFile, tmpFile, snapshotFile, cache, fd>> /\ pc[r] # "w_write"
    BY DEF OpenCheck, At, idVars, fileVars
  <1>3. fd'[r] = None
    BY <1>1, <1>2 DEF GatedHandler
  <1>4. CASE Fail(r) /\ UNCHANGED idVars
    <2>1. Quit(r)
      BY <1>1, <1>4, Moves
    <2>2. GatedFiles' /\ GatedHandler(r)' /\ Others(r)
      BY <1>2, <1>3, <1>4, <2>1, StillIsClean, GatedQuit DEF idVars, Quit
    <2> QED BY <1>2, <1>4, <2>2, GatedStep DEF Follows, idVars
  <1>5. CASE ~(Fail(r) /\ UNCHANGED idVars)
    <2>1. PICK i \in Images \ Opened :
            /\ imageSession' = [imageSession EXCEPT ![i] = frame[r].session]
            /\ imageMode' = [imageMode EXCEPT ![i] = frame[r].mode]
            /\ frame' = [frame EXCEPT ![r].image = i]
            /\ pc' = [pc EXCEPT ![r] = "w_open"]
            /\ buf' = [buf EXCEPT ![r] = {}]
      BY <1>5 DEF OpenCheck
    <2>2. /\ Others(r) /\ pc'[r] = "w_open" /\ buf'[r] = {}
          /\ \A j \in Opened : imageMode'[j] = imageMode[j]
      BY <1>1, <2>1 DEF Others, HandlerType, IdType
    <2>3. GatedHandler(r)'
      BY <1>3, <2>2 DEF GatedHandler, Clean
    <2>4. imageMode[i] = "read"
      BY <2>1 DEF GatedInv, GatedFiles
    <2>5. ASSUME NEW j \in Images, NEW c, Clean(j, c) PROVE Clean(j, c)'
      BY <1>1, <2>1, <2>4, <2>5 DEF Clean, IdType
    <2>6. \A j \in Images : j \notin Opened' => j \notin Opened /\ j # i
      <3>1. frame[r].session # None
        BY <1>1, TypedAt DEF OpenCheck, At, FrameOK
      <3> QED BY <1>1, <2>1, <3>1 DEF Opened, IdType
    <2>7. ASSUME NEW j \in Images
          PROVE  /\ Clean(j, imageFile[j])' /\ Clean(j, tmpFile[j])' /\ Clean(j, cache[j])'
                 /\ j \notin Opened' => imageMode'[j] = "read"
      BY <1>1, <1>2, <2>1, <2>5, <2>6 DEF GatedInv, GatedFiles, IdType
    <2>8. ASSUME NEW k \in Taken' PROVE Clean(snapshotImage[k], snapshotFile[k])'
      <3>1. k \in Taken /\ snapshotImage[k] \in Images
        BY <1>1, <1>2 DEF Taken, IdType
      <3>2. Clean(snapshotImage[k], snapshotFile[k])
        BY <3>1 DEF GatedInv, GatedFiles
      <3>3. PICK j \in Images : j = snapshotImage[k]
        BY <3>1
      <3>4. PICK c : c = snapshotFile[k]
        OBVIOUS
      <3> QED BY <1>2, <2>5, <3>2, <3>3, <3>4
    <2>9. GatedFiles'
      BY <2>7, <2>8 DEF GatedFiles
    <2> QED BY <1>2, <2>2, <2>3, <2>9, GatedStep DEF Follows
  <1> QED BY <1>4, <1>5

(* A snapshot is of the image whose bytes the handler holds. *)
LEMMA StoreKeepsGated ==
    ASSUME GatedInv, IInv', NEW r \in Rpcs, SnapshotStore(r) \/ ArtifactStore(r)
    PROVE  GatedInv'
  <1>1. IInv /\ GatedHandler(r) /\ HandlerType /\ IdType /\ FileType /\ FrameOK(r)
    BY TypeParts, TypedAt DEF GatedInv, IInv
  <1>2. UNCHANGED <<imageSession, imageMode, imageFile, tmpFile, cache, fd, buf>> /\ pc[r] # "w_write"
    BY DEF SnapshotStore, ArtifactStore, At, idVars, store_snapshot_file, store_artifact_file
  <1>3. /\ Others(r) /\ pc'[r] \in {"snap_insert", "art_insert"} /\ (img(r))' = img(r)
        /\ fd'[r] = None
    <2>1. PICK k \in Snapshots \cup Artifacts :
            \/ frame' = [frame EXCEPT ![r].snapshot = k] /\ pc' = [pc EXCEPT ![r] = "snap_insert"]
            \/ frame' = [frame EXCEPT ![r].artifact = k] /\ pc' = [pc EXCEPT ![r] = "art_insert"]
      BY DEF SnapshotStore, ArtifactStore
    <2> QED BY <1>1, <1>2, <2>1 DEF Others, HandlerType, Frames, img, GatedHandler
  <1>4. GatedHandler(r)'
    BY <1>1, <1>2, <1>3 DEF GatedHandler, Clean
  <1>5. CASE ArtifactStore(r)
    <2>1. UNCHANGED <<snapshotImage, snapshotFile>>
      BY <1>5 DEF ArtifactStore, store_artifact_file
    <2> QED BY <1>2, <1>3, <1>4, <2>1, StillIsClean, GatedStep DEF Follows
  <1>6. CASE SnapshotStore(r)
    <2>1. PICK k \in Snapshots \ Taken : /\ snapshotImage' = [snapshotImage EXCEPT ![k] = img(r)]
                                         /\ store_snapshot_file(k, buf[r])
      BY <1>6 DEF SnapshotStore
    <2>2. img(r) # None /\ Clean(img(r), buf[r])
      BY <1>1, <1>6 DEF SnapshotStore, At, FrameOK, ImageLabels, GatedHandler
    <2>3. \A n \in Taken : snapshotImage'[n] = snapshotImage[n] /\ snapshotFile'[n] = snapshotFile[n]
      BY <1>1, <2>1 DEF store_snapshot_file, IdType, FileType, Taken
    <2>4. \A n \in Taken' : n \in Taken \/ n = k
      BY <1>1, <2>1 DEF Taken, IdType
    <2>5. snapshotImage'[k] = img(r) /\ snapshotFile'[k] = buf[r]
      BY <1>1, <2>1 DEF store_snapshot_file, IdType, FileType
    <2>6. GatedFiles'
      BY <1>2, <2>2, <2>3, <2>4, <2>5 DEF GatedInv, GatedFiles, Clean, Opened
    <2> QED BY <1>2, <1>3, <1>4, <2>3, <2>6, GatedStep DEF Follows
  <1> QED BY <1>5, <1>6

(* The directory of a session goes. *)
LEMMA PurgeKeepsGated ==
    ASSUME GatedInv, IInv', NEW r \in Rpcs, destroy_files(r)
    PROVE  GatedInv'
  <1>1. IInv /\ GatedHandler(r) /\ pc[r] # "w_write" /\ Succeed(r)
    BY DEF GatedInv, destroy_files, At
  <1>2. GatedFiles' /\ (\A q \in Rpcs : Follows(q)) /\ UNCHANGED <<imageMode, snapshotImage>>
    BY PurgeIsClean DEF destroy_files, idVars
  <1>3. Quit(r) /\ fd'[r] = None
    BY <1>1, <1>2, Moves DEF GatedHandler, Follows
  <1>4. GatedHandler(r)' /\ Others(r)
    BY <1>3, GatedQuit DEF Quit
  <1> QED BY <1>2, <1>4, GatedStep

(* A failing system call and a cancelled call drop what the handler holds. *)
LEMMA FaultKeepsGated ==
    ASSUME GatedInv, IInv', NEW r \in Rpcs, IoError(r) \/ Cancel(r)
    PROVE  GatedInv'
  <1>1. IInv /\ GatedHandler(r) /\ FileType
    BY TypeParts DEF GatedInv, IInv
  <1>2. /\ UNCHANGED <<imageSession, imageMode, snapshotImage, imageFile, tmpFile, snapshotFile, cache>>
        /\ Fail(r) /\ fd'[r] = None /\ \A q \in Rpcs : q # r => fd'[q] = fd[q]
    BY <1>1 DEF IoError, Cancel, idVars, fileVars, FileType, GatedHandler
  <1>3. Quit(r)
    BY <1>1, <1>2, Moves
  <1>4. GatedFiles' /\ GatedHandler(r)' /\ Others(r)
    BY <1>2, <1>3, StillIsClean, GatedQuit DEF Quit
  <1> QED BY <1>2, <1>4, GatedStep DEF Follows

(* The GC, the clock and a crash. *)
LEMMA WorldKeepsGated ==
    ASSUME GatedInv, IInv', World \/ Crash
    PROVE  GatedInv'
  <1>1. CASE Crash
    <2>1. GatedFiles'
      BY <1>1 DEF Crash, GatedInv, GatedFiles, Clean, Opened, Taken, idVars
    <2>2. \A q \in Rpcs : GatedHandler(q)'
      BY <1>1 DEF Crash, GatedHandler, NoFrame, img
    <2> QED BY <2>1, <2>2 DEF GatedInv
  <1>2. CASE World
    <2>1. UNCHANGED <<pc, frame, buf, imageSession, imageMode, snapshotImage>>
      BY <1>2 DEF World, GcStep, GcTick, GcDelete, GcPurge, Tick, vars, handlerVars, idVars
    <2>2. GatedFiles' /\ \A q \in Rpcs : Follows(q)
      <3>1. CASE GcPurge
        BY <3>1, PurgeIsClean DEF GcPurge
      <3>2. CASE ~GcPurge
        <4>1. UNCHANGED <<fileVars, cache>>
          BY <1>2, <3>2 DEF World, GcStep, GcTick, GcDelete, Tick, vars
        <4> QED BY <2>1, <4>1, StillIsClean DEF fileVars, Follows
      <3> QED BY <3>1, <3>2
    <2>3. \A q \in Rpcs : GatedHandler(q)'
      BY <2>1, <2>2, OtherGated
    <2> QED BY <2>2, <2>3 DEF GatedInv
  <1> QED BY <1>1, <1>2

(* GatedInv holds in every state, whatever the clients do and whatever fails. *)
THEOREM GatedTheorem == Spec => []GatedInv
  <1>1. Init => GatedInv
    BY InitInv DEF Init, StorageInit, GatedInv, GatedFiles, GatedHandler, Clean, NoFrame, img,
       Opened, Taken
  <1>2. GatedInv /\ [Next]_vars => GatedInv'
    <2> SUFFICES ASSUME GatedInv, [Next]_vars PROVE GatedInv'
      OBVIOUS
    <2>1. IInv'
      BY NextKeepsInv DEF GatedInv
    <2>2. ASSUME NEW r \in Rpcs, Call(r) \/ SilentStep(r) \/ CacheStep(r) \/ FileStep(r) \/ Touch(r)
          PROVE  GatedInv'
      BY <2>1, <2>2, CallKeepsGated, SilentKeepsGated, CacheKeepsGated, FileKeepsGated, RowsKeepGated
    <2>3. ASSUME NEW r \in Rpcs, SessionOf(r) \/ OpenCheck(r) \/ RowStep(r) \/ StoreStep(r)
          PROVE  GatedInv'
      BY <2>1, <2>3, RowsKeepGated, PurgeKeepsGated, OpenCheckKeepsGated, StoreKeepsGated
         DEF SessionOf, StoreStep
    <2>4. ASSUME NEW r \in Rpcs, IoError(r) \/ Cancel(r) PROVE GatedInv'
      BY <2>1, <2>4, FaultKeepsGated
    <2>5. CASE World \/ Crash
      BY <2>1, <2>5, WorldKeepsGated
    <2> QED BY <2>2, <2>3, <2>4, <2>5, KindsOfSteps
  <1> QED BY <1>1, <1>2, PTL DEF Spec

(* An image that was opened read-only never stores an edit that needs write mode. *)
THEOREM GatedNeedsWriteTheorem == Spec => []GatedNeedsWrite
  <1>1. GatedInv => GatedNeedsWrite
    <2>1. ASSUME GatedInv PROVE \A i \in images : i \in Images /\ imageFile[i] # None
      BY <2>1, TypeParts DEF GatedInv, IInv, TableType, RowHasFile
    <2> QED BY <2>1 DEF GatedInv, GatedFiles, Clean, GatedNeedsWrite
  <1> QED BY <1>1, GatedTheorem, PTL
=============================================================================
