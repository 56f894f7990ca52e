------------------------ MODULE StoreRefinementProofs -----------------------
(***************************************************************************)
(* EngineServer implements ImageStore for clients that do not overlap      *)
(* their calls on one image: every step of a handler, of the GC, of a      *)
(* crash is one step of the abstract store or none.  The rename of         *)
(* atomic_write is where an edit is committed and where a snapshot is      *)
(* restored; the INSERT of a row is where an image or a snapshot begins,   *)
(* and its DELETE where it ends.                                           *)
(***************************************************************************)
EXTENDS EngineImplementsStore, EngineSerialProofs

(* The refinement mapping of EngineImplementsStore. *)
StoreOf == [i \in Images |-> IF i \in images THEN imageFile[i] ELSE None]
SavedOf == [k \in Snapshots |-> IF k \in snapshots
                                THEN <<snapshotImage[k], snapshotFile[k]>>
                                ELSE None]

(* What a step must do to the two. *)
Abstractly == \/ Store!Next
              \/ StoreOf' = StoreOf /\ SavedOf' = SavedOf

(* What an abstract value is, read back. *)
LEMMA Mapped ==
    ASSUME SerialInv
    PROVE  /\ \A i \in images : /\ i \in Images /\ StoreOf[i] = imageFile[i]
                                /\ imageFile[i] \in SUBSET Edits /\ imageFile[i] # None
           /\ \A i \in Images \ images : StoreOf[i] = None
           /\ \A k \in snapshots : /\ k \in Snapshots
                                   /\ SavedOf[k] = <<snapshotImage[k], snapshotFile[k]>>
                                   /\ SavedOf[k][1] = snapshotImage[k]
                                   /\ SavedOf[k][2] = snapshotFile[k]
                                   /\ snapshotImage[k] \in images /\ SavedOf[k] # None
           /\ \A k \in Snapshots \ snapshots : SavedOf[k] = None
  <1>1. /\ images \subseteq Images /\ snapshots \subseteq Snapshots
        /\ imageFile \in [Images -> {None} \cup Contents]
        /\ snapshotFile \in [Snapshots -> {None} \cup Contents]
    BY TypeParts DEF SerialInv, IInv, TableType, FileType
  <1>2. ASSUME NEW i \in images
        PROVE  /\ i \in Images /\ StoreOf[i] = imageFile[i]
               /\ imageFile[i] \in SUBSET Edits /\ imageFile[i] # None
    <2>1. imageFile[i] # None /\ imageFile[i] # Torn /\ i \in Images
      BY <1>1 DEF SerialInv, IInv, RowHasFile, Untorn
    <2>2. imageFile[i] \in SUBSET Edits
      BY <1>1, <2>1 DEF Contents
    <2> QED BY <2>1, <2>2 DEF StoreOf
  <1>3. ASSUME NEW k \in snapshots
        PROVE  /\ k \in Snapshots
               /\ SavedOf[k] = <<snapshotImage[k], snapshotFile[k]>>
               /\ SavedOf[k][1] = snapshotImage[k]
               /\ SavedOf[k][2] = snapshotFile[k]
               /\ snapshotImage[k] \in images /\ SavedOf[k] # None
    <2>1. k \in Snapshots /\ snapshotImage[k] \in images /\ snapshotFile[k] # None
      BY <1>1 DEF SerialInv, IInv, ForeignKeys, RowHasFile
    <2>2. snapshotImage[k] \in Images /\ snapshotFile[k] \in Contents
      BY <1>1, <2>1
    <2>3. <<snapshotImage[k], snapshotFile[k]>> # None
      BY <2>2, StorageAssumption
    <2> QED BY <2>1, <2>3 DEF SavedOf
  <1> QED BY <1>2, <1>3 DEF StoreOf, SavedOf

(* Steps that leave rows, files of rows and snapshots alone are no steps of the
   abstract store.                                                             *)
LEMMA Unseen ==
    ASSUME SerialInv, images' = images, snapshots' = snapshots,
           \A i \in images : imageFile'[i] = imageFile[i],
           \A k \in snapshots : snapshotImage'[k] = snapshotImage[k]
                                /\ snapshotFile'[k] = snapshotFile[k]
    PROVE  Abstractly
  <1>1. StoreOf' = StoreOf
    BY DEF StoreOf
  <1>2. SavedOf' = SavedOf
    BY DEF SavedOf
  <1> QED BY <1>1, <1>2 DEF Abstractly

(* The DELETE of rows of images, with the snapshots of these. *)
LEMMA Closes ==
    ASSUME SerialInv, NEW gone \in SUBSET images,
           images' = images \ gone,
           snapshots' = {k \in snapshots : snapshotImage[k] \notin gone},
           UNCHANGED <<imageFile, snapshotImage, snapshotFile>>
    PROVE  Abstractly
  <1>1. gone \in SUBSET Store!Live
    BY Mapped DEF Store!Live, StoreOf
  <1>2. StoreOf' = [i \in Images |-> IF i \in gone THEN None ELSE StoreOf[i]]
    BY DEF StoreOf
  <1>3. SavedOf' = [k \in Snapshots |->
                      IF SavedOf[k] # None /\ SavedOf[k][1] \in gone THEN None ELSE SavedOf[k]]
    <2>1. ASSUME NEW k \in Snapshots
          PROVE  (k \in snapshots' <=> k \in snapshots /\ ~(SavedOf[k] # None /\ SavedOf[k][1] \in gone))
      BY Mapped
    <2>2. ASSUME NEW k \in Snapshots
          PROVE  SavedOf'[k] = IF SavedOf[k] # None /\ SavedOf[k][1] \in gone
                               THEN None ELSE SavedOf[k]
      <3>1. SavedOf'[k] = IF k \in snapshots' THEN <<snapshotImage[k], snapshotFile[k]>> ELSE None
        BY DEF SavedOf
      <3> QED BY <2>1, <3>1, Mapped
    <2>3. SavedOf' = [k \in Snapshots |-> SavedOf'[k]]
      BY DEF SavedOf
    <2> QED BY <2>2, <2>3
  <1>4. Store!Close(gone)
    BY <1>2, <1>3 DEF Store!Close, Store!Kept, StoreOf, SavedOf
  <1> QED BY <1>1, <1>4 DEF Abstractly, Store!Next
-----------------------------------------------------------------------------
(* The steps that the abstract store sees. *)

(* The rename: of an edit, of a restore, or of an image without a row yet. *)
LEMMA RenameMaps ==
    ASSUME AckedInv, NEW r \in Rpcs, WriteRename(r)
    PROVE  Abstractly
  <1>0. SerialInv
    BY DEF AckedInv
  <1>1. /\ pc[r] = "w_rename" /\ imageFile' = [imageFile EXCEPT ![img(r)] = buf[r]]
        /\ UNCHANGED <<images, snapshots, snapshotImage, snapshotFile>>
    BY <1>0, WriteRenameDoes
  <1>2. PICK i : i = img(r)
    OBVIOUS
  <1>3. pc[r] \in ImageLabels
    BY <1>1 DEF ImageLabels
  <1>4. /\ i \in Images /\ FrameOK(r) /\ HandlerOK(r) /\ StoredFirst(r) /\ BytesHaveAcked(r)
        /\ buf[r] # Torn /\ buf[r] \in {None} \cup Contents
    BY <1>0, <1>2, <1>3, OnItsImage DEF AckedInv, SerialInv, Untorn
  <1>5. buf[r] \in SUBSET Edits
    BY <1>1, <1>4 DEF FrameOK, BytesLabels, Contents
  <1>6. imageFile \in [Images -> {None} \cup Contents]
    BY <1>0, TypeParts DEF SerialInv, IInv, FileType
  <1>7. CASE i \notin images
    BY <1>0, <1>1, <1>2, <1>6, <1>7, Mapped, Unseen
  <1>8. CASE i \in images
    <2>1. StoreOf' = [StoreOf EXCEPT ![i] = buf[r]]
      BY <1>1, <1>2, <1>4, <1>6, <1>8 DEF StoreOf
    <2>2. SavedOf' = SavedOf
      BY <1>1 DEF SavedOf
    <2>3. i \in Store!Live /\ StoreOf[i] = imageFile[i] /\ imageFile[i] # None
      BY <1>0, <1>8, Mapped DEF Store!Live, StoreOf
    <2>4. frame[r].op \in {"mutate", "snapshot_restore"}
      BY <1>1, <1>2, <1>4, <1>8 DEF HandlerOK, PathOK, At_write, StoredFirst, Opening
    <2>5. CASE frame[r].op = "mutate"
      <3>1. imageFile[i] \subseteq buf[r]
        BY <1>1, <1>2, <1>4, <2>3, <2>5 DEF BytesHaveAcked, Flushing, At_write
      <3>2. StoreOf[i] \cup buf[r] = buf[r]
        BY <2>3, <3>1
      <3>3. StoreOf' = [StoreOf EXCEPT ![i] = StoreOf[i] \cup buf[r]]
        BY <2>1, <3>2
      <3>4. Store!Commit(i)
        BY <1>5, <2>2, <2>3, <3>3 DEF Store!Commit, StoreOf, SavedOf
      <3> QED BY <1>4, <3>4 DEF Abstractly, Store!Next
    <2>6. CASE frame[r].op = "snapshot_restore"
      <3>1. PICK k : k = frame[r].snapshot
        OBVIOUS
      <3>2. Live(i)
        BY <1>0, <1>8 DEF SerialInv, IInv, ForeignKeys, Live
      <3>3. k \in snapshots /\ snapshotImage[k] = i /\ buf[r] = snapshotFile[k]
        BY <1>1, <1>2, <1>4, <1>8, <2>6, <3>1, <3>2 DEF HandlerOK, RestoreOK, At_write
      <3>4. k \in Snapshots /\ SavedOf[k] # None /\ SavedOf[k][1] = i /\ SavedOf[k][2] = buf[r]
        BY <1>0, <3>3, Mapped
      <3>5. Store!Restore(i, k)
        BY <2>1, <2>2, <2>3, <3>4 DEF Store!Restore, Store!Kept, StoreOf, SavedOf
      <3> QED BY <1>4, <3>4, <3>5 DEF Abstractly, Store!Next
    <2> QED BY <2>4, <2>5, <2>6
  <1> QED BY <1>7, <1>8

(* The row of a new image. *)
LEMMA OpenRowMaps ==
    ASSUME SerialInv, NEW r \in Rpcs, OpenRow(r)
    PROVE  Abstractly
  <1>1. CASE Silent
    BY <1>1, Unseen DEF Silent
  <1>2. CASE /\ Live(img(r)) /\ images' = images \cup {img(r)}
             /\ UNCHANGED <<snapshots, snapshotImage, imageFile, snapshotFile>>
    <2>1. PICK i : i = img(r)
      OBVIOUS
    <2>2. pc[r] = "open_row" /\ pc[r] \in ImageLabels
      BY OpenRowDoes DEF ImageLabels
    <2>3. i \in Images /\ FrameOK(r) /\ HandlerOK(r) /\ StoredFirst(r)
      BY <2>1, <2>2, OnItsImage
    <2>4. i \notin images /\ imageFile[i] = {}
      BY <1>2, <2>1, <2>2, <2>3 DEF HandlerOK, OpenOK, FrameOK, StoredFirst, Opening
    <2>5. StoreOf' = [StoreOf EXCEPT ![i] = {}] /\ SavedOf' = SavedOf
      BY <1>2, <2>1, <2>3, <2>4 DEF StoreOf, SavedOf
    <2>6. i \notin Store!Live
      BY <2>3, <2>4 DEF Store!Live, StoreOf
    <2>7. Store!Open(i)
      BY <2>5, <2>6 DEF Store!Open, StoreOf, SavedOf
    <2> QED BY <2>3, <2>7 DEF Abstractly, Store!Next
  <1> QED BY <1>1, <1>2, OpenRowDoes

(* image_close. *)
LEMMA CloseDeleteMaps ==
    ASSUME SerialInv, NEW r \in Rpcs, CloseDelete(r)
    PROVE  Abstractly
  <1>1. /\ images' = images \ {img(r)}
        /\ snapshots' = {k \in snapshots : snapshotImage[k] # img(r)}
        /\ UNCHANGED <<snapshotImage, imageFile, snapshotFile>>
    BY CloseDeleteDoes
  <1>2. PICK gone : gone = {img(r)} \cap images
    OBVIOUS
  <1>3. gone \in SUBSET images /\ images' = images \ gone
    BY <1>1, <1>2
  <1>4. snapshots' = {k \in snapshots : snapshotImage[k] \notin gone}
    BY <1>1, <1>2, Mapped
  <1> QED BY <1>1, <1>3, <1>4, Closes

(* The end of a session, by a client or by the GC. *)
LEMMA DeleteMaps ==
    ASSUME SerialInv, NEW s, delete_session(s), UNCHANGED <<idVars, fileVars>>
    PROVE  Abstractly
  <1>1. PICK gone : gone = {i \in images : imageSession[i] = s}
    OBVIOUS
  <1>2. gone \in SUBSET images /\ images' = images \ gone
    BY <1>1 DEF delete_session
  <1>3. snapshots' = {k \in snapshots : snapshotImage[k] \notin gone}
    BY <1>1, Mapped DEF delete_session
  <1>4. UNCHANGED <<snapshotImage, imageFile, snapshotFile>>
    BY DEF idVars, fileVars
  <1> QED BY <1>2, <1>3, <1>4, Closes

(* The directory of a session goes after the rows. *)
LEMMA PurgeMaps ==
    ASSUME SerialInv, NEW s, s \notin sessions, remove_session_dir(s),
           UNCHANGED <<tableVars, idVars>>
    PROVE  Abstractly
  <1> USE DEF tableVars, idVars
  <1>1. \A i \in images : imageSession[i] # s /\ i \in Images
    BY Mapped DEF SerialInv, IInv, ForeignKeys
  <1>2. \A i \in images : imageFile'[i] = imageFile[i]
    BY <1>1 DEF remove_session_dir
  <1>3. \A k \in snapshots : k \in Snapshots /\ imageSession[snapshotImage[k]] # s
    BY <1>1, Mapped
  <1>4. \A k \in snapshots : snapshotFile'[k] = snapshotFile[k]
    BY <1>3 DEF remove_session_dir
  <1> QED BY <1>2, <1>4, Unseen

(* A snapshot is there when it has its row. *)
LEMMA StoreMaps ==
    ASSUME SerialInv, NEW r \in Rpcs, StoreStep(r)
    PROVE  Abstractly
  <1>1. CASE ArtifactStore(r)
    BY <1>1, ArtifactStoreDoes, Unseen DEF Silent
  <1>2. CASE SnapshotStore(r)
    <2>1. PICK k \in Snapshots \ Taken :
            /\ snapshotImage' = [snapshotImage EXCEPT ![k] = img(r)]
            /\ snapshotFile' = [snapshotFile EXCEPT ![k] = buf[r]]
      BY <1>2, SnapshotStoreDoes
    <2>2. /\ snapshotImage \in [Snapshots -> Images \cup {None}]
          /\ snapshotFile \in [Snapshots -> {None} \cup Contents]
      BY TypeParts DEF SerialInv, IInv, IdType, FileType
    <2>3. UNCHANGED <<images, snapshots, imageFile>>
      BY <1>2, SnapshotStoreDoes
    <2>4. k \notin snapshots
      BY Mapped, StorageAssumption DEF Taken
    <2>5. \A h \in snapshots : /\ snapshotImage'[h] = snapshotImage[h]
                               /\ snapshotFile'[h] = snapshotFile[h]
      BY <2>1, <2>2, <2>4, Mapped
    <2> QED BY <2>3, <2>5, Unseen
  <1>3. CASE SnapshotInsert(r)
    <2>1. /\ pc[r] = "snap_insert"
          /\ UNCHANGED <<images, imageFile, snapshotImage, snapshotFile>>
      BY <1>3, SnapshotInsertDoes
    <2>2. CASE Silent
      BY <2>2, Unseen DEF Silent
    <2>3. CASE /\ snapshots' = snapshots \cup {frame[r].snapshot}
               /\ snapshotImage[frame[r].snapshot] \in images
      <3>1. PICK i, k : i = img(r) /\ k = frame[r].snapshot
        OBVIOUS
      <3>2. /\ i \in Images /\ HandlerOK(r) /\ StoredFirst(r)
        BY <2>1, <3>1, OnItsImage DEF ImageLabels
      <3>3. k \in Snapshots /\ snapshotImage[k] = i /\ i \in images
        BY <2>1, <2>3, <3>1, <3>2 DEF StoredFirst
      <3>4. Live(i)
        BY <3>3 DEF SerialInv, IInv, ForeignKeys, Live
      <3>5. snapshotFile[k] = imageFile[i]
        BY <2>1, <3>1, <3>2, <3>4 DEF HandlerOK, SnapshotOK
      <3>6. CASE k \in snapshots
        BY <2>1, <2>3, <3>1, <3>6, Unseen
      <3>7. CASE k \notin snapshots
        <4>1. i \in Store!Live /\ k \notin Store!Kept /\ StoreOf[i] = imageFile[i]
          BY <3>3, <3>7, Mapped DEF Store!Live, Store!Kept, StoreOf, SavedOf
        <4>2. StoreOf' = StoreOf
          BY <2>1 DEF StoreOf
        <4>3. SavedOf' = [SavedOf EXCEPT ![k] = <<i, StoreOf[i]>>]
          BY <2>1, <2>3, <3>1, <3>3, <3>5, <4>1 DEF SavedOf
        <4>4. Store!Snapshot(i, k)
          BY <4>1, <4>2, <4>3 DEF Store!Snapshot, StoreOf, SavedOf
        <4> QED BY <3>2, <3>3, <4>4 DEF Abstractly, Store!Next
      <3> QED BY <3>6, <3>7
    <2> QED BY <1>3, <2>2, <2>3, SnapshotInsertDoes
  <1> QED BY <1>1, <1>2, <1>3 DEF StoreStep
-----------------------------------------------------------------------------
(* The steps that it does not see, and those of sessions. *)

(* Looks, trees, calls, faults and crashes. *)
LEMMA UnseenSteps ==
    ASSUME SerialInv, ~Overlap, NEW r \in Rpcs,
           \/ Call(r) \/ SilentStep(r) \/ CacheStep(r) \/ Touch(r) \/ OpenCheck(r)
           \/ IoError(r) \/ Cancel(r)
    PROVE  Abstractly
  <1>1. UNCHANGED <<images, snapshots, imageFile, snapshotImage, snapshotFile>>
    <2>1. CASE Call(r) \/ SilentStep(r) \/ IoError(r) \/ Cancel(r)
      BY <2>1, CallDoes, SilentSteps, FaultSteps DEF Silent
    <2>2. CASE CacheStep(r) \/ Touch(r)
      BY <2>2, CacheSteps, TouchDoes DEF Frozen
    <2>3. CASE OpenCheck(r)
      BY <2>3, OpenCheckDoes DEF Silent
    <2> QED BY <2>1, <2>2, <2>3
  <1> QED BY <1>1, Unseen

(* atomic_write and remove_file. *)
LEMMA FileMaps ==
    ASSUME AckedInv, NEW r \in Rpcs, FileStep(r)
    PROVE  Abstractly
  <1>0. SerialInv
    BY DEF AckedInv
  <1>1. CASE WriteOpen(r) \/ WriteBytes(r)
    BY <1>0, <1>1, WriteOpenDoes, WriteBytesDoes, Unseen
  <1>2. CASE WriteRename(r)
    BY <1>2, RenameMaps
  <1>3. CASE CloseFile(r)
    <2>1. /\ pc[r] = "close_file" /\ OthersSpared(r)
          /\ UNCHANGED <<sessions, images, snapshots, imageSession, snapshotImage, snapshotFile>>
      BY <1>0, <1>3, CloseFileDoes
    <2>2. img(r) \notin images
      BY <1>0, <2>1 DEF SerialInv, IInv, InFlightOK, StoredFirst
    <2>3. ASSUME NEW j \in images PROVE imageFile'[j] = imageFile[j]
      <3>1. j \in Images /\ Spared(j)
        BY <1>0, <2>1, <2>2, Mapped DEF OthersSpared
      <3>2. Live(j)'
        BY <1>0, <2>1 DEF SerialInv, IInv, ForeignKeys, Live
      <3> QED BY <3>1, <3>2 DEF Spared
    <2> QED BY <1>0, <2>1, <2>3, Unseen
  <1> QED BY <1>1, <1>2, <1>3 DEF FileStep

(* Sessions. *)
LEMMA SessionMaps ==
    ASSUME SerialInv, NEW r \in Rpcs, SessionOf(r)
    PROVE  Abstractly
  <1>1. CASE create_session(r)
    BY <1>1, Unseen DEF create_session, insert_session, fileVars
  <1>2. CASE destroy_rows(r)
    BY <1>2, DeleteMaps DEF destroy_rows
  <1>3. CASE destroy_files(r)
    <2>1. frame[r].session \notin sessions
      BY <1>3 DEF destroy_files, At, SerialInv, IInv, IdsOK
    <2> QED BY <1>3, <2>1, PurgeMaps DEF destroy_files
  <1> QED BY <1>1, <1>2, <1>3 DEF SessionOf

(* The GC and the clock. *)
LEMMA WorldMaps ==
    ASSUME SerialInv, World
    PROVE  Abstractly
  <1>1. CASE GcTick \/ Tick \/ UNCHANGED vars
    BY <1>1, Unseen DEF GcTick, Tick, vars, tableVars, idVars, fileVars
  <1>2. ASSUME NEW s \in Sessions, GcDelete(s) PROVE Abstractly
    BY <1>2, DeleteMaps DEF GcDelete
  <1>3. CASE GcPurge
    <2>1. PICK s : s = gcPurging
      OBVIOUS
    <2>2. s \notin sessions /\ remove_session_dir(s) /\ UNCHANGED <<tableVars, idVars>>
      BY <1>3, <2>1 DEF GcPurge, SerialInv, IInv, IdsOK
    <2> QED BY <2>2, PurgeMaps
  <1> QED BY <1>1, <1>2, <1>3 DEF World, GcStep

(* Every step of the engine is a step of the abstract store or none. *)
LEMMA NextMaps ==
    ASSUME ~Overlap, AckedInv, [Next]_vars
    PROVE  Abstractly
  <1>0. SerialInv
    BY DEF AckedInv
  <1>1. ASSUME NEW r \in Rpcs,
               \/ Call(r) \/ SilentStep(r) \/ CacheStep(r) \/ Touch(r) \/ OpenCheck(r)
               \/ IoError(r) \/ Cancel(r)
        PROVE  Abstractly
    BY <1>0, <1>1, UnseenSteps
  <1>2. ASSUME NEW r \in Rpcs, FileStep(r) \/ SessionOf(r) \/ RowStep(r) \/ StoreStep(r)
        PROVE  Abstractly
    BY <1>0, <1>2, FileMaps, SessionMaps, OpenRowMaps, CloseDeleteMaps, StoreMaps DEF RowStep
  <1>3. CASE World
    BY <1>0, <1>3, WorldMaps
  <1>4. CASE Crash
    BY <1>0, <1>4, Unseen DEF Crash, tableVars, idVars
  <1> QED BY <1>1, <1>2, <1>3, <1>4, KindsOfSteps

(* The engine implements ImageStore: whatever handlers, GC, crashes, failing system
   calls and dropped calls do, the file behind a row changes in one step, by growing
   or by going back to one of its snapshots.                                       *)
THEOREM ImplementsStoreTheorem ==
    ASSUME ~Overlap, RestoreCompletes
    PROVE  Spec => ImplementsStore
  <1>1. Init => Store!Init
    BY DEF Init, StorageInit, Store!Init
  <1>2. AckedInv /\ [Next]_vars => [Store!Next]_<<StoreOf, SavedOf>>
    BY NextMaps DEF Abstractly
  <1> QED BY <1>1, <1>2, AckedTheorem, PTL DEF Spec, ImplementsStore, Store!Spec, StoreOf, SavedOf
=============================================================================
