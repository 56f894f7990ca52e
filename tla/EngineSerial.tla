---------------------------- MODULE EngineSerial ----------------------------
(***************************************************************************)
(* What the handlers of EngineServer owe to one another when clients do    *)
(* not overlap their calls on one image: the inductive invariants behind   *)
(* NeverTorn, AckedIsStored, CacheNotBehind, RestoreIsExact, SaveHasAcked, *)
(* GatedNeedsWrite, ClosedIsGone and the refinement of ImageStore.         *)
(***************************************************************************)
EXTENDS EngineServer

(* A restore that is cancelled between its rename and the eviction of the
   tree leaves a tree from before the restore behind.                      *)
RestoreCompletes == "cancel" \in Faults => "snapshot_restore" \notin Calls

Live(i) == imageSession[i] \in sessions

At_write(r) == pc[r] \in {"w_open", "w_write", "w_rename"}

-----------------------------------------------------------------------------
(* One handler per image; which handler passes which label. *)

Alone == \A r, q \in Rpcs : img(r) # None /\ img(r) = img(q) => r = q

PathOK(r) ==
    LET op == frame[r].op IN
    /\ op = "mutate" => pc[r] \in
         {"src_row", "src_read", "load_check", "load_row", "load_read", "load_insert",
          "mutate", "flush_build", "flush_size", "flush_validate",
          "w_open", "w_write", "w_rename", "flush_swap", "touch"}
    /\ op = "snapshot_restore" => pc[r] \in
         {"rest_snap", "rest_row", "rest_read", "w_open", "w_write", "w_rename",
          "rest_evict"}
    /\ op = "image_open" => pc[r] \in
         {"open_check", "w_open", "w_write", "w_rename", "open_row", "open_cache", "touch"}
    /\ At_write(r) => op \in {"image_open", "mutate", "snapshot_restore"}
    /\ pc[r] \in {"open_check", "open_cache"} => op = "image_open"
    /\ pc[r] = "flush_swap" => op = "mutate"
    /\ pc[r] = "rest_evict" => op = "snapshot_restore"

(* The descriptor of a writer is its own tmp file, and what it renames is
   what it wrote, unless the directory of a dead session was purged.       *)
WriteOK(r) ==
    /\ pc[r] # "w_write" => fd[r] = None
    /\ pc[r] = "w_write" => \/ fd[r] = <<img(r), "tmp">>
                            \/ fd[r] = None /\ tmpFile[img(r)] = None /\ ~Live(img(r))
    /\ pc[r] = "w_rename" => \/ tmpFile[img(r)] = buf[r]
                             \/ tmpFile[img(r)] = None /\ ~Live(img(r))

(* A restore goes to a snapshot of its image, with the bytes of it. *)
RestoreOK(r) ==
    LET k == frame[r].snapshot IN
    frame[r].op = "snapshot_restore" =>
      /\ k \in Snapshots
      /\ pc[r] # "rest_snap" =>
           snapshotImage[k] = img(r) /\ (k \in snapshots \/ img(r) \notin images)
      /\ At_write(r) => buf[r] = snapshotFile[k] \/ ~Live(img(r))
      /\ pc[r] = "rest_evict" => imageFile[img(r)] = snapshotFile[k] \/ ~Live(img(r))

(* A new image is empty, and nobody has seen it, until it has its row. *)
OpenOK(r) ==
    /\ frame[r].op = "image_open" /\ pc[r] \notin {"open_check", "touch"} =>
         buf[r] = {} /\ acked[img(r)] = {} /\ cache[img(r)] = None
    /\ pc[r] = "open_row" => imageFile[img(r)] = {} \/ ~Live(img(r))
    /\ pc[r] = "open_cache" => imageFile[img(r)] \in {None, {}}

(* A snapshot is what the file holds. *)
SnapshotOK(r) ==
    /\ pc[r] = "snap_store" => buf[r] = imageFile[img(r)] \/ ~Live(img(r))
    /\ pc[r] = "snap_insert" =>
         snapshotFile[frame[r].snapshot] = imageFile[img(r)] \/ ~Live(img(r))

Unopened(i) == i \notin Opened => /\ acked[i] = {} /\ cache[i] = None
                                  /\ imageFile[i] = None /\ tmpFile[i] = None

Untorn ==
    /\ \A i \in Images : imageFile[i] # Torn /\ cache[i] # Torn
    /\ \A k \in Snapshots : snapshotFile[k] # Torn
    /\ \A r \in Rpcs : buf[r] # Torn

HandlerOK(r) == PathOK(r) /\ WriteOK(r) /\ RestoreOK(r) /\ OpenOK(r) /\ SnapshotOK(r)

(* The inductive invariant behind NeverTorn and RestoreIsExact. *)
SerialInv ==
    /\ IInv /\ Alone /\ Untorn
    /\ \A r \in Rpcs : HandlerOK(r)
    /\ \A i \in Images : Unopened(i)

-----------------------------------------------------------------------------
(* Where the edits answered with Ok are.  An edit that skips its flush when
   it changes no byte is not counted: it can be in the tree alone.         *)

Counted(i) == acked[i] \ SkipIfApplied

Evicting(i) == \E r \in Rpcs : img(r) = i /\ pc[r] = "rest_evict"

(* The file has the edits, and the tree has those of the file and more. *)
ImageHasAcked(i) ==
    /\ imageFile[i] # None => Counted(i) \subseteq imageFile[i]
    /\ cache[i] # None /\ ~Evicting(i) =>
         /\ Counted(i) \subseteq cache[i]
         /\ imageFile[i] # None => imageFile[i] \subseteq cache[i]

Flushing(r) ==
    \/ pc[r] \in {"flush_size", "flush_validate"}
    \/ frame[r].op = "mutate" /\ At_write(r)

(* The bytes a handler is about to store, or to make the tree of, have them. *)
BytesHaveAcked(r) ==
    LET i == img(r) e == frame[r].edit IN
    /\ pc[r] \in {"load_insert", "open_cache", "flush_swap"} =>
         Counted(i) \subseteq buf[r] /\ imageFile[i] \in {None, buf[r]}
    /\ pc[r] = "save" => Counted(i) \subseteq buf[r]
    /\ pc[r] = "flush_build" /\ cache[i] # None => e \in cache[i]
    /\ Flushing(r) => /\ Counted(i) \subseteq buf[r] /\ e \in buf[r]
                      /\ imageFile[i] # None => imageFile[i] \subseteq buf[r]
                      /\ cache[i] # None => buf[r] \subseteq cache[i]
    /\ pc[r] = "flush_swap" => e \in buf[r]
    /\ pc[r] = "touch" /\ frame[r].op = "mutate" =>
         \/ e \in SkipIfApplied
         \/ /\ cache[i] # None => e \in cache[i]
            /\ imageFile[i] # None => e \in imageFile[i]

(* No handler serves what no client asks for. *)
Called(r) == frame[r].op \in Calls \cup {"none"}

(* The inductive invariant behind AckedIsStored, CacheNotBehind, SaveHasAcked
   and the refinement of ImageStore.                                       *)
AckedInv ==
    /\ SerialInv
    /\ \A r \in Rpcs : Called(r)
    /\ \A i \in Images : ImageHasAcked(i)
    /\ \A r \in Rpcs : BytesHaveAcked(r)
-----------------------------------------------------------------------------
(* Closed images, where no process dies, no call is dropped and no system
   call fails.                                                             *)

Rowless(i) == i \in Opened /\ i \notin images /\ Live(i)

(* The file and the tree of an image without a row are those of the handler
   that opens or closes it.                                                *)
LeftoverOK(i) ==
    Rowless(i) =>
      /\ imageFile[i] # None =>
           \E r \in Rpcs : img(r) = i /\ pc[r] \in {"open_row", "close_file"}
      /\ cache[i] # None =>
           \E r \in Rpcs : img(r) = i /\ pc[r] \in {"close_file", "close_evict"}

(* A handler called on an image without a row gets no further than the look
   for the row.                                                            *)
RowlessOK(r) ==
    img(r) # None /\ Rowless(img(r)) =>
      \/ Opening(r)
      \/ pc[r] \in {"close_file", "close_evict", "src_row", "src_read", "load_check",
                    "load_row", "close_row", "snap_row", "rest_snap"}

(* The inductive invariant behind ClosedIsGone. *)
ClosedInv ==
    /\ SerialInv
    /\ \A i \in Images : LeftoverOK(i)
    /\ \A r \in Rpcs : RowlessOK(r)

-----------------------------------------------------------------------------
(* The two that need no order among the calls. *)

Clean(i, c) ==
    imageMode[i] = "read" /\ c \notin {None, Torn} => c \cap WriteGated = {}

(* Whatever can become the file of an image opened read-only is clean. *)
GatedFiles ==
    /\ \A i \in Images : /\ Clean(i, imageFile[i]) /\ Clean(i, tmpFile[i])
                         /\ Clean(i, cache[i])
                         /\ i \notin Opened => imageMode[i] = "read"
    /\ \A k \in Taken : Clean(snapshotImage[k], snapshotFile[k])

GatedHandler(r) ==
    /\ img(r) # None => Clean(img(r), buf[r])
    /\ pc[r] = "idle" => buf[r] = None
    /\ fd[r] # None => pc[r] = "w_write" /\ fd[r][1] = img(r)
    /\ pc[r] \in {"rest_row", "rest_read"} =>
         snapshotImage[frame[r].snapshot] = img(r) /\ frame[r].snapshot \in Taken

(* The inductive invariant behind GatedNeedsWrite. *)
GatedInv == IInv /\ GatedFiles /\ \A r \in Rpcs : GatedHandler(r)

(* The inductive invariant behind FilesKept: nobody is about to purge. *)
KeepsInv ==
    /\ IInv
    /\ ~Purge => gcPurging = None /\ \A r \in Rpcs : pc[r] # "destroy_files"
=============================================================================
