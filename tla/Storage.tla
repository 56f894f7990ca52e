------------------------------ MODULE Storage ------------------------------
(***************************************************************************)
(* What outlives an engine process: the SQLite tables of storage/mod.rs    *)
(* and the files below data_dir/sessions.                                  *)
(*                                                                         *)
(* A flash image is abstracted to the set of edits that have been applied  *)
(* to the bytes a client opened ({} is the opened image itself).  Torn     *)
(* stands for a file that has been truncated and not written yet.          *)
(*                                                                         *)
(* Rows and files are keyed by UUIDs (Uuid::new_v4), which are never       *)
(* reused: the columns that never change after the INSERT (session_id,     *)
(* mode, image_id) are functions of the id, None until the id is minted.   *)
(***************************************************************************)
EXTENDS Naturals, FiniteSets

CONSTANTS
    Sessions,    \* session ids
    Images,      \* image ids
    Snapshots,   \* snapshot ids
    Artifacts,   \* artifact ids
    Edits,       \* the edits that clients ask for
    Rpcs,        \* the handlers that can run at a time
    Torn,        \* the content of a truncated file
    None         \* no id, no file, no tree, no bytes

Contents == {Torn} \cup SUBSET Edits

ASSUME StorageAssumption ==
    /\ None \notin Sessions \cup Images \cup Snapshots \cup Artifacts
    /\ None # Torn
    /\ None \notin Images \X {"tmp", "image"} /\ None \notin Images \X Contents
    /\ \A c \in SUBSET Edits : c # None /\ c # Torn

VARIABLES
    (* tables: the ids of the rows, and the column the GC reads *)
    sessions, images, snapshots, artifacts, lastActivity,
    (* constant columns of the ids minted so far *)
    minted, imageSession, imageMode, snapshotImage, artifactSession,
    (* files: the content of each path, None where there is no file *)
    imageFile, tmpFile, snapshotFile, artifactFile,
    (* what the descriptor a handler has open in atomic_write refers to *)
    fd

tableVars == <<sessions, images, snapshots, artifacts, lastActivity>>
idVars    == <<minted, imageSession, imageMode, snapshotImage, artifactSession>>
fileVars  == <<imageFile, tmpFile, snapshotFile, artifactFile, fd>>

Fds == (Images \X {"tmp", "image"}) \cup {None}

StorageTypeOK ==
    /\ sessions \subseteq Sessions
    /\ images \subseteq Images
    /\ snapshots \subseteq Snapshots
    /\ artifacts \subseteq Artifacts
    /\ lastActivity \in [Sessions -> Nat]
    /\ minted \subseteq Sessions
    /\ imageSession \in [Images -> Sessions \cup {None}]
    /\ imageMode \in [Images -> {"read", "write"}]
    /\ snapshotImage \in [Snapshots -> Images \cup {None}]
    /\ artifactSession \in [Artifacts -> Sessions \cup {None}]
    /\ imageFile \in [Images -> {None} \cup Contents]
    /\ tmpFile \in [Images -> {None} \cup Contents]
    /\ snapshotFile \in [Snapshots -> {None} \cup Contents]
    /\ artifactFile \in [Artifacts -> BOOLEAN]
    /\ fd \in [Rpcs -> Fds]

(* An empty data directory: open_db has just created the schema. *)
StorageInit ==
    /\ sessions = {} /\ images = {} /\ snapshots = {} /\ artifacts = {}
    /\ lastActivity = [s \in Sessions |-> 0]
    /\ minted = {}
    /\ imageSession = [i \in Images |-> None]
    /\ imageMode = [i \in Images |-> "read"]
    /\ snapshotImage = [k \in Snapshots |-> None]
    /\ artifactSession = [a \in Artifacts |-> None]
    /\ imageFile = [i \in Images |-> None]
    /\ tmpFile = [i \in Images |-> None]
    /\ snapshotFile = [k \in Snapshots |-> None]
    /\ artifactFile = [a \in Artifacts |-> FALSE]
    /\ fd = [r \in Rpcs |-> None]

-----------------------------------------------------------------------------
(* Tables (storage/mod.rs).  Every method runs under the db mutex, so each
   is one step; PRAGMA foreign_keys is ON.                                 *)

insert_session(s, t) ==
    /\ sessions' = sessions \cup {s}
    /\ lastActivity' = [lastActivity EXCEPT ![s] = t]
    /\ UNCHANGED <<images, snapshots, artifacts>>

(* An UPDATE of a row that is gone changes nothing. *)
touch_session(s, t) ==
    /\ lastActivity' = IF s \in sessions
                       THEN [lastActivity EXCEPT ![s] = t]
                       ELSE lastActivity
    /\ UNCHANGED <<sessions, images, snapshots, artifacts>>

(* The DELETE of the session row cascades to images and artifacts, the one
   of an image row to its snapshots (schema.rs).                           *)
delete_session(s) ==
    /\ sessions' = sessions \ {s}
    /\ images' = {i \in images : imageSession[i] # s}
    /\ snapshots' = {k \in snapshots : imageSession[snapshotImage[k]] # s}
    /\ artifacts' = {a \in artifacts : artifactSession[a] # s}
    /\ UNCHANGED lastActivity

insert_image(i) ==
    /\ imageSession[i] \in sessions
    /\ images' = images \cup {i}
    /\ UNCHANGED <<sessions, snapshots, artifacts, lastActivity>>

(* Mutant: the snapshots of a closed image stay. *)
delete_image_alone(i) ==
    /\ images' = images \ {i}
    /\ UNCHANGED <<sessions, snapshots, artifacts, lastActivity>>

delete_image(i) ==
    /\ images' = images \ {i}
    /\ snapshots' = {k \in snapshots : snapshotImage[k] # i}
    /\ UNCHANGED <<sessions, artifacts, lastActivity>>

insert_image_snapshot(k) ==
    /\ snapshotImage[k] \in images
    /\ snapshots' = snapshots \cup {k}
    /\ UNCHANGED <<sessions, images, artifacts, lastActivity>>

insert_artifact(a) ==
    /\ artifactSession[a] \in sessions
    /\ artifacts' = artifacts \cup {a}
    /\ UNCHANGED <<sessions, images, snapshots, lastActivity>>

list_expired(t, ttl) == {s \in sessions : lastActivity[s] + ttl < t}

-----------------------------------------------------------------------------
(* Files (storage/image.rs, storage/artifact.rs). *)

(* atomic_write(path, bytes) is three system calls that matter: the open of
   <image>.bin.tmp (O_CREAT|O_TRUNC), the write through the descriptor and
   the rename.  The tmp name is a function of the image, so two handlers
   that write the same image meet on one file: an open truncates what the
   other one wrote, and a descriptor follows its file through a rename.    *)
open_tmp(r, i) ==
    /\ tmpFile' = [tmpFile EXCEPT ![i] = Torn]
    /\ fd' = [fd EXCEPT ![r] = <<i, "tmp">>]
    /\ UNCHANGED <<imageFile, snapshotFile, artifactFile>>

(* A write to a file that has lost its last name changes no path. *)
write_fd(r, bytes) ==
    /\ tmpFile' = [i \in Images |->
                     IF fd[r] = <<i, "tmp">> THEN bytes ELSE tmpFile[i]]
    /\ imageFile' = [i \in Images |->
                     IF fd[r] = <<i, "image">> THEN bytes ELSE imageFile[i]]
    /\ fd' = [fd EXCEPT ![r] = None]
    /\ UNCHANGED <<snapshotFile, artifactFile>>

rename_tmp(i) ==
    /\ tmpFile[i] # None
    /\ imageFile' = [imageFile EXCEPT ![i] = tmpFile[i]]
    /\ tmpFile' = [tmpFile EXCEPT ![i] = None]
    /\ fd' = [r \in Rpcs |-> CASE fd[r] = <<i, "tmp">>   -> <<i, "image">>
                              [] fd[r] = <<i, "image">> -> None
                              [] OTHER -> fd[r]]
    /\ UNCHANGED <<snapshotFile, artifactFile>>

remove_image_file(i) ==
    /\ imageFile' = [imageFile EXCEPT ![i] = None]
    /\ fd' = [r \in Rpcs |-> IF fd[r] = <<i, "image">> THEN None ELSE fd[r]]
    /\ UNCHANGED <<tmpFile, snapshotFile, artifactFile>>

(* The path of a snapshot is as fresh as its id, so no other writer can meet
   its tmp file: the atomic_write is one step.                             *)
store_snapshot_file(k, bytes) ==
    /\ snapshotFile' = [snapshotFile EXCEPT ![k] = bytes]
    /\ UNCHANGED <<imageFile, tmpFile, artifactFile, fd>>

store_artifact_file(a) ==
    /\ artifactFile' = [artifactFile EXCEPT ![a] = TRUE]
    /\ UNCHANGED <<imageFile, tmpFile, snapshotFile, fd>>

(* remove_dir_all of sessions/<s>: images, tmp files, snapshots, artifacts. *)
remove_session_dir(s) ==
    /\ imageFile' = [i \in Images |->
                       IF imageSession[i] = s THEN None ELSE imageFile[i]]
    /\ tmpFile' = [i \in Images |->
                       IF imageSession[i] = s THEN None ELSE tmpFile[i]]
    /\ snapshotFile' = [k \in Snapshots |->
                       IF /\ snapshotImage[k] # None
                          /\ imageSession[snapshotImage[k]] = s
                       THEN None ELSE snapshotFile[k]]
    /\ artifactFile' = [a \in Artifacts |->
                       artifactFile[a] /\ artifactSession[a] # s]
    /\ fd' = [r \in Rpcs |->
                       IF fd[r] # None /\ imageSession[fd[r][1]] = s
                       THEN None ELSE fd[r]]
=============================================================================
