----------------------- MODULE EngineImplementsStore ------------------------
(* EngineServer implements ImageStore when calls on one image do not overlap:
   the abstract value of an image is the file behind its row.               *)
EXTENDS MCEngineServer

Store == INSTANCE ImageStore WITH
    store <- [i \in Images |-> IF i \in images THEN imageFile[i] ELSE None],
    saved <- [k \in Snapshots |-> IF k \in snapshots
                                  THEN <<snapshotImage[k], snapshotFile[k]>>
                                  ELSE None]

(* Whatever handlers, GC, crashes, failing system calls and dropped calls do,
   the file behind a row changes as the abstract store does: in one step, by
   growing or by going back to one of its snapshots.                        *)
ImplementsStore == Store!Spec
=============================================================================
