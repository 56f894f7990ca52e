----------------------------- MODULE ImageStore -----------------------------
(***************************************************************************)
(* What the engine promises about stored images to clients that do not     *)
(* overlap their calls: an image is one value that changes in one step, by *)
(* edits it did not have or by going back to a snapshot of it, and it is   *)
(* there until it is closed or its session ends.  Crashes change nothing.  *)
(***************************************************************************)
EXTENDS Naturals

CONSTANTS Images, Snapshots, Edits, None

VARIABLES
    store,   \* the edits in each image, None where there is no image
    saved    \* the image and edits of each snapshot, None where there is none

Init ==
    /\ store = [i \in Images |-> None]
    /\ saved = [k \in Snapshots |-> None]

Live == {i \in Images : store[i] # None}
Kept == {k \in Snapshots : saved[k] # None}

Open(i) ==
    /\ i \notin Live
    /\ store' = [store EXCEPT ![i] = {}]
    /\ UNCHANGED saved

(* The edit of one call, or with it edits of earlier calls that failed. *)
Commit(i) ==
    /\ i \in Live
    /\ \E more \in SUBSET Edits : store' = [store EXCEPT ![i] = @ \cup more]
    /\ UNCHANGED saved

Snapshot(i, k) ==
    /\ i \in Live /\ k \notin Kept
    /\ saved' = [saved EXCEPT ![k] = <<i, store[i]>>]
    /\ UNCHANGED store

Restore(i, k) ==
    /\ i \in Live /\ k \in Kept
    /\ saved[k][1] = i
    /\ store' = [store EXCEPT ![i] = saved[k][2]]
    /\ UNCHANGED saved

(* An image goes with its snapshots, a session with all its images. *)
Close(gone) ==
    /\ store' = [i \in Images |-> IF i \in gone THEN None ELSE store[i]]
    /\ saved' = [k \in Snapshots |->
                   IF k \in Kept /\ saved[k][1] \in gone THEN None ELSE saved[k]]

Next ==
    \/ \E i \in Images : Open(i) \/ Commit(i)
    \/ \E i \in Images, k \in Snapshots : Snapshot(i, k) \/ Restore(i, k)
    \/ \E gone \in SUBSET Live : Close(gone)

Spec == Init /\ [][Next]_<<store, saved>>
=============================================================================
