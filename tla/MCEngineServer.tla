--------------------------- MODULE MCEngineServer ---------------------------
(* EngineServer for TLC: ids of one kind are interchangeable. *)
EXTENDS EngineServer, TLC

Symmetry == Permutations(Rpcs) \cup Permutations(Images) \cup Permutations(Sessions)
              \cup Permutations(Snapshots) \cup Permutations(Artifacts)
=============================================================================
