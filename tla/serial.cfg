\* One caller per image at a time; crashes and failing system calls.
CONSTANTS
    Sessions = {s1}
    Images = {i1}
    Snapshots = {k1}
    Artifacts = {}
    Edits = {e1, e2, e3}
    Rpcs = {r1, r2}
    Torn = Torn
    None = None
    Calls = {"session_create", "session_destroy", "image_open", "image_close", "mutate", "nodes_list", "image_save", "snapshot_create", "snapshot_restore"}
    Modes = {"write"}
    Overlap = FALSE
    Faults = {"crash", "io"}
    Purge = TRUE
    TTL = 1
    MaxClock = 0
    WriteGated = {}
    SkipIfApplied = {}
    Partial = {e2}
    Unbuildable = {e3}
    Shrinking = {e3}
    Inserting = {e1}
    Removing = {e2}
SPECIFICATION Spec
SYMMETRY Symmetry
INVARIANTS AckedIsStored NeverTorn
PROPERTIES RestoreIsExact ImplementsStore
