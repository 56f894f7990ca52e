\* Calls on one image overlap; every fault.
CONSTANTS
    Sessions = {s1}
    Images = {i1}
    Snapshots = {k1}
    Artifacts = {}
    Edits = {e1}
    Rpcs = {r1, r2}
    Torn = Torn
    None = None
    Calls = {"session_create", "session_destroy", "image_open", "image_close", "mutate", "nodes_list", "nodes_search", "image_save", "snapshot_create", "snapshot_restore"}
    Modes = {"write"}
    Overlap = TRUE
    Faults = {"crash", "io", "cancel"}
    Purge = TRUE
    TTL = 1
    MaxClock = 0
    WriteGated = {e1}
    SkipIfApplied = {e1}
    Partial = {e1}
    Unbuildable = {}
    Shrinking = {}
    Inserting = {}
    Removing = {}
SPECIFICATION Spec
SYMMETRY Symmetry
INVARIANTS RowHasFile
