\* Images closed and sessions destroyed without --purge-artifacts, by clients and by the GC.
CONSTANTS
    Sessions = {s1}
    Images = {i1, i2}
    Snapshots = {k1}
    Artifacts = {a1}
    Edits = {e1}
    Rpcs = {r1, r2}
    Torn = Torn
    None = None
    Calls = {"session_create", "session_destroy", "image_open", "image_close", "mutate", "nodes_list", "snapshot_create", "artifact_import"}
    Modes = {"write"}
    Overlap = FALSE
    Faults = {}
    Purge = FALSE
    TTL = 0
    MaxClock = 1
    WriteGated = {}
    SkipIfApplied = {}
    Partial = {}
    Unbuildable = {}
    Shrinking = {}
    Inserting = {}
    Removing = {}
SPECIFICATION Spec
SYMMETRY Symmetry
INVARIANTS ClosedIsGone
PROPERTIES FilesKept
