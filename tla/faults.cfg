\* One caller per image at a time; calls dropped where they await, artifacts, and a GC that purges.
CONSTANTS
    Sessions = {s1}
    Images = {i1}
    Snapshots = {}
    Artifacts = {a1}
    Edits = {e1, e2}
    Rpcs = {r1, r2}
    Torn = Torn
    None = None
    Calls = {"session_create", "image_open", "mutate", "nodes_list", "image_save", "node_extract", "artifact_import", "artifact_export"}
    Modes = {"read", "write"}
    Overlap = FALSE
    Faults = {"crash", "io", "cancel"}
    Purge = TRUE
    TTL = 0
    MaxClock = 1
    WriteGated = {e1}
    SkipIfApplied = {}
    Partial = {}
    Unbuildable = {}
    Shrinking = {e2}
    Inserting = {e1}
    Removing = {}
SPECIFICATION Spec
SYMMETRY Symmetry
INVARIANTS AckedIsStored CacheNotBehind GatedNeedsWrite
PROPERTIES SaveHasAcked
