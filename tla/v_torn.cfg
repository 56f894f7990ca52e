\* Two handlers write one image.
CONSTANTS
    Sessions = {s1}
    Images = {i1}
    Snapshots = {}
    Artifacts = {}
    Edits = {e1}
    Rpcs = {r1, r2}
    Torn = Torn
    None = None
    Calls = {"session_create", "image_open", "mutate"}
    Modes = {"write"}
    Overlap = TRUE
    Faults = {}
    Purge = FALSE
    TTL = 1
    MaxClock = 0
    WriteGated = {}
    SkipIfApplied = {}
    Partial = {}
    Unbuildable = {}
    Shrinking = {}
    Inserting = {}
    Removing = {}
SPECIFICATION Spec
SYMMETRY Symmetry
INVARIANTS NeverTorn
