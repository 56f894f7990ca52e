\* Every call ends, and expired sessions are collected.
CONSTANTS
    Sessions = {s1}
    Images = {i1}
    Snapshots = {}
    Artifacts = {}
    Edits = {e1}
    Rpcs = {r1, r2}
    Torn = Torn
    None = None
    Calls = {"session_create", "image_open", "mutate", "nodes_list"}
    Modes = {"write"}
    Overlap = TRUE
    Faults = {}
    Purge = TRUE
    TTL = 1
    MaxClock = 2
    WriteGated = {}
    SkipIfApplied = {}
    Partial = {}
    Unbuildable = {}
    Shrinking = {}
    Inserting = {}
    Removing = {}
SPECIFICATION FairSpec
PROPERTIES ExpiredIsCollected CallEnds
