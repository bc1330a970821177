CONSTANTS
    Edits = {e1, e2}
    RemoteEdits = {r1}
    Slots = {s1}
    Resolutions = {"keep-local"}
    MaxSessions = 2
    MaxRev = 4
    None = None
SPECIFICATION Spec
CHECK_DEADLOCK FALSE
INVARIANTS
    KnownRevisionSeen
    CacheSeen
PROPERTY
    GuardedUploadKeepsHead
