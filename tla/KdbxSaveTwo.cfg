CONSTANTS
    Entries = {e1}
    Binaries = {b1}
    Saves = {s1, s2}
    MaxSalts = 2
    None = None
SPECIFICATION Spec
CHECK_DEADLOCK FALSE
INVARIANT
    ReturnedFileOpens
