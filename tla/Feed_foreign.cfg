SPECIFICATION Spec
CONSTANTS
    Ours = {f1, f2, c1, c2}
    Theirs = {x1}
    Fills = {f1, f2}
    o1 = o1
    OrderOf <- MCOrderOf
    Malformed = {}
    Untimed = {}
    PageSize = 2
    MaxRetries = 1
    MaxFaults = 1
    None = None
INVARIANTS
    NothingForeignIsStored
