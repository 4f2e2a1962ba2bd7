SPECIFICATION FairSpec
CONSTANTS
    Ours = {f1, f2, f3, c1, c2}
    Theirs = {}
    Fills = {f1, f2, f3}
    o1 = o1
    OrderOf <- MCOrderOf
    Malformed = {c2}
    Untimed = {f3}
    PageSize = 3
    MaxRetries = 1
    MaxFaults = 1
    None = None
INVARIANTS
    WholeFeedIsRead
PROPERTIES
    EveryActivityIsStored
