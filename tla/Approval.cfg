SPECIFICATION FairSpec
CONSTANTS
    r1 = r1
    r2 = r2
    Request = {r1}
    Mode = {"PAPER", "PAUSED"}
    MinDisplay = 1
    Expiration = 4
    DriftTolerance = 1
    MaxTime = 6
    OperatorInvalidates = TRUE
INVARIANTS
    TypeOK
    SendsAreCovered
PROPERTIES
    PostsOnlyWhenPermitted
    SpentWhileFresh
    ImplementsPromise
    LockIsReleased
CHECK_DEADLOCK FALSE
