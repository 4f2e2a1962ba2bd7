SPECIFICATION Spec
CONSTANTS
    Symbols = {"a", "b"}
    Allowed = {"a", "b"}
    MaxPositionPct = 50
    MaxSectorPct = 100
    ReservePct = 20
    ReserveFloor = 1
    MaxFilings = 2
    MaxFiled = 2
    Scores = {1, 2, 9}
    Infinite = 9
    Threshold = 1
    Brake = 1
    MaxAnalyses = 2
    MaxDecisions = 1
    HardStop = 4
    Estimate = 1
    RealCosts = {1, 2}
    Funds = 10
    HoldSessions = 1
    DaySlots = 2
    MaxTime = 3
    MaxRequests = 3
    MaxDeaths = 1
INVARIANTS
    PaidOncePerDocument
    RepeatsAreDeaths
    MonthIsBounded
PROPERTIES
    RequestsFitTheCash
    CapReadsTheFile
