SPECIFICATION Spec
CONSTANTS
    Symbols = {"ABC"}
    Allowed = {"ABC"}
    MaxPositionPct = 30
    MaxSectorPct = 100
    ReservePct = 20
    ReserveFloor = 1
    StartDay <- DayBefore
    EndDay <- TuesdayAfter
    Deposit = 10
    Hold <- NoneOrTwoDays
    Expiration = 2
    MaxOrders = 4
    MaxProposals = 2
INVARIANTS
    BooksAgree
    LotsAreTheSharesHeld
    RipeUnlessOvertaken
CHECK_DEADLOCK FALSE
