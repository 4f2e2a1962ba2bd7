SPECIFICATION Spec
CONSTANTS
    Symbols = {A, B}
    Registered = {A}
    Seasoned = {B}
    Filings = {f1, f2}
    Items = {i1}
    SymbolOf <- MCSymbolOf
    Stamped = {f1}
    Ahead = {i1}
    DayLength = 3
    SessionOpen = 0
    SessionClose = 1
    Interval = 0
    MaxAge = 1
    Lookback = 1
    MaxTime = 4
    MaxCycles = 2
    MaxDeaths = 1
    Null = Null
INVARIANTS
    NoLookAhead
    NothingIsMissed
    RepeatsHaveACause
CHECK_DEADLOCK FALSE
