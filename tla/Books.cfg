SPECIFICATION Spec
CONSTANTS
    f1 = f1
    f2 = f2
    c1 = c1
    Executions = {f1, f2}
    Activities = {c1}
    CatFees = {c1}
    Amount <- MCAmount
    Funds = 10
    DayLength = 2
    Runs = {r1, r2}
    MaxTime = 4
    MaxDeaths = 1
    None = None
INVARIANTS
    ReloadAgrees
    CorrectionsAreExact
CHECK_DEADLOCK FALSE
