SPECIFICATION Spec
CONSTANTS
    Modes = {"PAPER", "RESEARCH"}
    Past = 3
INVARIANTS
    CalendarFollowsRules
PROPERTIES
    SettlesAtTheNextSession
CHECK_DEADLOCK FALSE
