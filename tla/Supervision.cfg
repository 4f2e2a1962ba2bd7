SPECIFICATION FairSpec
CONSTANTS
    AdvanceTargets = {"DISABLED", "RESEARCH", "PAPER", "PRODUCTION_ACTIVE", "PAUSED"}
    MaxFaults = 2
    MaxCommands = 2
    MaxPosts = 1
INVARIANTS
    RungsAreClimbed
PROPERTIES
    ClaimsAreTrue
    StatusIsEarned
    HaltHolds
    PauseEnds
    TradingEnds
CHECK_DEADLOCK FALSE
