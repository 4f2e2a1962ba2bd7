SPECIFICATION FairSpec
CONSTANTS
    MaxCount = 5
    MaxFaults = 1
INVARIANTS
    CountMeansAlerted
PROPERTIES
    StuckIsTold
CHECK_DEADLOCK FALSE
