SPECIFICATION Spec
CONSTANTS
    ledger = ledger
    Files = {ledger}
    Listed <- OneFile
    Archived <- OneFile
    Backups = {b1, b2}
    Stamps = {s1}
    MaxRetries = 2
    MaxBytes = 5
    None = None
INVARIANTS
    ExitZeroMeansKept
    AlarmHasACause
PROPERTIES
    PublishedStays
CHECK_DEADLOCK FALSE
