SPECIFICATION FairSpec
CONSTANTS
    Histories <- SmallHistories
    MaxLength = 3
    Funds = 26
    MaxDeaths = 1
INVARIANTS
    DoubleCountsAreKnown
    BookedByDecision
    LotsAreCovered
PROPERTIES
    PassMeansDecided
    ExecutionsAreFaced
    BooksConverge
