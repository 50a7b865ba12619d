SPECIFICATION FairSpec
CONSTANTS
    None = None
    Paths = {a}
    MaxGeneration = 2
INVARIANTS
    TypeOK
PROPERTIES
    ReportsAreConsistent
    LoopsKeepUp
