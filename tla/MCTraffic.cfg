SPECIFICATION Spec
CONSTANTS
    None = None
    Months = 2
    Boots = 2
    MaxKernel = 4
INVARIANTS
    NoDoubleCounting
    SteadyCountIsExact
PROPERTIES
    TotalNeverShrinks
