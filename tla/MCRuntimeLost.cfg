SPECIFICATION FairSpec
CONSTANTS
    None = None
    Paths = {a}
    MaxGeneration = 1
PROPERTIES
    CleanupHappens
