SPECIFICATION Spec
CONSTANTS
    None = None
    MaxBundles = 2
    MaxAttempts = 2
CONSTRAINT Explored
CHECK_DEADLOCK FALSE
INVARIANTS
    TypeOK
    OneRelay
    IdentityIsWhole
    LinkIsComplete
    SafetyNet
    FailureLeavesNoTrace
    ConfirmationHolds
