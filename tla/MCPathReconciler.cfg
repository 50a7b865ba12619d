SPECIFICATION FairSpec
CONSTANT
    Paths = {a, b}
INVARIANTS
    TypeOK
    OwnershipIsKnown
PROPERTIES
    OperatorUntouched
    Converges
