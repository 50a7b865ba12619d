SPECIFICATION FairSpec
CONSTANTS
    Paths = {a, b}
    Caps <- MCCaps
    ReservationTTL = 4
    ConnectWithin = 1
    PollWithin = 1
INVARIANTS
    TypeOK
    EveryPublisherCounted
PROPERTIES
    NoOverAdmission
    CountComesRight
