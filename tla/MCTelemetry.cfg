SPECIFICATION Spec
CONSTANTS
    None = None
    PollEvery = 1
    ListTakes = 1
    BusyTakes = 1
    CollectTakes = 1
    MaxBytes = 3
    MaxSessions = 2
CHECK_DEADLOCK FALSE
INVARIANTS
    CompleteIsCurrent
PROPERTIES
    EveryByteInOneRate
