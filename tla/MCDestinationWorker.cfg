SPECIFICATION WorkerFairSpec
CONSTANTS
    Backoffs <- MCBackoffs
    StallAfter = 2
    Grace = 1
    ResetAfter = 4
    JoinTakes = 1
    PopenTakes = 1
    MaxTotal = 2
CHECK_DEADLOCK FALSE
INVARIANTS
    WorkerTypeOK
    SilenceIsBounded
    StopIsPrompt
PROPERTIES
    NoFalseStall
    RestartsArePaced
    ImplementsWorkerLife
