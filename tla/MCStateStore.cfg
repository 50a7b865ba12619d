SPECIFICATION Spec
CONSTANTS
    None = None
    Generations <- MCGenerations
    Contents = {c1, c2}
    MaxTime = 2
    Skew = 1
    Pids = {p1, p2}
INVARIANTS
    ServedIsOnDisk
    StaysAvailable
PROPERTIES
    NoRollback
    NoRollbackInProcess
    ImplementsRegister
