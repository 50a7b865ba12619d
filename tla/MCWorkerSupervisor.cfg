SPECIFICATION FairSpec
CONSTANTS
    None = None
    Keys = {k1}
    Configs = {c1, c2}
    Slots = {s1, s2}
CHECK_DEADLOCK FALSE
INVARIANTS
    TypeOK
    OneProcessWhileServing
    FanOutMatches
PROPERTIES
    StoppingEnds
