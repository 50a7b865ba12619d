SPECIFICATION ContentSpec
CONSTANTS
    Yes = Yes
    No = No
    Malformed = Malformed
    Unreadable = Unreadable
    None = None
    Payloads <- MCPayloads
CHECK_DEADLOCK FALSE
INVARIANTS
    AcceptedCanBeServed
PROPERTIES
    KeptIfAndOnlyIfSame
