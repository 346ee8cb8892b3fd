SPECIFICATION Spec
CONSTANTS
    l1 = l1
    l2 = l2
    None = None
    Listeners = {l1, l2}
    MaxListens = 2
    MaxCommands = 2
    MaxClaims = 1
    MaxLate = 0
    MaxTroubles = 1
INVARIANTS
    TypeOK
    CaptureIsLeased
PROPERTIES
    LeaseReturned
CHECK_DEADLOCK FALSE
