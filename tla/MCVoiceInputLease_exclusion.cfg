SPECIFICATION Spec
CONSTANTS
    l1 = l1
    l2 = l2
    None = None
    Listeners = {l1}
    MaxListens = 3
    MaxCommands = 1
    MaxClaims = 1
    MaxLate = 1
    MaxTroubles = 1
INVARIANTS
    NeverBoth
CHECK_DEADLOCK FALSE
