SPECIFICATION Spec
CONSTANTS
    s1 = s1
    s2 = s2
    g1 = g1
    g2 = g2
    Sessions = {s1, s2}
    Guilds = {g1, g2}
    GuildOf <- MCGuildOf
    KeyModes = {TRUE, FALSE}
    NoFile = NoFile
    NoHead = NoHead
    NoSig = NoSig
    None = None
    MaxTurn = 1
    MaxStamp = 3
    MaxCrashes = 1
    MaxFaults = 2
SYMMETRY Symmetry
INVARIANTS
    ResetStays
CHECK_DEADLOCK FALSE
