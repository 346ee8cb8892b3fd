SPECIFICATION Spec
CONSTANTS
    k1 = k1
    k2 = k2
    k3 = k3
    s1 = s1
    s2 = s2
    Keys = {k1, k2}
    Scopes = {s1, s2}
    ScopeOf <- TwoScopes
    Texts = {t1}
    Turns = {u1, u2}
    Replies = {r1}
    Lineages = {u1, s1}
    Refs = {d1, d2}
    None = None
    MaxEntries = 1
    MaxAge = 1
    MaxBytes = 4
    MaxTime = 2
    MaxCommit = 1
    MaxWrites = 8
    MaxFaults = 1
PROPERTIES
    CorruptOnlyIfTooLarge
    FencedNeverReappears
    AdmissionKeepsPending
INVARIANT
    ReadyIsDurable
    DiskIsLoadable
