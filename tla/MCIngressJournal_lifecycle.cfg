SPECIFICATION Spec
CONSTANTS
    k1 = k1
    k2 = k2
    k3 = k3
    s1 = s1
    s2 = s2
    Keys = {k1, k2}
    Scopes = {s1}
    ScopeOf <- OneScope
    Texts = {t1}
    Turns = {u1}
    Replies = {r1, r2}
    Lineages = {}
    Refs = {d1}
    None = None
    MaxEntries = 2
    MaxAge = 1
    MaxBytes = 100
    MaxTime = 1
    MaxCommit = 1
    MaxWrites = 8
    MaxFaults = 2
SYMMETRY Symmetry
INVARIANTS
    TypeOK
    DiskIsLoadable
    ReadyIsDurable
    InflightIsOurs
    OneExecution
PROPERTIES
    GrantIsFirstDurable
    DurableTruthIsKept
