SPECIFICATION Spec
CONSTANTS
    k1 = k1
    k2 = k2
    k3 = k3
    s1 = s1
    s2 = s2
    Keys = {k1, k2}
    Scopes = {s1}
    ScopeOf <- OneScope
    Texts = {t1}
    Turns = {u1}
    Replies = {r1}
    Lineages = {u1}
    Refs = {d1}
    None = None
    MaxEntries = 2
    MaxAge = 1
    MaxBytes = 100
    MaxTime = 1
    MaxCommit = 1
    MaxWrites = 6
    MaxFaults = 1
INVARIANTS
    PurgeIsAtomic
