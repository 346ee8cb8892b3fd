SPECIFICATION Spec
CONSTANTS
    Paths = {p1, p2}
    Values = {v1}
    Missing = Missing
    Workers = {w1, w2}
    None = None
    MaxSequence = 4
    MaxFaults = 2
CHECK_DEADLOCK FALSE
INVARIANTS
    TypeOK
    OneLiveWorker
    AnswerStands
    TemporariesCleaned
PROPERTIES
    AtomicFiles
    EveryCallReturns
