SPECIFICATION FairSpec
CONSTANTS
    Task = {t1, t2}
    Segment = {s1, s2}
    Request = {r1}
    Remote = {}
    Operations <- ClientOperations
    Faults = {}
    ExternalEdits = FALSE
    ReadyLane = TRUE
    None = None
    Ambiguous = Ambiguous
    Unverified = Unverified
INVARIANTS WorkIsInProcess
PROPERTIES CacheHeals RequestsReturn
