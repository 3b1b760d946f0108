SPECIFICATION Spec
CONSTANTS
    Task = {t1}
    Segment = {s1, s2}
    Request = {r1, r2}
    Remote = {r2}
    Operations <- WriteOperations
    Faults = {"lost", "stale", "crash"}
    ExternalEdits = TRUE
    ReadyLane = FALSE
    None = None
    Ambiguous = Ambiguous
    Unverified = Unverified
SYMMETRY Symmetry
INVARIANTS IntervalsAreAccounted GrantedWorkIsKept
PROPERTIES WritesAreAuthorized
