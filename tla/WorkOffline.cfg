SPECIFICATION Spec
CONSTANTS
    Task = {t1}
    Segment = {s1}
    Request = {r1}
    Remote = {}
    Operations <- WriteOperations
    Faults = {"stale"}
    ExternalEdits = TRUE
    ReadyLane = FALSE
    None = None
    Ambiguous = Ambiguous
    Unverified = Unverified
PROPERTIES ValidationIsNotBypassed
