SPECIFICATION Spec
CONSTANTS
    Task = {t1, t2}
    Segment = {s1, s2, s3}
    Request = {r1}
    Remote = {}
    Operations <- ClientOperations
    Faults = {"refuse", "crash"}
    ExternalEdits = FALSE
    ReadyLane = TRUE
    None = None
    Ambiguous = Ambiguous
    Unverified = Unverified
SYMMETRY Symmetry
PROPERTIES PromiseSpec
