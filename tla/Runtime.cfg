SPECIFICATION Spec
CONSTANTS
    Process = {1, 2, 3, 4}
    Client = {c1, c2}
    None = None
    MaxCalls = 2
    MaxTotal = 2
    MaxEvents = 1
INVARIANTS
    OneDaemonIsReached
    RepeatsFollowALoss
    StaleCodeIsRefused
    FailuresAreExcused
PROPERTY CallsReturn
CHECK_DEADLOCK FALSE
