\* One API request at a time around the lane; one failure or one restart.
SPECIFICATION FairSpec
CONSTANTS
    Ids = {i1}
    FactKeys <- MCFactKeys
    f = f
    Tasks = {t}
    Requests = {r1}
    None = None
    MaxTime = 1
    MaxLateness = 0
    MaxSnoozes = 1
    MaxSetbacks = 1
INVARIANTS
    MarkedIsSettled
    RepeatsAreExcused
    TimersAreForCurrentWork
PROPERTIES
    DueIsSettled
