SPECIFICATION FairWorkSpec
CONSTANTS
    Task = {t1, t2}
    InitialTasks <- Beginnings
    EditedTo <- Edited
    MaxActions = 2
    MaxEdits = 1
    MaxWorkFaults = 1
    Nothing = Nothing
INVARIANTS PointerFollowsSession
PROPERTIES WritesAreInformed StartIsForTheClicked FinishedWorkIsReleased
CHECK_DEADLOCK FALSE
