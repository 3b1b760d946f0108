\* Two undos and changes around them, one foreign edit, one failure or restart.
SPECIFICATION Spec
CONSTANTS
    Object = {o1}
    Value = {v1, v2}
    Absent = Absent
    Request = {r1, r2}
    MaxEntries = 2
    MaxForeign = 1
    MaxSetbacks = 1
CHECK_DEADLOCK FALSE
INVARIANTS
    UndoneOnce
PROPERTIES
    JournalHoldsChanges
    EntriesLeaveApplied
    PromiseSpec

