\* A shipped and a user's extension, three operations around the rest.
SPECIFICATION Spec
CONSTANTS
    a = a
    b = b
    done = done
    complete = complete
    plan = plan
    Ext = {a, b}
    Name = {done, complete, plan}
    Core = {done}
    CoreAliases <- MCCoreAliases
    Bundled = {a}
    Scripts <- MCScripts
    MaxOps = 3
    MaxDisk = 1
    MaxFaults = 1
    MaxOther = 1
    MaxLate = 1
    None = None
INVARIANTS
    WordsAreUnambiguous
    TeardownIsComplete
    PreferencesAreKept
CHECK_DEADLOCK FALSE
