SPECIFICATION FairSpec
CONSTANTS
    t = t
    u = u
    e = e
    x = x
    home = home
    other = other
    calendar = calendar
    w1 = w1
    Object = {t, u, e}
    Collection <- TheCollections
    Kind <- TheKind
    Home <- TheHome
    Roles <- SwitchRoles
    InitialRoles <- Both
    Existing = {t, u}
    Writer = {w1}
    Owns <- OwnsEvents
    Edited = {t, u}
    MaxRevision = 2
    MaxFaults = 1
    MaxRoleChanges = 1
    Unset = Unset
    NoRoles = NoRoles
    NoSnapshot = NoSnapshot
    Absent = Absent
    Unread = Unread
    Idle = Idle
INVARIANTS NoChangeIsLost AnsweredWriteIsShown
PROPERTIES Converges TokensComeBack
