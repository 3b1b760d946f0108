SPECIFICATION FairSpec
CONSTANTS
    session = session
    picture = picture
    background = background
    page = page
    Item = {session, picture}
    Texts = {session}
    Attached = {picture}
    Sessions = {session}
    Context = {background, page}
    MaxPosts = 2
    MaxFlushes = 1
    MaxFaults = 1
    MaxForeign = 1
    None = None
INVARIANTS OutboxIsTrue EntriesAreSingle UploadsAreRemembered
PROPERTIES EntriesAreKept SessionsAreDelivered
CHECK_DEADLOCK FALSE
