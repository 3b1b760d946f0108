\* One API request and the flush lane; two items of any kind, one failure or restart.
SPECIFICATION FairSpec
CONSTANTS
    Requests = {r1}
    Lane = Lane
    Kinds = {"log", "post", "attach", "broken"}
    None = None
    MaxPages = 3
    MaxItems = 2
    MaxSetbacks = 1
INVARIANTS
    NothingIsDropped
    LinesAreKept
    DiaryLinesAreSingle
PROPERTIES
    AllIsDelivered
