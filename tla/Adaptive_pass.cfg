SPECIFICATION Spec
CONSTANTS
    x = x
    y = y
    None = None
    Private = {f1}
    Texts = {x, y}
    Requests = {r1}
    Watch = watcher
    Contents <- MCContents
    Schemes <- MCSchemes
    Own <- MCOwn
    Length <- MCLength
    MaxCalls = 3
    MaxFaults = 1
INVARIANTS TypeOK ReadsBack OverrideEnds
CHECK_DEADLOCK FALSE
