SPECIFICATION Spec
CONSTANTS
    x = x
    y = y
    None = None
    Private = {f1}
    Texts = {x, y}
    Requests = {r1}
    Watch = watcher
    Contents <- MCContents
    Schemes <- MCSchemes
    Own <- MCOwn
    Length <- MCLength
    MaxCalls = 2
    MaxFaults = 0
INVARIANTS UnchangedKeepShards
CHECK_DEADLOCK FALSE
