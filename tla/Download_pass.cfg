SPECIFICATION Spec
CONSTANTS
    c1 = c1
    c2 = c2
    None = None
    Clients = {c1, c2}
    K = 1
    NShards = 2
    ShardBytes = 64
    Direct = {0}
    MaxVersions = 2
    MaxDownloads = 2
    MaxFaults = 1
    MaxPolls = 1
CHECK_DEADLOCK FALSE
INVARIANTS TypeOK OneVersion SteadyIsEnough ReceivedWasServed
