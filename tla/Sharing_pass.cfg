SPECIFICATION Spec
CONSTANTS
    u1 = u1
    f1 = f1
    p1 = p1
    p2 = p2
    None = None
    Users = {u1}
    Files = {f1}
    Procs = {p1, p2}
    MaxCalls = 4
    MaxVersions = 2
    MaxFaults = 1
INVARIANTS TypeOK LastCallHolds HandedOutOpens
PROPERTY SharedArrives
