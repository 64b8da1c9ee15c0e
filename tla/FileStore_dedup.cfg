SPECIFICATION Spec
CONSTANTS
    c1 = c1
    c2 = c2
    h1 = h1
    p1 = p1
    n1 = n1
    n2 = n2
    None = None
    Clients = {c1, c2}
    Owners = {c1, c2}
    Owner <- MCOwner
    Contents = {h1}
    Paths = {p1}
    PathOwner <- MCPathOwner
    Length <- MCLength
    Nodes = {n1, n2}
    NShards = 2
    MaxKeys = 1
    MaxRestarts = 1
CONSTRAINT OneNodeForPaths
INVARIANTS TypeOK ConvergentBacked IndexSound
