SPECIFICATION Spec
CONSTANTS
    p1 = p1
    p2 = p2
    a = a
    b = b
    c = c
    head = head
    tail = tail
    None = None
    Paths = {p1, p2}
    Contents = {a, b, c}
    Text <- MCText
    Size <- MCSize
    Foreign = {}
    MaxEdits = 2
    MaxFaults = 0
INVARIANT RenamedFileIsStored
