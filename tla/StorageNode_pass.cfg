SPECIFICATION Spec
CONSTANTS
    s1 = s1
    s2 = s2
    s3 = s3
    small = small
    big = big
    r1 = r1
    None = None
    Shards = {s1, s2, s3}
    Data = {small, big}
    Size <- MCSize
    MaxShard = 3
    Donated = 4
    MaxStaged = 1
    Requests = {r1}
SYMMETRY ShardSymmetry
INVARIANTS TypeOK CapacityBound AckedIsWhole
