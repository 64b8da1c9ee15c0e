SPECIFICATION FairSpec
CONSTANTS
    f1 = f1
    NumNodes = 4
    Files = {f1}
    K = 1
    NShards = 3
    Full = {3}
    MaxFaults = 2
    MaxUploads = 2
INVARIANTS TypeOK MapHolds DamageStaysPut
PROPERTY DeadShardsRepaired
