SPECIFICATION Spec
CONSTANTS
    None = None
    Spare = Spare
    NumNodes = 3
    K = 1
    NShards = 2
    NChunks = 2
    Listings = {FALSE}
    MaxFaults = 1
    MaxUploads = 1
INVARIANT RepairedIsFetchable
