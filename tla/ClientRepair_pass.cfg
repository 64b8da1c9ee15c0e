SPECIFICATION Spec
CONSTANTS
    None = None
    Spare = Spare
    NumNodes = 3
    K = 1
    NShards = 2
    NChunks = 2
    Listings = {TRUE, FALSE}
    MaxFaults = 1
    MaxUploads = 2
CONSTRAINT StillPromised
INVARIANTS TypeOK DownloadsHold
