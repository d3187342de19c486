SPECIFICATION Spec
CONSTANTS
    Clients = {c1, c2}
    Paths <- MCPaths
    Uploads = {1, 2}
    Blocks <- MCTwoAndOne
    DataShards = 1
    TotalShards = 2
    MaxFaults = 1
    MaxMishaps = 1
SYMMETRY MCSymmetry
INVARIANTS TypeOK ListedReadable DeletedStaysGone
PROPERTIES ReadsAreAsStored
