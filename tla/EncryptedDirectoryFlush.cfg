SPECIFICATION FairSpec
CONSTANTS
    Clients = {c1, c2}
    Names <- MCNames
    Paths <- MCShortPaths
    Uploads = {u1}
    MaxFiles = 2
    MaxRestarts = 1
    MaxFaults = 1
    MaxDisconnects = 1
INVARIANTS DiskMirrorsTree
PROPERTIES AckedIsDurable RequestsAnswered
