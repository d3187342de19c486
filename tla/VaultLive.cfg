SPECIFICATION FairSpec
CONSTANTS
    Groups = {g1}
    N = 3
    Counter <- MCGroupCounter
    WSize = 2
    TTL = 1
    Tasks = {gc, t1}
    GcLoop = gc
    MaxFaults = 2
    MaxRestarts = 2
CHECK_DEADLOCK FALSE
PROPERTIES PublishedReclaimed
