SPECIFICATION Spec
CONSTANTS
    Groups = {g1}
    N = 3
    Counter <- MCGroupCounter
    WSize = 2
    TTL = 1
    Tasks = {gc, t1, t2}
    GcLoop = gc
    MaxFaults = 1
    MaxRestarts = 1
CHECK_DEADLOCK FALSE
INVARIANTS TypeOK NoSelfReplay  PublishedNotOrphaned PublishedIntact
