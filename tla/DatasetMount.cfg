SPECIFICATION FairSpec
CONSTANTS
    Groups = {g1}
    N = 3
    AutoProvision = TRUE
    MaxFaults = 2
    MaxChanges = 2
    MaxRestarts = 1
INVARIANTS TypeOK UndisturbedOnDataset CachedIsRecoverable ChangeLosesOneShard
PROPERTIES MountedIfReported
CHECK_DEADLOCK FALSE
