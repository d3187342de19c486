SPECIFICATION MerkleSpec
CONSTANTS
    a = a
    b = b
    ShardData <- MCShardData
    MaxShards = 6
CHECK_DEADLOCK FALSE
INVARIANTS RootBindsShards ProofIsAuditPath AcceptedIsTheShard
