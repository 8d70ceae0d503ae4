SPECIFICATION FairSpec
CONSTANTS
    m1 = m1
    m2 = m2
    None = None
    Markets = {m1, m2}
    Shards = {0, 1}
    ShardOf <- MCShardOf
    slot_count = 2
    GenerationRange = 3
    frame_queue_capacity = 3
    per_shard_queue_capacity = 2
    kMaxPendingDeltas = 1
    MaxMessages = 3
    MaxConnections = 1
    MaxLots = 1
    MaxStarts = 1
PROPERTIES
    FramesReturn
    SnapshotsArrive
CHECK_DEADLOCK FALSE
