SPECIFICATION Spec
CONSTANTS
    m1 = m1
    m2 = m2
    None = None
    Markets = {m1}
    Shards = {0, 1}
    ShardOf <- MCShardOf
    slot_count = 2
    GenerationRange = 3
    frame_queue_capacity = 2
    per_shard_queue_capacity = 2
    kMaxPendingDeltas = 1
    MaxMessages = 4
    MaxConnections = 2
    MaxLots = 1
    MaxStarts = 2
INVARIANTS
    FrameOwnership
    BookMatchesExchange
CHECK_DEADLOCK FALSE
