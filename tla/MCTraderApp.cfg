CONSTANTS
    NumChannels = 2
    MaxFaults = 2
    frame_queue_capacity = 2
    per_shard_queue_capacity = 1
    pump_batch_size = 2
SPECIFICATION FairAppSpec
INVARIANTS
    CalleesOutliveCallers
    ExitIsClean
    ReceivesAllChannels
PROPERTIES
    StreamOutlivesClose
    FeedRecovers
    ShutdownCompletes
CHECK_DEADLOCK FALSE
