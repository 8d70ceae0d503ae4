SPECIFICATION StoreSpec
CONSTANTS
    m1 = m1
    None = None
    Events <- MCEvents
    kMaxPendingDeltas = 3
PROPERTIES
    SnapshotReplacesLevels
