SPECIFICATION ComponentsSpec
CONSTANTS
    Batches = {b1}
    NoBatch = NoBatch
    NoFile = NoFile
    CheckpointEvery = 3
    Faults <- MCAllButCleanup
    MaxPending = 1
    MaxSeq = 6
    Calls = {"t", "d"}
    DeviceCalls = {"d"}
    ControlCalls = {"d"}
    Size <- MCSize
    QueueBytes = 3
    ControlReserve = 1
    QueueSlots = 2
    ControlSlots = 1
    PendingLimit = 2
    NoReply = NoReply
    MaxConns = 2
    Quota = 1
    MaxBytes = 1
    MaxTraffic = 2
    MaxGaps = 1
    MaxRevision = 2
    MaxPeriod = 2
    NoFileYet = NoFileYet
    Damaged = Damaged
    NoReading = NoReading
    SpeedRules <- MCSpeedRules
    NoRule = NoRule
    NoRate = NoRate
    Bases = {2}
    Threshold = 1
    Gap = 2
    MaxSpeedTime = 5
    MaxSpeedFaults = 1
    ProbeNodes = {1, 2}
    Places = {"a", "b"}
    NoPlace = NoPlace
    MaxOutcomes = 3
    MaxSeconds = 3
    MaxBatch = 2
    MaxRecords = 3
    MaxAdded = 4
    MaxFlushes = 2
    NoBatchYet = NoBatchYet
INVARIANTS
    StoreTypeOK
    LoadKeepsPromise
    ClientHolds
    QuotaHolds
    SpeedHolds
    ProbingHolds
    AccessHolds
PROPERTY CallIsRemoteCall
CHECK_DEADLOCK FALSE
