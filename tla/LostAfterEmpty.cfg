SPECIFICATION PipelineSpec
CONSTANTS
    Batches <- MCBatches
    NoBatch = NoBatch
    NoFile = NoFile
    CheckpointEvery = 3
    Faults = {}
    MaxPending = 2
    MaxSeq = 5
    MaxBytes = 2
    MaxId = 2
    MaxCrashes = 1
    MaxLevel = 1
    MaxAttempts = 2
INVARIANT
    SavedTrafficSurvives
CHECK_DEADLOCK FALSE
