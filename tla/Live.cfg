SPECIFICATION MCLiveSpec
CONSTANTS
    Nodes = {"n"}
    Kernels = {"x", "s"}
    Handles = {1, 2}
    Absent = Absent
    MaxEvents = 2
    Batches <- MCBatches
    NoBatch = NoBatch
    NoFile = NoFile
    CheckpointEvery = 3
    Faults = {}
    MaxPending = 2
    MaxSeq = 8
    MaxBytes = 2
    MaxId = 3
    MaxCrashes = 1
    MaxLevel = 1
    MaxAttempts = 1
    Modes = {"node"}
    Configs = {"a", "b"}
    Landing = {}
    KernelHash <- KernelHashOf
    UserIds = {1}
    None = None
    EventCap = 1
    StatusCap = 1
    MaxEpochs = 1
    MaxVersions = 2
    MaxCerts = 1
    MaxLinks = 2
INVARIANT ServicesHold
PROPERTIES EventuallyAsListed EventuallyBooked EventuallyFollowed EventuallyRenewed
CHECK_DEADLOCK FALSE
