SPECIFICATION SharedSpec
CONSTANTS
    Batches <- MCBatches
    NoBatch = NoBatch
    NoFile = NoFile
    CheckpointEvery = 3
    Faults = {"write"}
    MaxPending = 2
    MaxSeq = 5
    MaxBytes = 2
    MaxId = 2
    MaxCrashes = 2
    MaxLevel = 1
    MaxAttempts = 2
    Owners = {"m", "n"}
    Confs <- MCConfs
    HopPort = 9
    NoPlan = NoPlan
    FwFaults = {"command", "late", "save"}
    MaxConfs = 2
    MaxTroubles = 1
    WgUserSets <- MCWgUserSets
    WgSources = {"s"}
    WgConns = {c1}
    WgLimit = 1
    MaxWgGens = 3
    MaxWgPermits = 1
    MaxWgEvents = 3
    Clients = {c1, c2}
    TargetLists <- MCTargetLists
    CursorCycle = 2
    MaxSessions = 1
    MaxRuntimes = 2
    Peers = {p1, p2}
    Flights <- MCFlights
    RelayConfigs <- MCRelayConfigs
    FirstRelay <- MCFirstRelay
    NoTarget = NoTarget
    MaxHandling = 2
    MaxHandshakes = 1
    MaxWrites = 3
INVARIANTS
    NeverOvercounts
    NumberFixesContent
    SentIsStored
    NothingDropped
    FirewallHolds
    WireGuardHolds
    BalancerHolds
    RelayEntryHolds
CHECK_DEADLOCK FALSE
