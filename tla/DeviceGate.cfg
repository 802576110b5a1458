SPECIFICATION MCGateSpec
CONSTANTS
    Users = {u1}
    Leases = {1, 2}
    Conns = {c1}
    None = None
    Grace = 3
    Patience = 1
    MaxTime = 5
    MaxSeq = 5
    MaxRuns = 2
    MaxLate = 1
    Events = {"users", "revoke", "forget", "stop"}
    Good = {"good", "better"}
    Misfit = {"misfit"}
    Broken = {"broken"}
    First = "good"
    Slots = {"watch"}
    NoRoot = NoRoot
    MaxWrites = 2
INVARIANTS NoResurrection OpenMeansHeld DeadlineWithinLease AgentHolds
PROPERTIES ReturnIsConfirmed NoSpuriousClose
CHECK_DEADLOCK FALSE
