SPECIFICATION GateSpec
CONSTANTS
    Users = {u1}
    Leases = {1}
    Conns = {c1}
    None = None
    Grace = 3
    Patience = 1
    MaxTime = 3
    MaxSeq = 6
    MaxRuns = 1
    MaxLate = 0
    Events = {}
INVARIANT ReturnedIsOver
CHECK_DEADLOCK FALSE
