SPECIFICATION MachineSpec
CONSTANTS
    Nodes = {"n"}
    Kernels = {"x", "s"}
    Handles = {1, 2}
    Absent = Absent
    MaxEvents = 2
INVARIANT NoLostDiscovery
CHECK_DEADLOCK FALSE
