SPECIFICATION ControlSpec
CONSTANTS
    Modes = {"node"}
    Configs = {"a", "a2"}
    Landing = {}
    KernelHash <- KernelHashOf
    UserIds = {1}
    None = None
    EventCap = 1
    StatusCap = 1
    MaxEpochs = 1
    MaxVersions = 3
    MaxCerts = 0
    MaxLinks = 1
INVARIANT UsersReachKernel
