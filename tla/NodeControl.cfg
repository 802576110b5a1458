SPECIFICATION ScopesSpec
CONSTANTS
    Modes = {"node", "machine"}
    Configs = {"a", "land"}
    Landing = {"land"}
    KernelHash <- KernelHashOf
    UserIds = {1}
    None = None
    EventCap = 1
    StatusCap = 1
    MaxEpochs = 2
    MaxVersions = 3
    MaxCerts = 1
    MaxLinks = 2
INVARIANT RunsWhatIsDesired
PROPERTIES FailedNotRetried NoRemovedUserReturns
