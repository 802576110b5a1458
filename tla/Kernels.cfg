SPECIFICATION KernelsSpec
CONSTANTS
    NoTotal = NoTotal
    SbConns = {c1, c2}
    MaxSbBytes = 2
    MaxCells = 3
    XConns = {c1}
    MaxXBytes = 2
    MaxInsts = 2
    MaxXGens = 2
    AdConns = {c1, c2}
    AdSources = {"s1", "s2"}
    Countable = {"s1", "s2"}
    ConnLimits = {1, 2}
    DeviceLimit = 1
    NoSnapshot = NoSnapshot
    Snapshots <- MCSbSnapshots
    MaxStats = 2
    XReqs = {c1, c2}
    XSources = {"s1", "s2"}
    XConnLimits = {1, 2}
    XDeviceLimit = 1
    XNoSnapshot = XNoSnapshot
    XSnapshots <- MCXSnapshots
    Identities = {i1, i2}
    KReqs = {r1}
    Trusts = {"t1", "t2"}
    XUserIds = {1, 2}
    XCreds = {"p", "q"}
    Statics = {1, 2}
    Rules = {1, 2}
    MaxRetired = 2
    NoInst = NoInst
    NoHash = NoHash
    Routers = {1, 2}
    Grants <- MCGrants
    AllLines = AllLines
    NodeSpecs <- MCNodeSpecs
    NoRoute = NoRoute
    Lines <- MCLines
    Nodes <- MCNodes
    LinkUsers = {1, 2}
    NotBuilt = NotBuilt
    CertConfigs <- MCCertConfigs
    FirstConfig <- MCFirstConfig
    NoMaterial = NoMaterial
    MaxSerials = 2
    MaxGens = 3
    MaxRequests = 2
    MaxRestarts = 1
    Operations = {1, 2}
    Upgrades = {1}
    Versions <- MCVersions
    MaxDeaths = 1
    NoVersion = NoVersion
INVARIANTS
    SbTrafficConserved
    XTrafficConserved
    SbAdmissionHolds
    XAdmissionHolds
    BoxMatchesBooks
    InstanceMatches
    RoutedAsMeant
    LinkAgrees
    CertificatesHold
    RemoteHolds
CHECK_DEADLOCK FALSE
