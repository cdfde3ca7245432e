SPECIFICATION ServerSpec
CONSTANTS
    Parts = {"registry", "profiles", "sessions", "releases"}
    a = a
    b = b
    ka = ka
    kb = kb
    None = None
    Ids = {a, b}
    Keys = {ka, kb}
    Identities <- MCIdentities
    Pairs <- MCPairs
    Layouts <- MCLayouts
    desk = desk
    ip1 = ip1
    ip2 = ip2
    Names = {desk}
    Ips = {ip1, ip2}
    Reports <- MCReports
    MaxVersion = 2
    MaxEdits = 2
    NoConfig = NoConfig
    Editors = {"window", "panel"}
    MaxConfigs = 3
    MaxRollbacks = 1
    MaxFailures = 1
    MaxCrashes = 1
    MaxDeletions = 1
    Absent = Absent
    Emails = {"ann"}
    Default = "default"
    Windows = {"w"}
    SessionIds = {"s"}
    Priorities = {1, 2}
    Channel = 2
    MaxCodes = 2
    MaxTokens = 3
    MaxSignals = 3
    Computers = {"x", "y"}
    AskedAs <- MCAskedAs
    Bucket <- MCBucket
    Versions <- MCVersions
    Percents = {0, 10, 25, 100}
INVARIANTS
    NoDanglingRefs
    SameVersionSameCandidates
    NoLostUpdate
    AnsweredIsSaved
    LoginsAreEarned
    OfferStands
SYMMETRY MCSymmetry
CHECK_DEADLOCK FALSE
