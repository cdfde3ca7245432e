SPECIFICATION LinksSpec
CONSTANTS
    Parts = {"relay", "discovery", "clipboard", "ipc"}
    Senders <- MCSenders
    Receivers <- MCReceivers
    MaxRx = 3
    MaxTx = 2
    MaxFrames = 2
    MaxBreaks = 2
    MaxSwitches = 2
    LateRequests = FALSE
    Addresses = {11, 21, 22}
    Locals = {{12}, {23}}
    MaxMoves = 3
    a = a
    b = b
    Devices = {a, b}
    Links <- OneWay
    Texts = {"x", "y", "large"}
    Large = {"large"}
    QueueSize = 1
    MaxCopies = 4
    MaxSends = 4
    MaxFaults = 1
    Nothing = Nothing
    s1 = s1
    s0 = s0
    c1 = c1
    c2 = c2
    Services = {s0, s1}
    Old = {s0}
    Callers = {c1, c2}
    NoOne = NoOne
    Systems = {"linux", "macos", "windows"}
    MaxStarts = 1
    MaxKills = 1
    MaxGone = 1
INVARIANTS
    NewestRouted
    AckedOnItsWay
PROPERTIES
    RelayComesBack
    TargetIsReached
    CopyArrives
    ServiceComesBack
CHECK_DEADLOCK FALSE
