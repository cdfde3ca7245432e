SPECIFICATION ValuesSpec
CONSTANTS
  Parts = {"identity", "telemetry", "view", "labels", "wire", "devices", "mdns",
           "commands", "profile"}
  Processes = {"window", "service"}
  Packages <- MCPackages
  MaxStarts = 3
  MaxLoads = 4
  MaxFailures = 1
  Capacity = 1
  MaxEvents = 2
  Recorders = {"direct", "relay"}
  Latencies = {1}
  Panicking = {"a", "b"}
  Times = {1}
  Own = 0
  NoDevice = 9
  OldIds = {1, 2, 3}
  Presences <- MCPresences
  Masters = {0, 1}
  Layouts <- MCPlaced
  MaxLayoutEdits = 1
  Targets <- MCTargets
  Max16 = 3
  Frames <- MCFrames
  Files <- MCFiles
  ChunkSizes = {1, 2, 3}
  Sizes = {40, 80, 120}
  SourceSystems = {"windows", "macos", "x11", "wayland"}
  TargetSystems = {"windows", "macos", "x11", "wayland"}
  Positions = {"q", "a"}
  Mappings <- MCMappings
  Standard <- MCStandard
  Motions <- MCMotions
  Turns <- MCTurns
  MaxActions = 2
  MaxRestarts = 1
  Services <- MCServices
  MaxJumps = 2
  Faults <- MCFaults
  Spelled <- MCSpelled
  Wrong <- MCWrong
  SerialNumber <- MCSerialNumber
  Missing = Missing
  Mapped <- MCMapped
  TextLayouts <- MCTextLayouts
INVARIANTS
  KeyIsStored
  DepthIsTrue
  EditsStayValid
  PanelsAgree
  FramesRoundTrip
  
  WholeIsUnderstood
  Understood
  TextIsFollowed
CHECK_DEADLOCK FALSE
