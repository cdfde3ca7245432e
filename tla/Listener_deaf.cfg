SPECIFICATION ListenerAlone
CONSTANTS
  Parts = {"listener"}
  Streams <- MCStreams
  Connections <- MCConnections
  MaxFrames <- MCMaxFrames
  Epochs <- MCEpochs
  Sequences <- MCSequences
  Datagram = "input_unreliable"
  NoEnvelope = NoEnvelope
  ReplayWindow = 2
  BitmapWidth = 3
  RotationFrames = 3
  ChannelCapacity = 2
  WorkerThreads = 2
  NoFrame = NoFrame
  Retried = {"heartbeat"}
  Capacity <- MCCapacity
  MaxReports = 1
PROPERTY DirectReceivesAgain
CHECK_DEADLOCK FALSE
