SPECIFICATION FairPathSpec
CONSTANTS
  Keys = {k1}
  Targets = {t1}
  NoTarget = noTarget
  NoFrame = noFrame
  Frames <- SentFrames
  ReorderWindow = 4
  QueueCapacity = 2
  MaxEvents = 3
  MaxFailures = 1
  Links = {"relay"}
  Timely = FALSE
PROPERTY NoReliableDropped
CHECK_DEADLOCK FALSE
