SPECIFICATION FairPathSpec
CONSTANTS
  Keys = {}
  Targets = {t1}
  NoTarget = noTarget
  NoFrame = noFrame
  Frames <- SentFrames
  ReorderWindow = 1
  QueueCapacity = 1
  MaxEvents = 5
  MaxFailures = 0
  Links = {"direct"}
  Timely = FALSE
PROPERTY ReliableNotBlocked
CHECK_DEADLOCK FALSE
