SPECIFICATION FairPathSpec
CONSTANTS
  Keys = {k1}
  Targets = {t1}
  NoTarget = noTarget
  NoFrame = noFrame
  Frames <- SentFrames
  ReorderWindow = 1
  QueueCapacity = 1
  MaxEvents = 5
  MaxFailures = 1
  Links = {"direct", "relay"}
  Timely = TRUE
INVARIANT DifferenceOnTheWay
PROPERTIES
  NoneDroppedOnline
  Settles
CHECK_DEADLOCK FALSE
