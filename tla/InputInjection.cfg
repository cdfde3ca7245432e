SPECIFICATION Spec
CONSTANTS
  Keys = {k1}
  Targets = {t1, t2}
  NoTarget = noTarget
  NoFrame = noFrame
  Frames <- AnyFrames
  ReorderWindow = 2
  QueueCapacity = 1
INVARIANTS
  HeldIsTracked
  ReleasedAtReturn
  InOrder
PROPERTY ImplementsDelivery
CHECK_DEADLOCK FALSE
