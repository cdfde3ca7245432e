SPECIFICATION Spec
CONSTANTS
  Targets = {t1}
  NoTarget = NoTarget
  Keys = {"Modifier", "Escape"}
  Width = 1
  Capacity = 2
  MaxPlans = 0
  MaxInputs = 4
INVARIANT NothingHeldRemotely
CHECK_DEADLOCK FALSE
