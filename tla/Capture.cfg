SPECIFICATION CaptureSpec
CONSTANTS
  Parts = {"desktop", "single", "pointer"}
  Targets = {t1, t2}
  NoTarget = NoTarget
  Keys = {"Modifier", "Escape", "Delete", "Button"}
  Width = 2
  Capacity = 2
  MaxPlans = 1
  MaxInputs = 3
  Profile <- MCProfile
  UserKeys = {"LeftMeta", "LeftShift", "Z", "Escape"}
  Hotkey <- MCHotkey
  Modes = {"edge", "always", "locked"}
  ChannelSize = 2
  MaxEvents = 4
  MaxLinkLosses = 1
  Layouts <- MCLayouts
  Screens <- MCScreens
  Edges = {"left", "bottom", "topright"}
  Threshold = 1
  MaxDelta = 1
  MaxStray = 2
  Unit = 4
INVARIANTS
  ControlIsPlanned
  KeysOnTheWay
  TypedAsRouted
  PointersAgree
PROPERTIES
  HandoverRestores
  PlansConverge
CHECK_DEADLOCK FALSE
