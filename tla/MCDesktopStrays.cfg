SPECIFICATION DesktopSpec
CONSTANTS
  Parts = {"engines"}
  a = a
  b = b
  m1 = m1
  l1 = l1
  v1 = v1
  v2 = v2
  v3 = v3
  w1 = w1
  w2 = w2
  n1 = n1
  n2 = n2
  o1 = o1
  o2 = o2
  Windows <- ThreeWindows
  Layers = {l1}
  Menus <- TwoMenus
  Desks = {1, 2}
  Above <- OneLayer
  Nobody = Nobody
  LockScreen = LockScreen
  Restless = TRUE
  Apps = {a, b}
  MonitorOrder <- OneMonitor
  Numbered = 2
  Swallowers = {a}
  SpawnedBy <- ChildOfTheFirst
  SharedCanvas = FALSE
  Window <- TwoWindows
  Output <- TwoOutputs
  Workspace = {1, 2}
  Kept = {2}
  Settable <- EverySlot
  Configs <- WithRules
  NoWindow = NoWindow
  NoGrab = NoGrab
  StaleGrab = StaleGrab
INVARIANT EveryLiveWindowIsOwned
CHECK_DEADLOCK FALSE
