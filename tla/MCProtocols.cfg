SPECIFICATION ProtocolsSpec
CONSTANTS
  Parts = {"outputs", "lights", "toplevels", "workspaces", "ipc", "commits"}
  Outputs = {o1, o2}
  Managers = {m1}
  Configs = {c1}
  CoordMax = 2
  Positions <- CornerPositions
  Sizes = {1}
  MaxSerial = 3
  Lights = {o1, o2}
  GammaObjects = {g1, g2}
  PowerObjects = {p1, p2}
  NoControl = NoControl
  Toplevels = {w1, w2}
  Bars = {m1, m2}
  Titles = {t1, t2}
  NoToplevel = NoToplevel
  Screens = {o1}
  Numbers = {1, 2}
  Strips = {m1, m2}
  BarClients = {d1, d2}
  Conns = {c1, c2}
  MaxConns = 1
  PendingCap = 1
  KernelRoom = 1
  Desktops = 2
  HandlerCap = 2
  Handlers = {"none"}
  Surfaces = {s1, s2}
  Drawers = {d1}
  DrawerOf <- OneDrawer
  Commits = {1, 2, 3}
  Buffers = {b1, b2}
  PerClient = 2
  Total = 2
  NoCommit = 0
INVARIANTS
  OutputsAgree
  MirrorsAgree
  SubscribersServed
  CommitsAccounted
PROPERTY ConfigurationsLandWhole
CHECK_DEADLOCK FALSE
