SPECIFICATION ServicesSpec
CONSTANTS
  Parts = {"reload"}
  d1 = d1
  d2 = d2
  a1 = a1
  a2 = a2
  s1 = s1
  s2 = s2
  t1 = t1
  x1 = x1
  x2 = x2
  b1 = b1
  p1 = p1
  p2 = p2
  Displays = {d1, d2}
  Askers = {a1, a2}
  Shots = {s1, s2}
  ShotOwner <- EachItsOwn
  Streams = {t1}
  StreamOf <- OfTheFirst
  Pointed = {}
  MaxPending = 2
  MaxPerAsker = 1
  MaxDrawn = 1
  Buses = {b1}
  Sessions = {x1, x2}
  MaxSessions = 1
  MaxPerBus = 2
  MaxStreams = 1
  Nobody = Nobody
  Portals = {p1, p2}
  MaxPortals = 2
  NoPicker = NoPicker
  Files = {"main", "theme"}
  MainFile = "main"
  DirOf <- TwoDirectories
  TextsOf <- TextsOfEach
  MaxSaves = 2
INVARIANTS
  NoHandoffGap
CHECK_DEADLOCK FALSE
