SPECIFICATION Spec
CONSTANTS
  o1 = o1
  o2 = o2
  g1 = g1
  g2 = g2
  g3 = g3
  None = None
  Output <- TwoOutputs
  Generation <- TwoGenerations
  Environment <- NoFaults
SYMMETRY Symmetry
CHECK_DEADLOCK FALSE
INVARIANTS
  NoLostWakeup
  OneFrameInFlight
  LockedHidesDesktop
