SPECIFICATION FairSpec
CONSTANTS
  o1 = o1
  o2 = o2
  g1 = g1
  g2 = g2
  g3 = g3
  None = None
  Output <- OneOutput
  Generation <- TwoGenerations
  Environment <- Power
CHECK_DEADLOCK FALSE
PROPERTIES
  PowerOnIsDrawn
