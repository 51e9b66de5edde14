SPECIFICATION DevicesSpec
CONSTANTS
  o1 = o1
  o2 = o2
  g1 = g1
  g2 = g2
  g3 = g3
  None = None
  Output <- OneOutput
  Generation <- ThreeGenerations
  Environment <- Everything
  KeysHeld = 2
  Sessions <- KeyWorlds
  Left1 = Left1
  Right1 = Right1
  Buttons <- TwoButtons
  Primary = Left1
  NoButton = NoButton
CHECK_DEADLOCK FALSE
INVARIANTS
  OnlyDueFrames
  KeysSettled
  PointerSettled
PROPERTIES
  CalmDamageIsDrawn
  CalmLockIsConfirmed
  DropsAreMeant
