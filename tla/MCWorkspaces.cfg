CONSTANTS
  NoOutput = NoOutput
  Output = {o1, o2}
  Window = {w1, w2, w3}
  Normal <- MCNormal4
  Scratch = {9}
  Numbers = {1, 2}
  Rules <- SomeRules
  Features = {"floats", "hotplug", "pins", "modes", "tabs"}
  Worlds = {"rooms", "tabs"}
SYMMETRY Symmetry
SPECIFICATION DeskSpec
INVARIANTS VisibleIsActive ModesAgree GroupAtLeaf
PROPERTY WorkspaceMovesWhole
