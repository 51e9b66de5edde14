CONSTANTS
  NoOutput = NoOutput
  Output = {o1, o2}
  Window = {w1, w2}
  Normal <- MCNormal3
  Scratch = {9}
  Numbers = {1, 2}
  Rules <- PlainRules
  Features = {"floats", "hotplug", "tabs", "tabModes", "nudges", "earlyFullscreen", "outputPins"}
  Worlds = {"rooms"}
SYMMETRY MonitorSymmetry
SPECIFICATION DeskSpec
INVARIANT WindowsHeld
