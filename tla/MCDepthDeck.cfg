SPECIFICATION Spec
CONSTANTS
    Window = {w1, w2, w3}
    Output = {o1, o2}
    Workspace = {1, 2}
    NoView = NoView
    NoEntry = NoEntry
    NoWindow = NoWindow
    NoOverlay = NoOverlay
SYMMETRY Symmetry
INVARIANTS OwnedOnce ViewSelectsEntry
PROPERTY ParkedOnPurpose Conserved RotationInverse
CHECK_DEADLOCK FALSE
