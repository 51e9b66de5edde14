SPECIFICATION LayoutsSpec
CONSTANTS
    Window = {w1, w2, w3, w4, w5}
    Output = {o1, o2}
    Workspace = {1, 2}
    Kept = {2}
    Settable <- NoSlot
    Configs <- DefaultsOnly
    NoWindow = NoWindow
    NoGrab = NoGrab
    StaleGrab = StaleGrab
    Tile = {t1, t2, t3}
    Screen = {s1, s2}
    Desk = {1, 2}
    Viewport = 12
    Widths = {8, 12}
    RowsShown = 1
    Modes <- SomeModes
    NoTile = NoTile
    NoSwipe = NoSwipe
    Parts = {"trees", "strips"}
    StepBound = 2
SYMMETRY Symmetry
INVARIANTS OwnersAgree GrabKeepsItsSplit ViewIsKept
PROPERTY KeepsPromise ColumnsAreKept
CHECK_DEADLOCK FALSE
