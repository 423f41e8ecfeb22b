SPECIFICATION Spec
CHECK_DEADLOCK FALSE
SYMMETRY Symmetry
CONSTANTS
    r1 = r1
    r2 = r2
    r3 = r3
    r4 = r4
    Releases = {r1, r2, r3, r4}
    Positions <- AnyPosition
    MaxBundles = 4
    MaxRestarts = 2
INVARIANTS ActiveIsRight
PROPERTIES PositionDeletesShown
