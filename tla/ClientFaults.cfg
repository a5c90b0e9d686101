CONSTANTS
    None = None
    p1 = p1
    p2 = p2
    k1 = k1
    k2 = k2
    n1 = n1
    n2 = n2
    x = x
    y = y
    Windows = {w1}
    Providers = {p1}
    Keys = {k1, k2}
    Names = {n1, n2}
    Args = {x, y}
    Apps <- MCApps
    Fold <- MCDistinct
    Overlay <- MCOverlay
    Mishaps <- MCSyncFaults
SPECIFICATION Spec
INVARIANTS
    TypeOK
    ReportedSurvive
    SweepIsComplete
PROPERTIES
    MenuSpec
