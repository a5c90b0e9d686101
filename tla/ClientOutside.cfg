CONSTANTS
    None = None
    p1 = p1
    p2 = p2
    k1 = k1
    k2 = k2
    n1 = n1
    n2 = n2
    x = x
    y = y
    Windows = {w1}
    Providers = {p1, p2}
    Keys = {k1, k2}
    Names = {n1}
    Args = {x, y}
    Apps <- MCNamesakes
    Fold <- MCDistinct
    Overlay <- MCOverlay
    Mishaps <- MCOutside
SPECIFICATION Spec
INVARIANTS
    DatabaseAgreesWithMenu
    CapsCompleted
    ProvidersApart
PROPERTIES
    ButtonsAgreeWithMenu
    MenuSpec
