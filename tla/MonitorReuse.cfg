CONSTANTS
    Commands = {wsland, msrdc}
    Compositor = wsland
    Pids = {q1, q2, q3, q4}
    Helper = Helper
    None = None
    MaxCrashes = 2
    Window = 1
    MaxTime = 1
    Mishaps <- MCReuse
SPECIFICATION Spec
CHECK_DEADLOCK FALSE
INVARIANT Supervised
