CONSTANTS
    Commands = {wsland, msrdc}
    Compositor = wsland
    Pids = {q1, q2, q3, q4}
    Helper = Helper
    None = None
    MaxCrashes = 1
    Window = 1
    MaxTime = 2
    Mishaps <- MCAround
SPECIFICATION FairSpec
CHECK_DEADLOCK FALSE
INVARIANTS
    TypeOK
    GiveUpIsExact
    Supervised
    EndsForAReason
PROPERTY Relaunched
