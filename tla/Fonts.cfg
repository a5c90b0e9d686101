CONSTANTS
    None = None
    fonts = fonts
    x11 = x11
    misc = misc
    other = other
    alt = alt
    Folders <- MCFolders
    Parent <- MCParent
    Name <- MCName
    MountRoot = fonts
    X11Folder = x11
    MaxChanges = 2
    MaxQueue = 2
    Mishaps <- MCMishaps
SPECIFICATION FairSpec
INVARIANTS
    TypeOK
    PathIsCurrent
    PathIsOwned
PROPERTY PathCatchesUp
CHECK_DEADLOCK FALSE
