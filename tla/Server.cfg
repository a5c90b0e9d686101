CONSTANTS
    MaxString = 6
    MaxMessages = 2
    MaxOpens = 2
    None = None
    Messages <- MCMessages
    Mishaps <- MCOutside
    ClientMishaps <- MCClientMishaps
SPECIFICATION SessionFairSpec
INVARIANTS
    LinkTypeOK
    TypeOK
    ThreadHasChannel
    TakenAsSent
    PacketsAreFramed
    RefusedForAReason
PROPERTIES
    CloseReturns
    MessagesTaken
    ServerSpec
    CapsAnswered
CHECK_DEADLOCK FALSE
