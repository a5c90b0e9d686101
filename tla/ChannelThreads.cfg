CONSTANTS
    r1 = r1
    r2 = r2
    Receivers <- MCReceivers
    Closer = closer
    NoOne = NoOne
    MaxPdus = 2
SPECIFICATION FairSpec
INVARIANTS
    TypeOK
    NoNullDatabase
PROPERTIES
    SerialSpec
    CloseReturns
    CallsReturn
