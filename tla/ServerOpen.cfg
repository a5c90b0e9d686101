CONSTANTS
    MaxMessages = 2
    Mishaps <- MCCreate
SPECIFICATION Spec
INVARIANT OpenIsServed
