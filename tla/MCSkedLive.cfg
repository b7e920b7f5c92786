\* Three clients, with fairness; no symmetry.
CONSTANTS
    Clients = {c1, c2, c3}
    NoClient = NoClient
    NotPending = NotPending
    InitAlloc = 2
    MaxTime = 2
    CallbacksReadClock = TRUE
SPECIFICATION FairSpec
PROPERTIES
    DueIsServed
    RunAllReturns
