\* Four clients: the tree has three levels and the array grows twice.
CONSTANTS
    Clients = {c1, c2, c3, c4}
    NoClient = NoClient
    NotPending = NotPending
    InitAlloc = 2
    MaxTime = 2
    CallbacksReadClock = FALSE
SPECIFICATION Spec
SYMMETRY ClientSymmetry
INVARIANTS
    TypeOK
    IndexInv
    HeapInv
PROPERTIES
    ImplementsAbs
