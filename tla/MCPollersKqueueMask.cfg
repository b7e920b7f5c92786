\* Poller_kqueue alone: whom an event belongs to.
CONSTANTS
    Classes = {"kqueue"}
    Fds = {1, 2, 3}
    Events = {"IN"}
    SelectEvents = {"IN", "OUT"}
    Clients = {"c1", "c2", "c3"}
    ClientsOf <- OneEach
    NoClient = NoClient
    MaxSignals = 1
    MaxOpen = 2
    Interrupted = {}
SPECIFICATION Spec
INVARIANT HasClient
