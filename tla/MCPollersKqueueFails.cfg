\* Poller_kqueue alone, with kevent() interrupted by a signal: what it is said to have found.
CONSTANTS
    Classes = {"kqueue"}
    Fds = {1, 2, 3}
    Events = {"IN"}
    SelectEvents = {"IN", "OUT"}
    Clients = {"c1", "c2", "c3"}
    ClientsOf <- OneEach
    NoClient = NoClient
    MaxSignals = 1
    MaxOpen = 2
    Interrupted = {"kqueue"}
SPECIFICATION Spec
INVARIANT OnlyReported
