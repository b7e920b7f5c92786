\* Poller_poll alone, against the comment in its getNextEvent.
CONSTANTS
    Classes = {"poll"}
    Fds = {1, 2, 3}
    Events = {"IN"}
    SelectEvents = {"IN", "OUT"}
    Clients = {"c1", "c2", "c3"}
    ClientsOf <- OneEach
    NoClient = NoClient
    MaxSignals = 1
    MaxOpen = 2
    Interrupted = {"poll"}
SPECIFICATION Spec
INVARIANT AllThroughPoll
