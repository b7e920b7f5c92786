\* Three descriptors of which a Poller_sigio and a Poller_kqueue use two at a time.
CONSTANTS
    Classes = {"poll", "select", "devpoll", "kqueue", "sigio"}
    Fds = {1, 2, 3}
    Events = {"IN"}
    SelectEvents = {"IN", "OUT"}
    Clients = {"c1", "c2", "c3"}
    ClientsOf <- OneEach
    NoClient = NoClient
    MaxSignals = 1
    MaxOpen = 2
    Interrupted = {"poll", "select", "devpoll"}
SPECIFICATION Spec
INVARIANTS
    TypeOK
    TablesAgree
    GivenToOwner
    OnlyReported
    NoneSkipped
    NothingLost
