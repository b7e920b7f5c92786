\* A server is left out after COMM_FAILURE.
CONSTANTS
    IntHalf = 4
    LongHalf = 4
    NServers = 2
    Users = 1
    Duration = 1
    Faults = {"COMM_FAILURE", "other"}
    MaxLag = 1
    Before <- FreshOrRunning
SPECIFICATION Spec
INVARIANT NobodyLeftFetching
