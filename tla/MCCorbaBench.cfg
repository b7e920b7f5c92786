\* The clock has eight values; servers may have been left running.
CONSTANTS
    IntHalf = 4
    LongHalf = 4
    NServers = 2
    Users = 1
    Duration = 1
    Faults = {"COMM_FAILURE", "other"}
    MaxLag = 1
    Before <- FreshOrRunning
SPECIFICATION FairSpec
INVARIANTS
    TypeOK
    FailedMeansDead
PROPERTIES
    TestLasts
    TestEnds
