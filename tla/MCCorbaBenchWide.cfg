\* A long is wider than an int.
CONSTANTS
    IntHalf = 4
    LongHalf = 16
    NServers = 2
    Users = 1
    Duration = 1
    Faults = {}
    MaxLag = 1
    Before <- FreshOrRunning
SPECIFICATION FairSpec
PROPERTY TestLasts
