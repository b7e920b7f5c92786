\* The controller starts on servers of which the first was left running.
CONSTANTS
    IntHalf = 4
    LongHalf = 4
    NServers = 2
    Users = 1
    Duration = 1
    Faults = {}
    MaxLag = 0
    Before <- FreshOrRunning
SPECIFICATION Spec
INVARIANT FailedIsDead
