CONSTANTS
    Passive = TRUE
    RetryLogin = FALSE
SPECIFICATION Spec
INVARIANTS
    TypeOK
    InSync
    DoneMeansDone
PROPERTIES
    CommandsFinish
