\* Users fail, but not in the ways of the findings; the test has no time limit.
CONSTANTS
    MAXUSERS = 2
    UserTargets = {1, 2}
    ConnectingTargets = {1, 2}
    Failures = TRUE
    Limited = FALSE
    Loops = {"bench", "corba"}
    Situations = {"calm"}
SPECIFICATION FairSpec
PROPERTIES
    RampUpReachesTarget
    AllDeadIsNoticed
