\* A user is stopped in runAll, and again by an event of the same iteration.
CONSTANTS
    MAXUSERS = 2
    UserTargets = {2}
    ConnectingTargets = {1, 2}
    Failures = TRUE
    Limited = FALSE
    Loops = {"bench"}
    Situations = {"wake"}
SPECIFICATION Spec
INVARIANT ReapedOnce
