\* A user whose login fails at once is counted for good.
CONSTANTS
    MAXUSERS = 2
    UserTargets = {2}
    ConnectingTargets = {1, 2}
    Failures = FALSE
    Limited = FALSE
    Loops = {"bench"}
    Situations = {"early"}
SPECIFICATION Spec
INVARIANT CountsAgreeAlways
