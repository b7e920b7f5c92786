\* The server waits without end although something is due.
CONSTANTS
    MAXUSERS = 2
    UserTargets = {2}
    ConnectingTargets = {1, 2}
    Failures = TRUE
    Limited = FALSE
    Loops = {"corba"}
    Situations = {"slow"}
SPECIFICATION Spec
INVARIANT SleepsUntilDue
