\* Logins fail at once, and the controller asks for more users than fit.
CONSTANTS
    MAXUSERS = 2
    UserTargets = {4}
    ConnectingTargets = {4}
    Failures = FALSE
    Limited = FALSE
    Loops = {"corba"}
    Situations = {"early"}
SPECIFICATION Spec
INVARIANT SearchIsInside
