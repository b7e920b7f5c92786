\* "wake" and "slow" include what happens when it is "calm".
CONSTANTS
    MAXUSERS = 3
    UserTargets = {3, 5}
    ConnectingTargets = {1, 2}
    Failures = TRUE
    Limited = TRUE
    Loops = {"bench", "corba"}
    Situations = {"wake", "early", "slow"}
SPECIFICATION Spec
INVARIANTS
    TypeOK
    SearchStaysInside
    CountsAgree
    DeadlistIsStopped
    NoCallAfterDeath
PROPERTIES
    ImplementsAbs
