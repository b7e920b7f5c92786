\* get() with an address: PORT mode.
CONSTANTS
    Passive = FALSE
    RetryLogin = FALSE
SPECIFICATION Spec
INVARIANT NeverWaitsForNothing
