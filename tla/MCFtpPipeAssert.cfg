\* A successful reply to PASV may lack an address: the get after it.
CONSTANTS
    MultiLine = FALSE
    CarriesOn = FALSE
    RestartInCallback = FALSE
    Failures = TRUE
    NoAddress = TRUE
    Spurious = FALSE
SPECIFICATION Spec
INVARIANT
    NoAssertFails
