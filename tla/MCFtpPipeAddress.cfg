\* A successful reply to PASV may lack an address: the get it answers.
CONSTANTS
    MultiLine = FALSE
    CarriesOn = FALSE
    RestartInCallback = FALSE
    Failures = TRUE
    NoAddress = TRUE
    Spurious = FALSE
SPECIFICATION Spec
PROPERTIES
    OkMeansConnected
