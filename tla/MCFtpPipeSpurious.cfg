\* A poller that may report data that are not there, as Poller_sigio does.
CONSTANTS
    MultiLine = FALSE
    CarriesOn = FALSE
    RestartInCallback = FALSE
    Failures = TRUE
    NoAddress = TRUE
    Spurious = TRUE
SPECIFICATION FairSpec
PROPERTIES
    SilenceEnds
