\* The application of the benchmark; connections break, replies have several
\* lines, addresses are missing, events are spurious, and the server may fall silent.
CONSTANTS
    MultiLine = TRUE
    CarriesOn = FALSE
    RestartInCallback = FALSE
    Failures = TRUE
    NoAddress = TRUE
    Spurious = TRUE
SPECIFICATION FairSpec
INVARIANTS
    TypeOK
    AssertsHold
    CompletionReported
    NoLeftovers
PROPERTIES
    ReportedOnce
    OkMeansWholeFile
    CommandsFinish
    SilenceTimesOut
