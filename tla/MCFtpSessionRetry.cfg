\* The application calls login() again on the same connection.
CONSTANTS
    Passive = TRUE
    RetryLogin = TRUE
SPECIFICATION Spec
INVARIANT InSync
