\* The comment of nbbio.h on m_lastchar, against CR LF LF.
CONSTANTS
    BUFLEN = 4
    MAXLEN = 3
    Bytes = {a, CR, LF}
    CR = CR
    LF = LF
    NUL = NUL
    MaxBytes = 7
SPECIFICATION Spec
CHECK_DEADLOCK FALSE
INVARIANT NextLFIgnored
