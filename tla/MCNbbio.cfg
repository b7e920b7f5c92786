\* Seven bytes go nearly twice round the array.
CONSTANTS
    BUFLEN = 4
    MAXLEN = 3
    Bytes = {a, CR, LF}
    CR = CR
    LF = LF
    NUL = NUL
    MaxBytes = 7
SPECIFICATION Spec
CHECK_DEADLOCK FALSE
INVARIANTS
    TypeOK
    Fifo
    LinesAreTheStream
    OnlyEmptyLost
