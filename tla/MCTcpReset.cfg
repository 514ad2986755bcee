SPECIFICATION TSpec
CONSTANTS
    BUFFER_SIZE = 4
    Bodies <- MCReplies
    MaxWritten = 2
    Faults = FALSE
INVARIANT
    RecvReturns
