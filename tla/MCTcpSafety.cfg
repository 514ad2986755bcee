SPECIFICATION TSpec
CONSTANTS
    BUFFER_SIZE = 7
    Bodies <- MCBodies
    MaxWritten = 2
    Faults = TRUE
INVARIANTS
    TTypeOK
    NothingCompleteLeft
PROPERTIES
    HangUpComesLast
    ImplementsMsgStream
    ImplementsChatClient
