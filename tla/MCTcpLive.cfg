SPECIFICATION TFairSpec
CONSTANTS
    BUFFER_SIZE = 7
    Bodies <- MCReplies
    MaxWritten = 2
    Faults = FALSE
PROPERTIES
    EverythingTaken
    HangUpIsNoticed
