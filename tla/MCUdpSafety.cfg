SPECIFICATION USpec
CONSTANTS
    IdMod = 8
    Retransmissions = 1
    Timeout = 250
    MaxQueue = 2
    Faults = FALSE
    SrvFirst = 4
    SrvKinds = {"REPLY", "NREPLY", "MSG"}
    MaxSrv = 2
    MaxDups = 1
    MaxTyped = 2
INVARIANTS
    UTypeOK
    AtMostOnce
    ConfirmedIsKept
    SentIsReceived
    EveryAttemptSends
PROPERTY
    ImplementsInbox
