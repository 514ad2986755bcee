SPECIFICATION UFairSpec
CONSTANTS
    IdMod = 8
    Retransmissions = 1
    Timeout = 250
    MaxQueue = 1
    Faults = TRUE
    SrvFirst = 4
    SrvKinds = {"REPLY", "ERR", "PING", "PADDED", "UNKNOWN", "RUNT", "EMPTY"}
    MaxSrv = 2
    MaxDups = 1
    MaxTyped = 1
INVARIANT
    ConfirmedIsKept
PROPERTIES
    ImplementsChatClient
    SendReturns
    RequestResolved
