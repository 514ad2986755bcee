SPECIFICATION USpec
CONSTANTS
    IdMod = 8
    Retransmissions = 1
    Timeout = 250
    MaxQueue = 1
    Faults = FALSE
    SrvFirst = 0
    SrvKinds = {"REPLY", "MSG"}
    MaxSrv = 2
    MaxDups = 1
    MaxTyped = 2
INVARIANT
    ConfirmedIsKept
