SPECIFICATION USpec
CONSTANTS
    IdMod = 8
    Retransmissions = 1
    Timeout = 250
    MaxQueue = 2
    Faults = FALSE
    SrvFirst = 4
    SrvKinds = {"REPLY", "PING"}
    MaxSrv = 2
    MaxDups = 1
    MaxTyped = 2
INVARIANT
    QueueDrainedFirst
