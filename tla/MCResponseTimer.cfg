SPECIFICATION RFairSpec
CONSTANTS
    Phases = {0, 600000}
    Steps = {500000, 1000000}
    MaxElapsed = 6000000
    MaxUnrelated = 2
INVARIANTS
    RTypeOK
    WaitingMatchesState
    AdmittedFirst
    EndIsFinal
    ExitStatus
    DeadlineStands
    RefusedWhenLate
PROPERTIES
    OneRequestAtATime
    RequestResolved
