SPECIFICATION Spec
CONSTANTS
    MAX_QUEUE_SIZE = 3
    Messages = {m1, m2}
    Null = Null
INVARIANTS
    TypeOK
    CountersAgree
PROPERTY
    ImplementsFifo
