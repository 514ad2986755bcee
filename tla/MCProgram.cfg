SPECIFICATION PFairSpec
CONSTANTS
    Lines <- MCLines
    MaxTyped = 2
    MaxHeard = 1
    Options <- MCOptions
    MaxOptions = 3
INVARIANTS
    PTypeOK
    AcceptsExactly
    ValuesAreGiven
    SentParses
    StatusTellsAll
PROPERTIES
    LinesInOrder
    EndComesLast
    EndOfInput
