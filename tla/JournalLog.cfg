SPECIFICATION Spec
CONSTANTS
    Proc = {p1, p2}
    k = k
    x = x
    y = y
    NoKey = NoKey
    None = None
    Torn = Torn
    Tears = {1}
    MaxLines = 3
    Commands <- MCCommands
INVARIANTS
    IInv
    AckedSurvives
    AlwaysRepairable
PROPERTIES
    ImplementsLog
CHECK_DEADLOCK FALSE
