SPECIFICATION Spec
CONSTANTS
    Proc = {p1, p2}
    k = k
    x = x
    y = y
    NoKey = NoKey
    None = None
    Torn = Torn
    Tears = {1, 2}
    MaxLines = 2
    Commands <- MCCommands
INVARIANTS
    IInv
    AlwaysRepairable
CHECK_DEADLOCK FALSE
