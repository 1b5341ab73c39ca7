SPECIFICATION Spec
CONSTANTS
    Runners = {r}
    Resumers = {}
    Approvers = {a}
    Cancellers = {c}
    Faulty = {r, a, c}
    r = r
    a = a
    c = c
    None = None
    Root = Root
INVARIANTS
    IInv
    HeadIsPinned
    CancelledIsQuiet
    CancelNeverDrives
PROPERTIES
    ImplementsContract
CHECK_DEADLOCK FALSE
