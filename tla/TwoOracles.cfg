SPECIFICATION Spec
CONSTANTS
    Runners = {}
    Resumers = {s}
    Approvers = {a, b}
    Cancellers = {c}
    Faulty = {s, a, b}
    s = s
    a = a
    b = b
    c = c
    None = None
    Root = Root
INVARIANTS
    CancelledIsQuiet
CHECK_DEADLOCK FALSE
