SPECIFICATION FairSpec
CONSTANTS
    Runners = {r}
    Resumers = {}
    Approvers = {a}
    Cancellers = {c}
    Faulty = {r}
    r = r
    a = a
    c = c
    None = None
    Root = Root
PROPERTIES
    CancelCompletes
    ApproveReturns
CHECK_DEADLOCK FALSE
