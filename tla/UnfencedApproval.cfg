SPECIFICATION Spec
CONSTANTS
    Runners = {r}
    Resumers = {}
    Approvers = {a}
    Cancellers = {}
    Faulty = {}
    r = r
    a = a
    None = None
    Root = Root
PROPERTIES
    NothingToQuiesce
CHECK_DEADLOCK FALSE
