SPECIFICATION Spec
CONSTANTS
    Runners = {r}
    Resumers = {s1}
    Approvers = {}
    Cancellers = {}
    Faulty = {}
    r = r
    s1 = s1
    None = None
    Root = Root
PROPERTIES
    OrphanHasNoGrant
CHECK_DEADLOCK FALSE
