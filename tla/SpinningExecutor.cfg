SPECIFICATION FairSpec
CONSTANTS
    Runners = {}
    Resumers = {s1}
    Approvers = {a}
    Cancellers = {}
    Faulty = {}
    s1 = s1
    a = a
    None = None
    Root = Root
PROPERTIES
    AuthorityReestablished
CHECK_DEADLOCK FALSE
