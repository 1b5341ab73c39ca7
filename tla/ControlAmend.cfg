SPECIFICATION Spec
CONSTANTS
    Runners = {r}
    Resumers = {s1}
    Approvers = {a}
    Cancellers = {}
    Faulty = {r, s1, a}
    r = r
    s1 = s1
    a = a
    None = None
    Root = Root
INVARIANTS
    LeaseHasGrant
    AuthorityIsExclusive
    QuiescedIsQuiet
    FenceIsQuiet
    PrepareIsCommittable
CHECK_DEADLOCK FALSE
