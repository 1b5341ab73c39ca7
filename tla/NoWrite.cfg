SPECIFICATION Spec
CONSTANTS
    Runs = {r1}
    r1 = r1
    r2 = r2
    r3 = r3
    Judged = {r1}
    None = None
    Head0 = "v0"
    Root0 = "s0"
    MaxFaults = 0
    MaxEdits = 0
    Base <- MCBase
    Result <- MCBase
    Start <- MCStart
    Target <- MCTarget
INVARIANTS
    NoWriteCandidateApplies
CHECK_DEADLOCK FALSE
