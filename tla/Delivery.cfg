SPECIFICATION FairSpec
CONSTANTS
    Runs = {r1, r2, r3}
    r1 = r1
    r2 = r2
    r3 = r3
    Judged = {r1, r2, r3}
    None = None
    Head0 = "v0"
    Root0 = "s0"
    MaxFaults = 2
    MaxEdits = 2
    Base <- MCBase
    Result <- MCResult
    Start <- MCStart
    Target <- MCTarget
INVARIANTS
    ShippingInv
    HalfAppliedIsAnnounced
    NoTemporaryAfterPromotion
    SettledTreeIsVerified
PROPERTIES
    OnlyWindowEditsAreLost
    TransactionsSettle
CHECK_DEADLOCK FALSE
