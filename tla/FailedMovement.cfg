SPECIFICATION Spec
CONSTANTS
    N = 2
    Needs <- PairNeeds
    Writers <- FirstWrites
    Final = 2
    Criteria <- PairCriteria
    HumanGate <- PairGates
    Primary = "main"
    Fallbacks <- NoFallbacks
    Retries = 1
    Budget = 4
    Grace = 1
    MaxCrashes = 0
    MaxBlocked = 0
    MaxQuestions = 0
INVARIANT
    FailedMovementEndsScheduling
CHECK_DEADLOCK FALSE
