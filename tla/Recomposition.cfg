SPECIFICATION Spec
CONSTANTS
    N = 2
    Needs <- PairNeeds
    Writers <- FirstWrites
    Final = 2
    Criteria <- PairCriteria
    HumanGate <- PairGates
    Primary = "main"
    Fallbacks <- NoFallbacks
    Retries = 0
    Budget = 4
    Grace = 1
    MaxCrashes = 1
    MaxBlocked = 0
    MaxQuestions = 0
INVARIANT
    RecompositionContinues
CHECK_DEADLOCK FALSE
