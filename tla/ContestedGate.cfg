SPECIFICATION Spec
CONSTANTS
    N = 1
    Needs <- SoloNeeds
    Writers = {}
    Final = 1
    Criteria <- ReviewCriteria
    HumanGate <- ContestedGates
    Primary = "main"
    Fallbacks <- NoFallbacks
    Retries = 0
    Budget = 4
    Grace = 1
    MaxCrashes = 1
    MaxBlocked = 0
    MaxQuestions = 0
PROPERTY
    ContestedIsGated
CHECK_DEADLOCK FALSE
