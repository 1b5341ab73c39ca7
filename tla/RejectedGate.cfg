SPECIFICATION Spec
CONSTANTS
    N = 1
    Needs <- SoloNeeds
    Writers = {}
    Final = 0
    Criteria <- ArtifactCriteria
    HumanGate <- AlwaysGates
    Primary = "main"
    Fallbacks <- NoFallbacks
    Retries = 0
    Budget = 4
    Grace = 1
    MaxCrashes = 0
    MaxBlocked = 0
    MaxQuestions = 0
INVARIANT
    RejectionIsAdmitted
CHECK_DEADLOCK FALSE
