SPECIFICATION FairSpec
CONSTANTS
    N = 2
    Needs <- PairNeeds
    Writers <- FirstWrites
    Final = 2
    Criteria <- PairCriteria
    HumanGate <- PairGates
    Primary = "main"
    Fallbacks <- OneFallback
    Retries = 1
    Budget = 3
    Grace = 1
    MaxCrashes = 2
    MaxBlocked = 1
    MaxQuestions = 2
INVARIANTS
    SessionInv
    AppendsAreAdmitted
    AdapterIsMetered
    SuccessorsArePaidFor
    TerminalIsQuiet
PROPERTIES
    ProcessSettles
    SuccessIsGated
    ImplementsContract
CHECK_DEADLOCK FALSE
