SPECIFICATION FairSpec
CONSTANTS
    MaxEvents = 2
    MaxOut = 2
    Jobs = {"execute", "probe"}
INVARIANTS
    LaunchInv
    RecoveredIsQuiet
    EndIsQuiet
    ResultIsJournaled
    ConformingIsAccepted
PROPERTIES
    CancelledReturns
CHECK_DEADLOCK FALSE
