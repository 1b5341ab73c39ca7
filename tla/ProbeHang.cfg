SPECIFICATION FairSpec
CONSTANTS
    MaxEvents = 1
    MaxOut = 1
    Jobs = {"probe"}
PROPERTY ProbeReturns
CHECK_DEADLOCK FALSE
