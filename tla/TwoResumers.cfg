SPECIFICATION Spec
CONSTANTS
    Movements = {"interview", "work"}
    Needs <- MCNeeds
    Interview = "interview"
    Proposers = {"interview"}
    Readers = {"work"}
    Cli = {"c"}
    Blocking = {"b"}
    Questions = {}
    Finals = {}
    CliPatches <- MCCliPatches
    RaisedPatches <- MCRaisedPatches
    Resumers = {"r", "s"}
    None = None
    Dead = Dead
INVARIANTS
    RecordsAreKept
CHECK_DEADLOCK FALSE
