SPECIFICATION Spec
CONSTANTS
    Movements = {"interview", "work"}
    Needs <- MCNeeds
    Interview = "interview"
    Proposers = {"interview"}
    Readers = {"work"}
    Cli = {"c"}
    Blocking = {"b"}
    Questions = {"q"}
    Finals = {"f", "g"}
    CliPatches <- MCCliPatches
    RaisedPatches <- MCRaisedPatches
    Resumers = {"r"}
    None = None
    Dead = Dead
INVARIANTS
    RoutesInv
    RecordsAreKept
    ExecutedIsStable
    PrepareStaysAdmissible
CHECK_DEADLOCK FALSE
