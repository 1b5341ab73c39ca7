SPECIFICATION Spec
CONSTANTS
    Movements = {"interview", "work"}
    Needs <- MCNeeds
    Interview = "interview"
    Proposers = {"interview"}
    Readers = {"work"}
    Cli = {"c"}
    Blocking = {"b"}
    Questions = {}
    Finals = {"f"}
    CliPatches <- MCCliPatches
    RaisedPatches <- MCRaisedPatches
    Resumers = {"r"}
    None = None
    Dead = Dead
PROPERTIES
    ConsequencesCloseFirst
CHECK_DEADLOCK FALSE
