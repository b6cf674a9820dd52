CONSTANTS
    AgentRuns = {r1}
    Requests = {c1}
    ProfileIds = {p1, p2}
    Managed = {p2}
    Calls = {q1, op}
    Searches = {q1}
    MaxRetries = 1
    TransientDelay = 900
    Timeout = 900
    Deadline = 9000
    Reserve = 900
    ToolTimeout = 1800
    MaxSteps = 2
    RepairLimit = 2
    SearchLimit = 1
    MaxEdits = 1
    MaxAgentRuns = 1
SPECIFICATION AgentSpec
INVARIANTS
    RunSafe
    FailsOnlyWhenExhausted
PROPERTIES
    EveryRunEnds
CHECK_DEADLOCK FALSE
