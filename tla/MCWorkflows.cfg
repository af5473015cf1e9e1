CONSTANTS
    None = None
    Streams = {"stdout", "stderr"}
    Characters <- MCCharacters
    Marker = "*"
    MaxLog = 4
    Environments = {"local", "production"}
    Facts <- MCFacts
    CheckNames <- MCCheckNames
    Replicas = 2
    PageSize = 4
    MaxPages = 4
    Deployments <- MCDeployments
    Faults <- MCFaults
    Jumps <- MCJumps
    MaxDelay = 1
    MaxClock = 16
    Jobs <- MCJobs
    MaxAttempts = 3
    TotalTime = 2
    Scenarios <- MCScenarios
    Leavings <- MCLeavings
    MaxChunk = 3
SPECIFICATION WorkflowSpec
CHECK_DEADLOCK FALSE
INVARIANTS
    WorkflowTypes
    SecretsStayHidden
    
    MonitorSaysWhatHappened
    
