SPECIFICATION MCSpec
CONSTANTS
    None = None
    Procs = {"watcher", "hand"}
    Tasks = {"u", "v", "w", "x"}
    Runs = {"r"}
    Refs = {"ref"}
    Models = {"gpt", "opus"}
    Workloads = {"w"}
    RefOf <- MCRefOf
    Files = {"f", "g", "h", "c"}
    HostOf <- MCHostOf
    Sessions <- MCSessions
    Plans <- MCPlans
    Declarations <- MCDeclarations
    Retention = 0
    MaxTime = 1
INVARIANTS MeasurementTypes NothingIsCountedTwice UseIsCountedOnce CreditIsEarned
PROPERTIES AttributionIsKept EstimatesRiseForCause
CHECK_DEADLOCK FALSE
