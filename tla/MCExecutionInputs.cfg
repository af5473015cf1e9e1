CONSTANTS
    k1 = k1
    Runs = {r1}
    Keys = {k1}
    None = None
    Lease = 1
    Horizon = 2
    BusyWait = 1
    KeyOf <- SharedKey
    Effectful = {r1}
    Reports = {"completed"}
    Retention = 1
SPECIFICATION ExecSpec
INVARIANTS
    FailedSubmissionsLeaveNoInputs
