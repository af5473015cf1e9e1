CONSTANTS
    k1 = k1
    Runs = {r1, r2}
    Keys = {k1}
    None = None
    Lease = 0
    Horizon = 1
    BusyWait = 0
    KeyOf <- SharedKey
    Effectful = {r1, r2}
    Reports = {"partial"}
    Retention = 0
SYMMETRY RunSymmetry
SPECIFICATION ExecSpec
INVARIANTS
    OneExecutionPerResource
PROPERTIES
    ImplementsContract
