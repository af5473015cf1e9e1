CONSTANTS
    Runs = {r1, r2}
    Keys = {k1}
    Requests = {q1}
    Owners = {o1, o2}
    None = None
    Lease = 1
    Horizon = 2
    BusyWait = 1
SYMMETRY RunSymmetry
SPECIFICATION LedgerSpec
INVARIANTS
    LocksFollowRuns
    OneRunPerRequest
PROPERTIES
    DecisionsAreFinal
