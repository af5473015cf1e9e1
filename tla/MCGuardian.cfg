SPECIFICATION FairGuardSpec
CHECK_DEADLOCK FALSE
INVARIANTS
    ExecutionIsAcknowledged
    GuardianOutlivesGroup
    ReturnedCodesAreTrue
PROPERTIES
    GuardianEndsExecution
    WorkerStopsOrphans
    ImplementsSupervision
