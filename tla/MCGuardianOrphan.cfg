SPECIFICATION GuardSpec
CHECK_DEADLOCK FALSE
INVARIANTS
    SurvivingWorkerStopsGroup
