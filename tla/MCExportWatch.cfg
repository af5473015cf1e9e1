CONSTANTS
    None = None
    Malformed = Malformed
    ByHand = ByHand
    Runs = {r1, r2}
    Configs <- Automatic
    Destinations = {"a"}
    Scopes = {"totals", "daily"}
    Day = 1
    Retention = 1
    MaxAttempts = 2
    RetryInitial = 1
    RetryMax = 2
    WatchTime = 2
    EndOfTime = 2
    MaxSequence = 0
CHECK_DEADLOCK FALSE
SPECIFICATION FairExportSpec
PROPERTIES WatchersEnd
