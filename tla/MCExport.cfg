CONSTANTS
    None = None
    Malformed = Malformed
    ByHand = ByHand
    Runs = {r1}
    Configs <- Choices
    Destinations = {"a", "b"}
    Scopes = {"totals", "daily"}
    Day = 1
    Retention = 1
    MaxAttempts = 2
    RetryInitial = 1
    RetryMax = 2
    WatchTime = 1
    EndOfTime = 1
    MaxSequence = 2
CHECK_DEADLOCK FALSE
SPECIFICATION ExportSpec
INVARIANTS
    OneRequestPerSequence
    SequencesMoveForward
    UnchangedIsShown
PROPERTIES
    SentAsConfigured
