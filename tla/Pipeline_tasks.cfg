SPECIFICATION FairSpec
CONSTANTS
    None = None
    Tasks = {t1}
    Metered = {t1}
    Faults = {"save", "send", "work", "restore"}
    MaxFaults = 4
    MaxLateFaults = 1
    Disruptions = {"stop", "lose", "crash"}
    MaxDisruptions = 1
    MaxBusy = 2
INVARIANTS
    NoTaskLost
    OneOutcomeTold
    StatusTellsOutcome
    NoRefundLost
    OneFailureRetried
    RestoredOnlyWhenBlamed
    RestoredAtMostOnce
    
    CompletedHasResult
    CancelledNotReported
PROPERTIES KeepsPromise TaskSettles RefundSettles
