SPECIFICATION FairSpec
CONSTANTS
    PartCount = 4
    WorkerCount = 2
    MaxDeliveries = 2
    MaxFails = 3
    CanCancel = TRUE
INVARIANTS
    BoundedConcurrency
    NoWorkerOutlivesDo
    NilMeansWhole
    StopsPromptly
PROPERTIES WholeAudioKept DoReturns
CHECK_DEADLOCK FALSE
