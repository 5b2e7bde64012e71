SPECIFICATION FairSpec
CONSTANTS
    PartCount = 2
    WorkerCount = 1
    MaxDeliveries = 1
    MaxFails = 2
    CanCancel = TRUE
PROPERTY CancelOrErrorEndsDo
CHECK_DEADLOCK FALSE
