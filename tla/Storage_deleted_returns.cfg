SPECIFICATION Spec
CONSTANTS
    PartCount = 1
    Others = {}
    MaxTroubles = 1
    MaxBusy = 6
INVARIANT
    DeletedStaysDeleted
