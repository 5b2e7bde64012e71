SPECIFICATION FairSpec
CONSTANTS
    PartCount = 2
    Others = {"client", "time"}
    MaxTroubles = 1
    MaxBusy = 2
INVARIANTS
    NoOrphan
    ToldGetsWhole
    
PROPERTY
    ExpiredIsCleaned
