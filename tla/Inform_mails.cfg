SPECIFICATION FairSpec
CONSTANTS
    None = None
    Mails = {e1}
    Workers = {w1, w2}
    MaxRequests = 2
    Faults = {"prepare", "lock", "send", "unsure", "unlock"}
    MaxFaults = 2
    Disruptions = {"stop", "lose", "crash"}
    MaxDisruptions = 2
INVARIANTS
    SentAtMostOnce
    LockNotLeaked
    MailNotForgotten
    OneFailureLosesNoMail
PROPERTY MailSettles
