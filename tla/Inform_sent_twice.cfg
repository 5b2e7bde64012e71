SPECIFICATION Spec
CONSTANTS
    None = None
    Mails = {e1}
    Workers = {w1}
    MaxRequests = 1
    Faults = {"unsure"}
    MaxFaults = 1
    Disruptions = {}
    MaxDisruptions = 0
INVARIANT NeverSentTwice
