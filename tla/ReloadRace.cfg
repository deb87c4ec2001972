\* A reload request races the poller: the older content wins for good.
SPECIFICATION FairSpec
CONSTANTS
    p1 = p1
    p2 = p2
    Packages = {p1}
    Requesters = {q1}
    Reloaders = {m1}
    Poller = poller
    NoPackage = NoPackage
    Edits <- LivenessEdits
    MaxEdits = 3
    MaxFaults = 0
PROPERTY EditsReachMemory
CHECK_DEADLOCK FALSE
