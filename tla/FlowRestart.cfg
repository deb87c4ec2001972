\* A restart after a proposal was applied.
SPECIFICATION FairFlowSpec
CONSTANTS
    p1 = p1
    p2 = p2
    Packages = {p1}
    Requesters = {q1}
    Reloaders = {}
    Poller = poller
    NoPackage = NoPackage
    Calls = {c1}
    NoCall = NoCall
    NoOne = NoOne
    Edits <- LivenessEdits
    MaxEdits = 1
    MaxFaults = 1
    MaxAsks = 1
PROPERTY RestartReadsFile
CHECK_DEADLOCK FALSE
