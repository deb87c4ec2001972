\* Two concurrent calls, an operator's edits, one fault; only the poller reloads.
SPECIFICATION FairFlowSpec
CONSTANTS
    p1 = p1
    p2 = p2
    Packages = {p1, p2}
    Requesters = {q1}
    Reloaders = {}
    Poller = poller
    NoPackage = NoPackage
    Calls = {c1, c2}
    NoCall = NoCall
    NoOne = NoOne
    Edits <- SafetyEdits
    MaxEdits = 2
    MaxFaults = 1
    MaxAsks = 2
INVARIANTS FlowTypeOK ProposalsAccumulate AcceptedIsStored
PROPERTIES PendingGetsApproved EditsReachMemory ServiceSpec
CHECK_DEADLOCK FALSE
