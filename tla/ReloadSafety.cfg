\* A reload call and the poller, a crash or a failed database call.
SPECIFICATION FairSpec
CONSTANTS
    p1 = p1
    p2 = p2
    Packages = {p1, p2}
    Requesters = {q1}
    Reloaders = {m1}
    Poller = poller
    NoPackage = NoPackage
    Edits <- SafetyEdits
    MaxEdits = 3
    MaxFaults = 1
INVARIANT ApprovedWereRegistered
PROPERTIES AddedRowsAreFlipped RacyServiceSpec
CHECK_DEADLOCK FALSE
