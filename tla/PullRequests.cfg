\* Two proposals, other merges, reloads or direct edits, a review and a fault.
SPECIFICATION FairSpec
CONSTANTS
    Calls = {c1, c2}
    Hooks = {h1, h2}
    Poller = Poller
    Packages = {p1, p2}
    Rules = {r1}
    NoRule = NoRule
    NoBranch = NoBranch
    NoFile = NoFile
    Nobody = Nobody
    MaxRequests = 2
    MaxReviews = 1
    MaxFaults = 1
INVARIANTS GitHubTypeOK OnlyReviewedIsLive PullsAreForOnePackage
PROPERTIES ReviewIsKept MainReachesServer
CHECK_DEADLOCK FALSE
