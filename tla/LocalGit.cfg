\* Three proposals, two of them at once, two collisions or crashes, failed writes.
SPECIFICATION Spec
CONSTANTS
    Calls = {c1, c2}
    Packages = {p1, p2}
    Rules = {r1, r2}
    NoRule = NoRule
    NoCall = NoCall
    MaxProposals = 3
    MaxStaged = 1
    MaxTroubles = 2
INVARIANTS LocalGitTypeOK WrittenIsCommitted AppliedStays
SYMMETRY Symmetric
CHECK_DEADLOCK FALSE
