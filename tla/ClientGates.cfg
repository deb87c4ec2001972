\* One gate at a time, while the file, the verdicts and the server change.
SPECIFICATION Spec
CONSTANTS
    Names = {"a", "b"}
    Rank <- Alphabet
    MaxVersion = 1
    Documents <- Additions
    Absent = Absent
    Garbled = Garbled
    Settings = {TRUE, FALSE}
    Faults = {"down", "failing"}
    MaxChanges = 2
    Overlap = FALSE
    InUse = {"edit", "commit", "audit"}
INVARIANT GatesTypeOK
PROPERTIES EditGateHolds CommitGateHolds AuditGateHolds
