SPECIFICATION Spec
CONSTANTS
    SessionStart = SessionStart
    PreToolUse = PreToolUse
    Events <- MCEvents
    Absent = Absent
    Broken = Broken
    MaxEntries = 2
    MaxEdits = 3
SYMMETRY AnyEvent
INVARIANTS
    InstallersTypeOK
    InstalledWhole
    CommandsTakeEffect
PROPERTY
    UserEditsSurvive
