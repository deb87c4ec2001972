SPECIFICATION Spec
CONSTANTS
    Names = {"flask", "numpy"}
    Spellings = {"flask", "Flask", "numpy"}
    NormalName <- MCNormalName
    KeyOrder <- MCKeyOrder
    NoRule = NoRule
    Absent = Absent
    Settings <- MCSettings
    Sites <- MCSites
    Example <- MCExample
    Edits <- MCEdits
    Lax <- MCLax
    Proposals <- MCProposals
    Versions <- MCVersions
    MaxEdits = 1
    MaxProposals = 2
CHECK_DEADLOCK FALSE
INVARIANTS
    DeploymentTypeOK
    CheckConfigIsRight
    BackendSurvivesRestart
    ProposalsAreInForce
    CompiledIsEquivalent
    VersionErrorsAreKnown
