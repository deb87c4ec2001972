\* One package under two spellings, registered, dropped and asked for again while the panel or a report is read.
SPECIFICATION ReportsSpec
SYMMETRY AnyProject
CONSTRAINT WhatIsRead
CONSTANTS
    Packages <- OnePackage
    Spellings <- TwoSpellings
    Normalized <- Lowered
    Projects = {a1, a2}
    ServerProject = ServerProject
    MaxRows = 2
    MaxRequests = 1
    Limit = 1
    TopLimit = 1
    Scopes <- OneOrAll
INVARIANTS ReportsTypeOK ReportsAddUp
PROPERTY PanelMissesNobody
