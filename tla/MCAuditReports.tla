---------------------------- MODULE MCAuditReports ----------------------------
(* Small instances of AuditReports and Reports for TLC.                    *)
EXTENDS Reports, TLC

\* One package, under two spellings.
OnePackage == {"my_pkg"}
TwoSpellings == {"my_pkg", "My-Pkg"}
OneOrAll == {AllProjects} \cup {{pr} : pr \in Projects}
Lowered == [s \in TwoSpellings |-> "my_pkg"]

AnyProject == Permutations(Projects)

\* What a query does not look at is left out of the instance while it is under
\* way: denial reports read no request, the panel no project of a row.
WhatIsRead ==
    /\ report.kind \in {"cve", "license"} => \A r \in DOMAIN requests : requests[r] = "none"
    /\ pc # "idle" =>
         \A i, j \in 1..Len(log) : {log[i].project, log[j].project} \cap Projects # Projects

=============================================================================
