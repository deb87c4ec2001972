-------------------------------- MODULE Reports --------------------------------
(***************************************************************************)
(* The reports of api/v1/reports.py beside the store they read: each query *)
(* is an await of its own, between which rows arrive and leave the window, *)
(* and the registry is swapped.                                            *)
(*                                                                         *)
(* The security and the legal report have a total, the latest rows and a   *)
(* third and a fourth query of their own; the summary of the projects      *)
(* reads the rows and then the requests.  What is ranked or bucketed is    *)
(* ranked and bucketed from the latest rows; licenses are left out.        *)
(***************************************************************************)
EXTENDS AuditReports

CONSTANTS
    Limit,    \* how many of the latest rows a report shows, 100
    TopLimit, \* how many projects the legal report names, 10
    Scopes    \* the projects reports are asked for: one, or every one

AllProjects == Projects \cup {ServerProject}

ASSUME ReportsAssumption ==
    /\ {Limit, TopLimit} \subseteq Nat \ {0}
    /\ Scopes \subseteq {AllProjects} \cup {{pr} : pr \in AllProjects}

VARIABLE report  \* the report being read, as far as it has been read

allVars == <<auditVars, report>>

NoCounts == [pr \in AllProjects |-> 0]

NoReport ==
    [step |-> "none", kind |-> "none", scope |-> {}, rules |-> [p \in Packages |-> "unknown"],
     total |-> 0, recent |-> {}, hot |-> {}, alerts |-> {}, top |-> NoCounts,
     seen |-> {}, denials |-> NoCounts,
     \* history: the denials given, the rows and the projects when it began
     given |-> {}, from |-> 0, known |-> {}]

ReportsInit == Init /\ report = NoReport

-----------------------------------------------------------------------------
(* The queries.                                                            *)

\* ORDER BY ts DESC LIMIT.
Latest(rows) == {i \in rows : Cardinality({j \in rows : j >= i}) <= Limit}

\* recent_cve_alerts.
Alerts(scope) ==
    {i \in 1..Len(log) : log[i].category = "cve_alert" /\ log[i].project \in scope}

\* _hot_registry_packages: what the registry approves and OSV has condemned.
Hot(rules, rows) ==
    {p \in Packages : rules[p] = "approved"
       /\ \E i \in rows \cap Window :
            /\ log[i].verdict \in {"DENIED", "PROVISIONALLY_ALLOWED"}
            /\ Normalized[log[i].package] = p}

RowsOf(pr) == {i \in 1..Len(log) : log[i].project = pr}
DenialsOf(pr) == {i \in RowsOf(pr) : log[i].verdict = "DENIED"}
Tally(kind, scope) ==
    [pr \in AllProjects |-> Cardinality(Denials(kind, {pr} \cap scope) \cap DenialsOf(pr))]
RequestsOf(pr) == {s \in Spellings : pr \in Projects /\ requests[<<pr, s>>] # "none"}
Known == {pr \in AllProjects : RowsOf(pr) # {} \/ RequestsOf(pr) # {}}

-----------------------------------------------------------------------------
(* The steps.  Reports and panel only read: one of them at a time is       *)
(* enough.                                                                 *)

Begin(step, kind, scope, rules, known) ==
    /\ report.step = "none" /\ pc = "idle"
    /\ report' = [NoReport EXCEPT !.step = step, !.kind = kind, !.scope = scope, !.rules = rules,
                                  !.given = denied, !.from = Len(log), !.known = known]
    /\ UNCHANGED auditVars

\* security_report is given the registry of the moment it is called.
BeginSecurity(scope) == Begin("total", "cve", scope, registry, {})
BeginLegal(scope) == Begin("total", "license", scope, NoReport.rules, {})
BeginSummary == Begin("rows", "summary", {}, NoReport.rules, Known)

At(step) == report.step = step /\ UNCHANGED auditVars

\* _denial_report.
ReadTotal ==
    /\ At("total")
    /\ report' = [report EXCEPT !.step = "recent",
                                !.total = Cardinality(Denials(report.kind, report.scope))]

ReadRecent ==
    /\ At("recent")
    /\ report' = [report EXCEPT !.step = IF report.kind = "cve" THEN "hot" ELSE "projects",
                                !.recent = Latest(Denials(report.kind, report.scope))]

ReadHot ==
    /\ At("hot")
    /\ report' = [report EXCEPT !.step = "alerts",
                                !.hot = Hot(report.rules, Denials("cve", report.scope))]

ReadAlerts ==
    /\ At("alerts")
    /\ report' = [report EXCEPT !.step = "done", !.alerts = Latest(Alerts(report.scope))]

\* _top_projects_for_category: GROUP BY project ORDER BY denials DESC LIMIT; in
\* which order SQLite has projects with as many denials is not said.
ReadTopProjects ==
    /\ At("projects")
    /\ LET tally == Tally(report.kind, report.scope)
           denying == {pr \in AllProjects : tally[pr] # 0}
       IN  \E named \in SUBSET denying :
             /\ Cardinality(named) <= TopLimit
             /\ named # denying => Cardinality(named) = TopLimit
             /\ \A pr \in named, other \in denying \ named : tally[other] <= tally[pr]
             /\ report' = [report EXCEPT
                              !.step = "done",
                              !.top = [pr \in AllProjects |->
                                         IF pr \in named THEN tally[pr] ELSE 0]]

\* projects_summary.
ReadSummaryRows ==
    /\ At("rows")
    /\ report' = [report EXCEPT !.step = "requests",
                                !.seen = {pr \in AllProjects : RowsOf(pr) # {}},
                                !.denials = [pr \in AllProjects |-> Cardinality(DenialsOf(pr))]]

ReadSummaryRequests ==
    /\ At("requests")
    /\ report' = [report EXCEPT !.step = "done",
                                !.seen = @ \cup {pr \in AllProjects : RequestsOf(pr) # {}}]

EndReport ==
    /\ At("done")
    /\ report' = NoReport

Reading ==
    \/ \E scope \in Scopes : BeginSecurity(scope) \/ BeginLegal(scope)
    \/ BeginSummary
    \/ ReadTotal \/ ReadRecent \/ ReadHot \/ ReadAlerts \/ ReadTopProjects
    \/ ReadSummaryRows \/ ReadSummaryRequests
    \/ EndReport

Beside(action) == action /\ UNCHANGED report

\* From the last query to the answer there is no await.
ReportsNext ==
    \/ report.step # "done" /\ Beside(Store)
    \/ report.step = "none" /\ Beside(Panel)
    \/ Reading

ReportsSpec == ReportsInit /\ [][ReportsNext]_allVars

-----------------------------------------------------------------------------
(* Properties.                                                             *)

DenialSteps == {"total", "recent", "hot", "alerts", "projects", "done"}

ReportsTypeOK ==
    /\ AuditTypeOK
    /\ report \in [step : DenialSteps \cup {"none", "rows", "requests"},
                   kind : {"cve", "license", "summary", "none"},
                   scope : Scopes \cup {{}}, rules : [Packages -> Statuses],
                   total : 0..MaxRows, recent : SUBSET (1..MaxRows),
                   hot : SUBSET Packages, alerts : SUBSET (1..MaxRows),
                   top : [AllProjects -> 0..MaxRows],
                   seen : SUBSET AllProjects, denials : [AllProjects -> 0..MaxRows],
                   given : SUBSET denied, from : 0..Len(log), known : SUBSET AllProjects]
    /\ report.kind \in {"cve", "license"} => report.step \in DenialSteps
    /\ report.kind = "summary" => report.step \in {"rows", "requests", "done"}

Given(denials, kind, scope) ==
    Cardinality({d \in denials : d.category = kind /\ d.project \in scope})

OnlyLaterHide(rows, shown) ==
    \A i \in rows \ shown : Cardinality({j \in shown : j > i}) = Limit

OnlyMoreDeniedHide(denials, top) ==
    Cardinality({pr \in AllProjects : top[pr] # 0 /\ top[pr] >= denials}) = TopLimit

\* A denial report is about what callers were told, although each part is read
\* at another time: the total and the totals of the projects it names lie between
\* the denials given when it began and those given by now; a project that had
\* been denied something is not named only for TopLimit that were denied as often;
\* a denial or an alert from before is missing from the latest ones only for
\* Limit later ones; and a package is called hot if the registry approves it and a
\* denial from before that is still in the window names it, under any spelling.
DenialReportsAddUp ==
    report.step = "done" /\ report.kind \in {"cve", "license"} =>
      LET before == {i \in Denials(report.kind, report.scope) : i <= report.from}
      IN  /\ report.total \in Given(report.given, report.kind, report.scope)
                                ..Given(denied, report.kind, report.scope)
          /\ OnlyLaterHide(before, report.recent)
          /\ report.kind = "cve" =>
               /\ OnlyLaterHide({i \in Alerts(report.scope) : i <= report.from},
                                report.alerts)
               /\ \A i \in before \cap Window :
                    LET p == Normalized[log[i].package]
                    IN  report.rules[p] = "approved" => p \in report.hot
          /\ report.kind = "license" =>
               \A pr \in report.scope :
                 \/ report.top[pr] \in Given(report.given, "license", {pr})
                                         ..Given(denied, "license", {pr})
                 \/ OnlyMoreDeniedHide(Given(report.given, "license", {pr}), report.top)

\* The summary lists every project that had a row or a request, and its
\* denials are those its callers were given.
SummaryAddsUp ==
    report.step = "done" /\ report.kind = "summary" =>
      LET all(denials, pr) == Cardinality({d \in denials : d.project = pr})
      IN  /\ report.known \subseteq report.seen
          /\ \A pr \in AllProjects :
               report.denials[pr] \in all(report.given, pr)..all(denied, pr)

\* audit.py:40: the category of alerts is one of its own "so the existing
\* security_report denial query does not double-count alert rows as denials".
ReportsAddUp == DenialReportsAddUp /\ SummaryAddsUp

=============================================================================
