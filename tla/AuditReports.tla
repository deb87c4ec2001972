----------------------------- MODULE AuditReports -----------------------------
(***************************************************************************)
(* The audit store (audit.py) and the triage panel of api/v1/registry.py,  *)
(* which reads the requests, the audit rows and the requests again, one    *)
(* await after the other, and then filters against the registry of that    *)
(* moment.  Reports has the reports of api/v1/reports.py.                  *)
(*                                                                         *)
(* Rows are in the order of their timestamps; versions, scores and         *)
(* licenses are left out.  Which verdict an evaluation may end with is     *)
(* Evaluate's; when a reload marks requests, and what two reloads at once  *)
(* do, is RegistryReload's: here one reload has marked its rows before the *)
(* next one swaps.                                                         *)
(***************************************************************************)
EXTENDS Naturals, Sequences, FiniteSets

CONSTANTS
    Packages,      \* normalized names
    Spellings,     \* the names callers use
    Normalized,    \* registry.normalize_name
    Projects,
    ServerProject, \* the project of the scanner's rows, "lex-align-server"
    MaxRows,       \* bound: audit rows
    MaxRequests    \* bound: rows of approval_requests

ASSUME AuditAssumption ==
    /\ Normalized \in [Spellings -> Packages]
    /\ Packages \subseteq Spellings
    /\ ServerProject \notin Projects
    /\ {MaxRows, MaxRequests} \subseteq Nat

Categories == {"registry", "license", "cve"}
Row == [package : Spellings, project : Projects \cup {ServerProject},
        verdict : {"ALLOWED", "DENIED", "PROVISIONALLY_ALLOWED", "CVE_ALERT"},
        category : Categories \cup {"cve_alert", ""}]

VARIABLES
    registry,  \* the rule of each package
    marking,   \* packages a reload has yet to mark
    log,       \* audit_log
    expired,   \* rows older than the window of 30 days
    requests,  \* approval_requests, by project and spelling
    pc,        \* where GET /registry/pending is
    explicit,  \* the packages list_pending_by_package has returned
    grouped,   \* list_implicit_candidates: the rows of each package, counted
    implicit,  \* ... and what it has returned: the reason for each package
    asked,     \* history: requested while unregistered, not registered since
    steady,    \* history: who waited and who had never asked when the panel began,
               \* the rows there were, and who asked before its last query
    denied     \* history: the denials callers were given, and when

registryVars == <<registry, marking>>
store == <<log, expired, requests>>
panel == <<pc, explicit, grouped, implicit>>
auditVars == <<registryVars, store, panel, asked, steady, denied>>

Statuses == {"unknown", "approved", "banned"}
Reasons == {"provisional-no-rationale", "repeatedly-denied", "pre-screened"}
NotReading == [asked |-> {}, unasked |-> {}, from |-> 0, late |-> {}]
Unregistered == {p \in Packages : registry[p] = "unknown"}
Nothing == [p \in Packages |-> ""]
NoRows == [p \in Packages |-> [evaluations |-> 0, denials |-> 0, provisional |-> 0]]

Init ==
    /\ registry \in [Packages -> {"unknown", "approved"}]
    /\ marking = {}
    /\ log = <<>>
    /\ expired = 0
    /\ requests = [r \in Projects \X Spellings |-> "none"]
    /\ pc = "idle"
    /\ explicit = {}
    /\ grouped = NoRows
    /\ implicit = Nothing
    /\ asked = {}
    /\ steady = NotReading
    /\ denied = {}

-----------------------------------------------------------------------------
(* Reading the store.                                                      *)

Window == {i \in 1..Len(log) : i > expired}

\* The total of a denial report: SELECT COUNT(*) ... WHERE denial_category = ?
\* AND project = ?; a scope is one project, or every one.
Denials(category, scope) ==
    {i \in 1..Len(log) : log[i].category = category /\ log[i].project \in scope}

\* list_pending_by_package.
Pending ==
    {Normalized[r[2]] : r \in {s \in Projects \X Spellings : requests[s] = "pending"}}

\* The audit rows of list_implicit_candidates, grouped.
CountRows(p, verdicts) ==
    Cardinality({i \in Window : Normalized[log[i].package] = p /\ log[i].verdict \in verdicts})

Grouped ==
    [p \in Packages |->
        [evaluations |-> CountRows(p, {"ALLOWED", "DENIED", "PROVISIONALLY_ALLOWED", "CVE_ALERT"}),
         denials |-> CountRows(p, {"DENIED"}),
         provisional |-> CountRows(p, {"PROVISIONALLY_ALLOWED"})]]

\* _classify_implicit.
Reason(entry) ==
    CASE entry.evaluations = 0 -> ""
      [] entry.evaluations > 0 /\ entry.provisional > 0 -> "provisional-no-rationale"
      [] entry.evaluations > 0 /\ entry.provisional = 0 /\ entry.denials >= 3 ->
           "repeatedly-denied"
      [] OTHER -> "pre-screened"

\* SELECT DISTINCT package FROM approval_requests, whatever their status.
Requested ==
    {Normalized[r[2]] : r \in {s \in Projects \X Spellings : requests[s] # "none"}}

-----------------------------------------------------------------------------
(* Writing it.                                                             *)

Evaluation(s, pr, verdict, category) ==
    [package |-> s, project |-> pr, verdict |-> verdict, category |-> category]

Denial(at, category, pr) == [at |-> at, category |-> category, project |-> pr]

\* What /evaluate may record of a package.
Outcomes(s, pr) ==
    CASE registry[Normalized[s]] = "approved" ->
           {Evaluation(s, pr, "ALLOWED", ""), Evaluation(s, pr, "DENIED", "cve")}
      [] registry[Normalized[s]] = "banned" ->
           {Evaluation(s, pr, "DENIED", "registry")}
      [] OTHER ->
           {Evaluation(s, pr, "PROVISIONALLY_ALLOWED", "")}
           \cup {Evaluation(s, pr, "DENIED", c) : c \in {"license", "cve"}}

\* record_evaluation.
Evaluate(s, pr) ==
    /\ Len(log) < MaxRows
    /\ \E row \in Outcomes(s, pr) :
         /\ log' = Append(log, row)
         /\ denied' = denied \cup (IF row.category = "" THEN {}
                                 ELSE {Denial(Len(log'), row.category, pr)})
    /\ UNCHANGED <<registryVars, expired, requests, panel, asked, steady>>

\* Mutant: an alert is filed as a denial.
AlertAsDenial(p) ==
    /\ Len(log) < MaxRows
    /\ registry[p] # "unknown"
    /\ log' = Append(log, Evaluation(p, ServerProject, "CVE_ALERT", "cve"))
    /\ UNCHANGED <<registryVars, expired, requests, panel, asked, steady, denied>>

\* record_cve_alert, from the scanner.
Alert(p) ==
    /\ Len(log) < MaxRows
    /\ registry[p] # "unknown"
    /\ log' = Append(log, Evaluation(p, ServerProject, "CVE_ALERT", "cve_alert"))
    /\ UNCHANGED <<registryVars, expired, requests, panel, asked, steady, denied>>

\* The window moves over the oldest row in it.
Expire ==
    /\ expired < Len(log)
    /\ expired' = expired + 1
    /\ UNCHANGED <<registryVars, log, requests, panel, asked, steady, denied>>

Room(pr, s) ==
    LET rows == {r \in Projects \X Spellings : requests[r] # "none"}
    IN  Cardinality(rows \cup {<<pr, s>>}) <= MaxRequests

Asks(s) ==
    /\ asked' = asked \cup (IF Normalized[s] \in Unregistered THEN {Normalized[s]} ELSE {})
    /\ steady' = IF pc \in {"rows", "requests"}
                 THEN [steady EXCEPT !.late = @ \cup ({Normalized[s]} \cap steady.unasked)] ELSE steady

\* Mutant: asking again does not reopen the request.
RequestOnce(pr, s) ==
    /\ requests' = [requests EXCEPT ![<<pr, s>>] = IF @ = "none" THEN "pending" ELSE @]
    /\ Room(pr, s)
    /\ Asks(s)
    /\ UNCHANGED <<registryVars, log, expired, panel, denied>>

\* upsert_approval_request.
Request(pr, s) ==
    /\ requests' = [requests EXCEPT ![<<pr, s>>] = "pending"]
    /\ Room(pr, s)
    /\ Asks(s)
    /\ UNCHANGED <<registryVars, log, expired, panel, denied>>

\* A reload swaps the registry, which adds a package, changes it or drops it,
Swap(p, status) ==
    /\ marking = {}
    /\ registry[p] # status
    /\ registry' = [registry EXCEPT ![p] = status]
    /\ marking' = IF registry[p] = "unknown" THEN {p} ELSE {}
    /\ asked' = asked \ {p}
    /\ UNCHANGED <<store, panel, steady, denied>>

\* Mutant: the rows get a status the schema does not know.
MarkClosed(p) ==
    /\ p \in marking
    /\ marking' = marking \ {p}
    /\ requests' = [r \in Projects \X Spellings |->
                      IF Normalized[r[2]] = p /\ requests[r] = "pending"
                      THEN "closed" ELSE requests[r]]
    /\ UNCHANGED <<registry, log, expired, panel, asked, steady, denied>>

\* and mark_approved_by_package follows.
Mark(p) ==
    /\ p \in marking
    /\ marking' = marking \ {p}
    /\ requests' = [r \in Projects \X Spellings |->
                      IF Normalized[r[2]] = p /\ requests[r] = "pending"
                      THEN "approved" ELSE requests[r]]
    /\ UNCHANGED <<registry, log, expired, panel, asked, steady, denied>>

-----------------------------------------------------------------------------
(* GET /registry/pending.                                                  *)

ReadExplicit ==
    /\ pc = "idle"
    /\ pc' = "rows"
    /\ explicit' = Pending
    /\ steady' = [asked |-> asked, unasked |-> Packages \ Requested,
                  from |-> Len(log), late |-> {}]
    /\ UNCHANGED <<registryVars, store, grouped, implicit, asked, denied>>

ReadRows ==
    /\ pc = "rows"
    /\ pc' = "requests"
    /\ grouped' = Grouped
    /\ UNCHANGED <<registryVars, store, explicit, implicit, asked, steady, denied>>

ReadRequests ==
    /\ pc = "requests"
    /\ pc' = "filter"
    /\ implicit' = [p \in Packages |-> IF p \in Requested THEN "" ELSE Reason(grouped[p])]
    /\ grouped' = NoRows
    /\ UNCHANGED <<registryVars, store, explicit, asked, steady, denied>>

\* The two lists of the answer, filtered against the registry of now.
Shown ==
    [explicit |-> explicit \cap Unregistered,
     implicit |-> [p \in Packages |->
                     IF p \in Unregistered \ explicit THEN implicit[p] ELSE ""]]

Answer ==
    /\ pc = "filter"
    /\ pc' = "idle"
    /\ explicit' = {}
    /\ grouped' = NoRows
    /\ implicit' = Nothing
    /\ steady' = NotReading
    /\ UNCHANGED <<registryVars, store, asked, denied>>

Panel == ReadExplicit \/ ReadRows \/ ReadRequests \/ Answer

Store ==
    \/ \E s \in Spellings, pr \in Projects : Evaluate(s, pr) \/ Request(pr, s)
    \/ \E p \in Packages : Alert(p) \/ Mark(p) \/ \E st \in Statuses : Swap(p, st)
    \/ Expire

Next == Store \/ Panel

Spec == Init /\ [][Next]_auditVars

-----------------------------------------------------------------------------
(* Properties.                                                             *)

AuditTypeOK ==
    /\ registry \in [Packages -> Statuses]
    /\ marking \subseteq Packages
    /\ log \in Seq(Row)
    /\ expired \in 0..Len(log)
    /\ requests \in [Projects \X Spellings -> {"none", "pending", "approved"}]
    /\ pc \in {"idle", "rows", "requests", "filter"}
    /\ explicit \subseteq Packages
    /\ grouped \in [Packages -> [evaluations : 0..MaxRows, denials : 0..MaxRows,
                                 provisional : 0..MaxRows]]
    /\ implicit \in [Packages -> Reasons \cup {""}]
    /\ asked \subseteq Packages
    /\ steady \in [asked : SUBSET Packages, unasked : SUBSET Packages,
                   from : 0..Len(log), late : SUBSET Packages]
    /\ denied \subseteq [at : 1..MaxRows, category : Categories, project : Projects]

\* p has been evaluated in the window before the panel being read began.
EvaluatedBefore(p) == \E i \in Window : i <= steady.from /\ Normalized[log[i].package] = p

\* Who waits while the triage panel is read, and is not registered when it
\* answers, is on it: a package that was asked for and not registered since is
\* among the explicit ones, under any spelling and after any number of earlier
\* approvals, and one that was evaluated and never asked for is among the
\* implicit ones.  Except for a package that is first asked for after the
\* panel's query of the pending requests and before its query of every request:
\* it falls between the lists, and only the next panel has it.
PanelMissesNobody ==
    [][pc = "filter" /\ pc' = "idle" =>
         /\ steady.asked \cap Unregistered \subseteq Shown.explicit
         /\ \A p \in Unregistered \cap (steady.unasked \ steady.late) :
              EvaluatedBefore(p) => Shown.implicit[p] # ""]_auditVars

=============================================================================
