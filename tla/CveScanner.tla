----------------------------- MODULE CveScanner -----------------------------
(***************************************************************************)
(* The background CVE re-scan (cve_scanner.py) beside the evaluations of   *)
(* Evaluate, as far as one package is concerned: each tick walks the       *)
(* registry of the moment it begins, asks resolve_cves without a version,  *)
(* through the cache the evaluations use, and writes a CVE_ALERT row when  *)
(* the score reaches the threshold.  Other packages of the same tick only  *)
(* delay this one, or end the tick before it is reached.                   *)
(***************************************************************************)
EXTENDS Evaluate

CONSTANT MaxBroken   \* bound: ticks that break off
ASSUME ScannerAssumption == MaxBroken \in Nat

VARIABLES
    scan,      \* where the scanner is with this package
    walked,    \* the registry the tick walks
    found,     \* what resolve_cves has returned to it
    alerts,    \* the alerts: what they rest on, and the threshold then
    ownEntry,  \* history: the entry "latest" was stored by the scanner
    due,       \* history: the tick must alert (see DueAlertsAreWritten)
    alerted,   \* history: the last tick has alerted
    broken     \* ticks that have broken off

scanVars == <<scan, walked, found, alerts, ownEntry, due, alerted, broken>>
allVars == <<evalVars, scanVars>>

ScanStates == {"sleeping", "cve", "osv", "keep", "alerting"}
NoVersion == 0

ScannerInit ==
    /\ Init
    /\ scan = "sleeping"
    /\ walked = NoRegistry
    /\ found = NoEntry
    /\ alerts = {}
    /\ ownEntry = FALSE
    /\ due = FALSE
    /\ alerted = FALSE
    /\ broken = 0

-----------------------------------------------------------------------------

Registered(r) == r # NoRegistry /\ r.rule # "unknown"

\* The interval is over and scan_once has found the package in the registry.
\* The interval (24h) is longer than the TTL (6h), so what the tick before has
\* stored is gone.
Tick ==
    /\ scan = "sleeping"
    /\ Registered(registry)
    /\ ~(ownEntry /\ cveCache[NoVersion] # NoEntry)
    /\ scan' = "cve"
    /\ walked' = registry
    /\ due' = (cveCache[NoVersion] = NoEntry
               /\ CveBlocks(registry, ScoreOf(NoVersion, Len(osv))))
    /\ alerted' = FALSE
    /\ UNCHANGED <<evalVars, found, alerts, ownEntry, broken>>

\* info.ids: the vulnerabilities in the answer, each of which OSV gives an id.
Ids(info) == {i \in 1..info.asOf : Affects(osv[i], NoVersion)}

\* Mutant: only a score above the threshold is worth an alert.
ScoredAbove(info) ==
    /\ found' = info
    /\ scan' = IF info.score > walked.threshold THEN "alerting" ELSE "sleeping"

\* Mutant: only the score is kept.
ScoreOnly(info) ==
    /\ found' = [score |-> info.score]
    /\ scan' = IF CveBlocks(walked, info.score) THEN "alerting" ELSE "sleeping"

\* Mutant: every package with a score gets an alert.
AnyScore(info) ==
    /\ found' = info
    /\ scan' = IF info.score > 0 THEN "alerting" ELSE "sleeping"

\* resolve_cves has returned info to scan_once.
Scored(info) ==
    /\ found' = info
    /\ scan' = IF Ids(info) # {} /\ CveBlocks(walked, info.score)
               THEN "alerting" ELSE "sleeping"

ScanHit ==
    /\ scan = "cve"
    /\ cveCache[NoVersion] # NoEntry
    /\ Scored(cveCache[NoVersion])
    /\ UNCHANGED <<evalVars, walked, alerts, ownEntry, due, alerted, broken>>

\* No entry, or Redis fails, which JsonCache does not tell.
ScanMiss ==
    /\ scan = "cve"
    /\ cveCache[NoVersion] = NoEntry \/ Fails("redis")
    /\ scan' = "osv"
    /\ UNCHANGED <<evalVars, walked, found, alerts, ownEntry, due, alerted, broken>>

ScanOsv ==
    /\ scan = "osv"
    /\ found' = [score |-> ScoreOf(NoVersion, Len(osv)), asOf |-> Len(osv)]
    /\ scan' = "keep"
    /\ UNCHANGED <<evalVars, walked, alerts, ownEntry, due, alerted, broken>>

\* An outage counts as no vulnerability: the tick goes on with the next package.
ScanOutage ==
    /\ scan = "osv"
    /\ Fails("osv")
    /\ scan' = "sleeping"
    /\ due' = FALSE
    /\ UNCHANGED <<evalVars, walked, found, alerts, ownEntry, alerted, broken>>

ScanKeep ==
    /\ scan = "keep"
    /\ \/ cveCache' = [cveCache EXCEPT ![NoVersion] = found] /\ ownEntry' = TRUE
       \/ Fails("redis") /\ UNCHANGED <<cveCache, ownEntry>>
    /\ Scored(found)
    /\ UNCHANGED <<registry, world, licenseCache, calls, walked, alerts, due, alerted, broken>>

\* record_cve_alert; the row does not name a version.
Alert ==
    /\ scan = "alerting"
    /\ alerts' = alerts \cup {[score |-> found.score, asOf |-> found.asOf,
                              threshold |-> walked.threshold]}
    /\ alerted' = TRUE
    /\ scan' = "sleeping"
    /\ UNCHANGED <<evalVars, walked, found, ownEntry, due, broken>>

\* The database refuses the alert of this package or of one before it, or the
\* server stops: the tick ends here, without a retry.
Break ==
    /\ scan # "sleeping"
    /\ broken < MaxBroken
    /\ broken' = broken + 1
    /\ scan' = "sleeping"
    /\ due' = FALSE
    /\ UNCHANGED <<evalVars, walked, found, alerts, ownEntry, alerted>>

Scan == Tick \/ ScanHit \/ ScanMiss \/ ScanOsv \/ ScanOutage \/ ScanKeep \/ Alert

\* An evaluation that stores under "latest" takes the entry over, and the tick
\* may find what OSV answered before the tick began.
Foreign(c) == pc[c] = "keepCves" /\ pc'[c] # "keepCves" /\ QueryVersion(c) = NoVersion

\* A step A of Evaluate, with what it means for the two histories.
Beside(A) ==
    /\ A
    /\ ownEntry' = (ownEntry /\ cveCache'[NoVersion] = cveCache[NoVersion]
                    /\ ~ \E c \in Calls : Foreign(c))
    /\ due' = (due /\ ~ \E c \in Calls : Foreign(c))
    /\ UNCHANGED <<scan, walked, found, alerts, alerted, broken>>

EvaluateStep == Beside(Next)

ScannerNext == EvaluateStep \/ Scan \/ Break

ScannerSpec == ScannerInit /\ [][ScannerNext]_allVars

\* The outbound timeout ends every request of an evaluation, and every entry has
\* a TTL.  Nobody has to ask, and no tick has to come.
ScannerFairness ==
    /\ \A c \in Calls : WF_allVars(Beside(Proceed(c)))
    /\ \A key \in 0..MaxVersion : WF_allVars(Beside(ExpireCves(key)))

FairScannerSpec == ScannerSpec /\ ScannerFairness

-----------------------------------------------------------------------------
(* Properties.                                                             *)

ScannerTypeOK ==
    /\ EvaluateTypeOK
    /\ scan \in ScanStates
    /\ walked \in RegistryContent \cup {NoRegistry}
    /\ found \in CveInfo \cup {NoEntry}
    /\ alerts \subseteq [score : Scores, asOf : 0..MaxReports, threshold : Scores]
    /\ ownEntry \in BOOLEAN
    /\ due \in BOOLEAN
    /\ alerted \in BOOLEAN
    /\ broken \in 0..MaxBroken

\* dashboards.md:165: "every alert is at most a scan-cycle behind the OSV
\* publish".  A tick that runs to its end alerts for every vulnerability that
\* OSV knew at its beginning and that reaches the threshold of its registry,
\* whatever is evaluated, released, disclosed or reloaded meanwhile.  There are
\* two exceptions: OSV does not answer the tick, which then says nothing until
\* the next one; and an unpinned evaluation while PyPI does not name the latest
\* release: what it stores under "latest" the tick takes for an answer of now.
DueAlertsAreWritten ==
    [][scan # "sleeping" /\ scan' = "sleeping" /\ due => ~due' \/ alerted']_allVars

\* Every alert rests on an answer of OSV, whoever fetched it and however long it
\* was cached, and that answer reaches the threshold of the registry the tick
\* walked: an outage, a reload or another caller's entry never makes one up.
AlertsAreOsvs ==
    \A a \in alerts : a.score = ScoreOf(NoVersion, a.asOf) /\ a.score >= a.threshold

\* evaluate.py:7: "a newly published critical CVE on a preferred package still
\* blocks".  Once OSV has a vulnerability of a release with a score, and after
\* the caches had time to expire, no evaluation that is answered by OSV or by the
\* cache lets that release through under a threshold the score reaches, whatever
\* the rule of the package is.  An evaluation during an outage does.
Known(v, score) == \E i \in 1..Len(osv) : v \in osv[i].versions /\ osv[i].score >= score

Informed(c) == cves[c] # NoEntry /\ cves[c].score = ScoreOf(asked[c], cves[c].asOf)

CriticalEndsUpBlocked ==
    \A v \in Versions, score \in {report.score : report \in Reports} \ {0} :
        Known(v, score) ~>
            [](\A c \in Calls :
                 pc[c] = "auditing" /\ asked[c] = v /\ Informed(c)
                   /\ snapshot[c] # NoRegistry /\ snapshot[c].threshold <= score =>
                     answer[c].verdict = "DENIED")

=============================================================================
