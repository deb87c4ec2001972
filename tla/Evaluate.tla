------------------------------ MODULE Evaluate ------------------------------
(***************************************************************************)
(* GET /evaluate (evaluate.py) for one package: the registry of the moment *)
(* the call begins, the license and the latest version from PyPI           *)
(* (licenses.py), the vulnerabilities from OSV (cve.py), both through the  *)
(* Redis cache (cache.py), and the verdict.  Every await is a step of its  *)
(* own, so other calls, releases, disclosures, registry swaps, cache       *)
(* expiry and outages fall in between.                                     *)
(*                                                                         *)
(* Versions are numbers, 0 is "no version"; a CVSS score is a rank, 0 is   *)
(* "no numeric score".  asOf is history: what OSV knew when it answered.   *)
(***************************************************************************)
EXTENDS Naturals, Sequences, FiniteSetsExt

CONSTANTS
    Calls,           \* evaluations in progress at once
    MaxVersion,      \* bound: releases of the package
    LicenseOf,       \* the normalized license of each release
    FirstLatest,     \* the newest release when the server starts; 0: none
    Registries,      \* what state.registry may hold
    NoRegistry,      \* state.registry is None
    Reports,         \* what may be disclosed to OSV
    MaxReports,      \* bound: disclosures
    Failing,         \* the services that may fail: "redis", "pypi", "osv"
    NoEntry          \* nothing under a cache key, nothing fetched yet

Versions == 1..MaxVersion
Licenses == {"MIT", "GPL-3.0", "UNKNOWN"}
Scores == 0..3
Policies == {"block", "warn", "allow", "pending_approval"}
Rules == {"unknown", "preferred", "approved", "deprecated", "banned", "version-constrained"}

\* min and max are 0 when the rule does not state them.
RegistryContent ==
    [rule : Rules, min : 0..MaxVersion, max : 0..MaxVersion,
     auto : SUBSET Licenses, ban : SUBSET Licenses,
     unknown : Policies, threshold : Scores \ {0}]

\* A vulnerability: the releases it affects and the score resolve_cves finds
\* in it, which is none when OSV gives a CVSS vector only.
Report == [versions : SUBSET Versions, score : Scores]

ASSUME EvaluateAssumption ==
    /\ MaxVersion \in Nat \ {0}
    /\ LicenseOf \in [Versions -> Licenses]
    /\ FirstLatest \subseteq 0..MaxVersion
    /\ Registries \subseteq RegistryContent
    /\ NoRegistry \notin RegistryContent
    /\ Reports \subseteq Report
    /\ MaxReports \in Nat

VARIABLES
    registry,      \* state.registry
    latest,        \* the newest release on PyPI; 0: PyPI has no such package
    osv,           \* the disclosures, oldest first
    licenseCache,  \* the entry under license:<package>
    cveCache,      \* the entry under cve:<package>@<version>, 0 for "latest"
    pc,            \* where each call is
    asked,         \* the version it asks about
    snapshot,      \* the registry it was given
    fetched,       \* what resolve_license has returned to it
    cves,          \* what resolve_cves has returned to it
    answer         \* its verdict

world == <<latest, osv>>
caches == <<licenseCache, cveCache>>
calls == <<pc, asked, snapshot, fetched, cves, answer>>
evalVars == <<registry, world, caches, calls>>

PcStates == {"idle", "license", "pypi", "keepLicense", "cve", "osv", "keepCves", "auditing"}

Init ==
    /\ registry \in Registries \cup {NoRegistry}
    /\ latest \in FirstLatest
    /\ osv = <<>>
    /\ licenseCache = NoEntry
    /\ cveCache = [v \in 0..MaxVersion |-> NoEntry]
    /\ pc = [c \in Calls |-> "idle"]
    /\ asked = [c \in Calls |-> 0]
    /\ snapshot = [c \in Calls |-> NoRegistry]
    /\ fetched = [c \in Calls |-> NoEntry]
    /\ cves = [c \in Calls |-> NoEntry]
    /\ answer = [c \in Calls |-> NoEntry]

-----------------------------------------------------------------------------
(* The decisions.                                                          *)

\* Registry.lookup.
Satisfies(r, v) == (r.min > 0 => v >= r.min) /\ (r.max > 0 => v < r.max)

Lookup(r, v) ==
    CASE r.rule = "unknown" -> "UNKNOWN"
      [] r.rule = "approved" -> "REQUIRE_PROPOSE"
      [] r.rule \in {"deprecated", "banned"} -> "BLOCK"
      [] r.rule = "version-constrained" /\ v > 0 /\ ~Satisfies(r, v) -> "BLOCK"
      [] OTHER -> "ALLOW"

\* Mutant: the threshold itself is let through.
CveExceeds(r, score) == score > r.threshold

\* GlobalPolicies.cve_blocks: no score never blocks.
CveBlocks(r, score) == score > 0 /\ score >= r.threshold

\* evaluate_license: a ban comes before an auto-approval, and a license on no
\* list blocks.
LicenseVerdict(r, license) ==
    CASE license \in r.ban -> "BLOCK"
      [] license \notin r.ban /\ license \in r.auto -> "ALLOW"
      [] license \notin r.ban \cup r.auto /\ license = "UNKNOWN" ->
           CASE r.unknown = "allow" -> "ALLOW"
             [] r.unknown = "pending_approval" -> "REVIEW"
             [] OTHER -> "BLOCK"
      [] OTHER -> "BLOCK"

Verdict(verdict, denial, request) ==
    [verdict |-> verdict, denial |-> denial, request |-> request]

\* Steps 3 to 5 of evaluate, for a package the registry does not block.
Decide(r, v, license, score) ==
    CASE r = NoRegistry -> Verdict("PROVISIONALLY_ALLOWED", "", FALSE)
      [] r # NoRegistry /\ CveBlocks(r, score) -> Verdict("DENIED", "cve", FALSE)
      [] r # NoRegistry /\ ~CveBlocks(r, score) /\ Lookup(r, v) # "UNKNOWN" ->
           Verdict("ALLOWED", "", FALSE)
      [] OTHER ->
           CASE LicenseVerdict(r, license) = "BLOCK" -> Verdict("DENIED", "license", FALSE)
             [] OTHER -> Verdict("PROVISIONALLY_ALLOWED", "",
                                 LicenseVerdict(r, license) = "REVIEW")

-----------------------------------------------------------------------------
(* The world around the server.                                            *)

Fails(service) == service \in Failing

\* A reload swaps the registry (see RegistryReload).
Swap ==
    /\ registry' \in Registries
    /\ UNCHANGED <<world, caches, calls>>

Release ==
    /\ latest < MaxVersion
    /\ latest' = latest + 1
    /\ UNCHANGED <<registry, osv, caches, calls>>

Disclose ==
    /\ Len(osv) < MaxReports
    /\ \E report \in Reports : osv' = Append(osv, report)
    /\ UNCHANGED <<registry, latest, caches, calls>>

\* The TTL of an entry is over, or Redis has dropped it.
ExpireLicense ==
    /\ licenseCache # NoEntry
    /\ licenseCache' = NoEntry
    /\ UNCHANGED <<registry, world, cveCache, calls>>

ExpireCves(key) ==
    /\ cveCache[key] # NoEntry
    /\ cveCache' = [cveCache EXCEPT ![key] = NoEntry]
    /\ UNCHANGED <<registry, world, licenseCache, calls>>

\* What query_osv and _summarize_vulns make of the first n disclosures: the
\* highest score; without a version OSV returns those of every version.
Affects(report, v) == v = 0 \/ v \in report.versions
ScoreOf(v, n) == Max({0} \cup {osv[i].score : i \in {j \in 1..n : Affects(osv[j], v)}})

\* GET /pypi/<package>/json or /pypi/<package>/<version>/json: info.version is
\* the release asked for.
PypiAnswer(v) ==
    IF latest = 0 \/ v > latest
    THEN [license |-> "UNKNOWN", latest |-> 0]
    ELSE LET release == IF v = 0 THEN latest ELSE v
         IN  [license |-> LicenseOf[release], latest |-> release]

NoPypiAnswer == [license |-> "UNKNOWN", latest |-> 0]

-----------------------------------------------------------------------------
(* One evaluation.                                                         *)

Go(c, next) == pc' = [pc EXCEPT ![c] = next]

Begin(c, v) ==
    /\ pc[c] = "idle"
    /\ asked' = [asked EXCEPT ![c] = v]
    /\ snapshot' = [snapshot EXCEPT ![c] = registry]
    /\ IF registry # NoRegistry /\ Lookup(registry, v) = "BLOCK"
       THEN /\ Go(c, "auditing")
            /\ answer' = [answer EXCEPT ![c] = Verdict("DENIED", "registry", FALSE)]
       ELSE /\ IF registry # NoRegistry /\ Lookup(registry, v) # "UNKNOWN" /\ v > 0
               THEN Go(c, "cve")
               ELSE Go(c, "license")
            /\ UNCHANGED answer
    /\ UNCHANGED <<registry, world, caches, fetched, cves>>

\* JsonCache.get finds the entry ...
LicenseHit(c) ==
    /\ pc[c] = "license"
    /\ licenseCache # NoEntry
    /\ fetched' = [fetched EXCEPT ![c] = licenseCache]
    /\ Go(c, "cve")
    /\ UNCHANGED <<registry, world, caches, asked, snapshot, cves, answer>>

\* ... or does not, or fails and says nothing.
LicenseMiss(c) ==
    /\ pc[c] = "license"
    /\ licenseCache = NoEntry \/ Fails("redis")
    /\ Go(c, "pypi")
    /\ UNCHANGED <<registry, world, caches, asked, snapshot, fetched, cves, answer>>

\* An outage, like a package or a release PyPI does not have, is UNKNOWN.
Pypi(c) ==
    /\ pc[c] = "pypi"
    /\ \E info \in {PypiAnswer(asked[c])} \cup IF Fails("pypi") THEN {NoPypiAnswer} ELSE {} :
         fetched' = [fetched EXCEPT ![c] = info]
    /\ Go(c, "keepLicense")
    /\ UNCHANGED <<registry, world, caches, asked, snapshot, cves, answer>>

KeepLicense(c) ==
    /\ pc[c] = "keepLicense"
    /\ \/ licenseCache' = fetched[c]
       \/ Fails("redis") /\ UNCHANGED licenseCache
    /\ Go(c, "cve")
    /\ UNCHANGED <<registry, world, cveCache, asked, snapshot, fetched, cves, answer>>

\* version or latest_version; neither is the key "latest".
QueryVersion(c) ==
    IF asked[c] > 0 \/ fetched[c] = NoEntry THEN asked[c] ELSE fetched[c].latest

LicenseSeen(c) == IF fetched[c] = NoEntry THEN "UNKNOWN" ELSE fetched[c].license

\* Mutant: the verdict asks the registry of now.
ConcludeNow(c, info) ==
    /\ cves' = [cves EXCEPT ![c] = info]
    /\ answer' = [answer EXCEPT ![c] =
                    Decide(registry, asked[c], LicenseSeen(c), info.score)]
    /\ Go(c, "auditing")

\* resolve_cves has returned info: decide, then await the audit row.
Conclude(c, info) ==
    /\ cves' = [cves EXCEPT ![c] = info]
    /\ answer' = [answer EXCEPT ![c] =
                    Decide(snapshot[c], asked[c], LicenseSeen(c), info.score)]
    /\ Go(c, "auditing")

CveHit(c) ==
    /\ pc[c] = "cve"
    /\ cveCache[QueryVersion(c)] # NoEntry
    /\ Conclude(c, cveCache[QueryVersion(c)])
    /\ UNCHANGED <<registry, world, caches, asked, snapshot, fetched>>

CveMiss(c) ==
    /\ pc[c] = "cve"
    /\ cveCache[QueryVersion(c)] = NoEntry \/ Fails("redis")
    /\ Go(c, "osv")
    /\ UNCHANGED <<registry, world, caches, asked, snapshot, fetched, cves, answer>>

Osv(c) ==
    /\ pc[c] = "osv"
    /\ cves' = [cves EXCEPT ![c] = [score |-> ScoreOf(QueryVersion(c), Len(osv)),
                                    asOf |-> Len(osv)]]
    /\ Go(c, "keepCves")
    /\ UNCHANGED <<registry, world, caches, asked, snapshot, fetched, answer>>

\* Mutant: an outage is kept like an answer.
OsvOutageKept(c) ==
    /\ pc[c] = "osv"
    /\ Fails("osv")
    /\ cves' = [cves EXCEPT ![c] = [score |-> 0, asOf |-> Len(osv)]]
    /\ Go(c, "keepCves")
    /\ UNCHANGED <<registry, world, caches, asked, snapshot, fetched, answer>>

\* An outage counts as "no known CVEs" and is not kept.
OsvOutage(c) ==
    /\ pc[c] = "osv"
    /\ Fails("osv")
    /\ Conclude(c, [score |-> 0, asOf |-> Len(osv)])
    /\ UNCHANGED <<registry, world, caches, asked, snapshot, fetched>>

KeepCves(c) ==
    /\ pc[c] = "keepCves"
    /\ \/ cveCache' = [cveCache EXCEPT ![QueryVersion(c)] = cves[c]]
       \/ Fails("redis") /\ UNCHANGED cveCache
    /\ Conclude(c, cves[c])
    /\ UNCHANGED <<registry, world, licenseCache, asked, snapshot, fetched>>

\* The audit row is written, or the database refuses and the caller gets a 500;
\* a request for review follows in ApprovalFlow.
Audit(c) ==
    /\ pc[c] = "auditing"
    /\ Go(c, "idle")
    /\ asked' = [asked EXCEPT ![c] = 0]
    /\ snapshot' = [snapshot EXCEPT ![c] = NoRegistry]
    /\ fetched' = [fetched EXCEPT ![c] = NoEntry]
    /\ cves' = [cves EXCEPT ![c] = NoEntry]
    /\ answer' = [answer EXCEPT ![c] = NoEntry]
    /\ UNCHANGED <<registry, world, caches>>

Proceed(c) ==
    \/ LicenseHit(c)
    \/ LicenseMiss(c)
    \/ Pypi(c)
    \/ KeepLicense(c)
    \/ CveHit(c)
    \/ CveMiss(c)
    \/ Osv(c)
    \/ OsvOutage(c)
    \/ KeepCves(c)
    \/ Audit(c)

Environment ==
    \/ Swap
    \/ Release
    \/ Disclose
    \/ ExpireLicense
    \/ \E key \in 0..MaxVersion : ExpireCves(key)

CallStep(c) == Proceed(c) \/ \E v \in 0..MaxVersion : Begin(c, v)

Next == Environment \/ \E c \in Calls : CallStep(c)

Spec == Init /\ [][Next]_evalVars

-----------------------------------------------------------------------------
(* Properties.                                                             *)

Info == [license : Licenses, latest : 0..MaxVersion]
CveInfo == [score : Scores, asOf : 0..MaxReports]
Answer == [verdict : {"ALLOWED", "DENIED", "PROVISIONALLY_ALLOWED"},
           denial : {"", "registry", "cve", "license"}, request : BOOLEAN]

EvaluateTypeOK ==
    /\ registry \in RegistryContent \cup {NoRegistry}
    /\ latest \in 0..MaxVersion
    /\ osv \in Seq(Report)
    /\ Len(osv) <= MaxReports
    /\ licenseCache \in Info \cup {NoEntry}
    /\ cveCache \in [0..MaxVersion -> CveInfo \cup {NoEntry}]
    /\ pc \in [Calls -> PcStates]
    /\ asked \in [Calls -> 0..MaxVersion]
    /\ snapshot \in [Calls -> RegistryContent \cup {NoRegistry}]
    /\ fetched \in [Calls -> Info \cup {NoEntry}]
    /\ cves \in [Calls -> CveInfo \cup {NoEntry}]
    /\ answer \in [Calls -> Answer \cup {NoEntry}]

\* A cached CVE entry is what OSV said of exactly that version when it was
\* asked: never an outage, never another version's answer, whatever two calls
\* fetch and store at the same time (cve.py: "do NOT cache the negative").
CveCacheIsOsv ==
    \A v \in 0..MaxVersion :
        cveCache[v] # NoEntry => cveCache[v].score = ScoreOf(v, cveCache[v].asOf)

\* A call that lets a package through satisfies one registry as a whole, the
\* one it began with: its rule, its CVE threshold and its license policy, even
\* if a reload swapped the registry in between (reloader.py: "in-flight calls
\* finish against the old Registry").
AllowedByOneRegistry ==
    \A c \in Calls :
        pc[c] = "auditing" /\ answer[c].verdict # "DENIED" /\ snapshot[c] # NoRegistry =>
            /\ Lookup(snapshot[c], asked[c]) # "BLOCK"
            /\ cves[c].score > 0 => cves[c].score < snapshot[c].threshold
            /\ \/ snapshot[c].rule # "unknown"
               \/ LicenseSeen(c) \in snapshot[c].auto \ snapshot[c].ban
               \/ LicenseSeen(c) = "UNKNOWN" /\ snapshot[c].unknown \in {"allow", "pending_approval"}

=============================================================================
