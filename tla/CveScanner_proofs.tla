-------------------------- MODULE CveScanner_proofs --------------------------
(***************************************************************************)
(* Proofs about Evaluate and CveScanner, for any number of calls, releases *)
(* and disclosures, and any registries.                                    *)
(***************************************************************************)
EXTENDS CveScanner, TLAPS

-----------------------------------------------------------------------------
(* The answers of OSV.                                                     *)

\* A highest score is the highest.
LEMMA HighestScore ==
  ASSUME NEW S \in SUBSET Scores, 0 \in S
  PROVE  Max(S) \in S /\ \A s \in S : s <= Max(S)
<1>1. \A s \in S : s \in {0, 1, 2, 3}
  BY DEF Scores
<1>2. \E x \in S : \A y \in S : x >= y
  <2>1. CASE 3 \in S  BY <1>1, <2>1
  <2>2. CASE 3 \notin S /\ 2 \in S  BY <1>1, <2>2
  <2>3. CASE 3 \notin S /\ 2 \notin S /\ 1 \in S  BY <1>1, <2>3
  <2>4. CASE 3 \notin S /\ 2 \notin S /\ 1 \notin S
    <3>1. \A y \in S : y = 0  BY <1>1, <2>4
    <3>. QED  BY <3>1
  <2>. QED  BY <2>1, <2>2, <2>3, <2>4
<1>3. Max(S) \in S /\ \A y \in S : Max(S) >= y
  BY <1>2, Zenon DEF Max
<1>4. \A y \in S : y \in Int  BY <1>1
<1>. QED  BY <1>3, <1>4

\* What the first n disclosures say of v.
ScoresOf(v, n) == {0} \cup {osv[i].score : i \in {j \in 1..n : Affects(osv[j], v)}}

LEMMA ScoresType ==
  ASSUME osv \in Seq(Report), NEW v, NEW n \in 0..Len(osv)
  PROVE  ScoresOf(v, n) \in SUBSET Scores /\ 0 \in ScoresOf(v, n) /\ ScoreOf(v, n) = Max(ScoresOf(v, n))
<1>1. ASSUME NEW i \in 1..n PROVE osv[i].score \in 0..3
  <2>1. osv[i] \in Report  OBVIOUS
  <2>. QED  BY <2>1 DEF Report, Scores
<1>2. 0 \in 0..3  OBVIOUS
<1>. QED  BY <1>1, <1>2, Zenon DEF ScoresOf, ScoreOf, Scores

\* A score is a score.
LEMMA ScoreType ==
  ASSUME osv \in Seq(Report), NEW v, NEW n \in 0..Len(osv)
  PROVE  ScoreOf(v, n) \in Scores
<1>1. ScoresOf(v, n) \in SUBSET Scores /\ 0 \in ScoresOf(v, n) /\ ScoreOf(v, n) = Max(ScoresOf(v, n))
  BY ScoresType
<1>2. Max(ScoresOf(v, n)) \in ScoresOf(v, n)
  BY <1>1, HighestScore
<1>. QED  BY <1>1, <1>2

\* What OSV said does not change with what it learns later.
LEMMA ScoreStays ==
  ASSUME osv \in Seq(Report), NEW report, osv' = Append(osv, report),
         NEW v, NEW n \in 0..Len(osv)
  PROVE  (ScoreOf(v, n))' = ScoreOf(v, n)
<1>1. \A i \in 1..n : osv'[i] = osv[i]  OBVIOUS
<1>2. {j \in 1..n : Affects(osv'[j], v)} = {j \in 1..n : Affects(osv[j], v)}
  BY <1>1
<1>3. {osv'[i].score : i \in {j \in 1..n : Affects(osv'[j], v)}}
        = {osv[i].score : i \in {j \in 1..n : Affects(osv[j], v)}}
  BY <1>1, <1>2
<1>. QED  BY <1>3, Zenon DEF ScoreOf

-----------------------------------------------------------------------------
(* Evaluate.                                                               *)

\* What OSV has answered about version v so far.
OsvAnswers(v) == {[score |-> ScoreOf(v, k), asOf |-> k] : k \in 0..Len(osv)}

CacheInv == \A v \in 0..MaxVersion : cveCache[v] \in OsvAnswers(v) \cup {NoEntry}
KeptInv ==
    \A c \in Calls, v \in 0..MaxVersion :
        pc[c] = "keepCves" /\ v = QueryVersion(c) => cves[c] \in OsvAnswers(v)

\* A call between the lookup and its verdict has passed the lookup.
Passed(c) ==
    pc[c] \notin {"idle", "auditing"} /\ snapshot[c] # NoRegistry =>
        Lookup(snapshot[c], asked[c]) # "BLOCK"

\* A verdict is the lookup's denial or the decision on what was fetched.
Decided(c) ==
    pc[c] = "auditing" =>
        \/ answer[c].verdict = "DENIED"
        \/ /\ cves[c] \in CveInfo
           /\ snapshot[c] # NoRegistry => Lookup(snapshot[c], asked[c]) # "BLOCK"
           /\ answer[c] = Decide(snapshot[c], asked[c], LicenseSeen(c), cves[c].score)

VerdictInv == \A c \in Calls : Passed(c) /\ Decided(c)

EvaluateInv == EvaluateTypeOK /\ CacheInv /\ KeptInv /\ VerdictInv

\* Whatever the decision, it is an answer.
LEMMA DecideType ==
  ASSUME NEW r, NEW v, NEW license, NEW score
  PROVE  Decide(r, v, license, score) \in Answer
<1>1. ASSUME NEW b \in BOOLEAN,
             NEW d \in {"", "registry", "cve", "license"},
             NEW w \in {"ALLOWED", "DENIED", "PROVISIONALLY_ALLOWED"}
      PROVE  Verdict(w, d, b) \in Answer
  BY DEF Verdict, Answer
<1>2. (LicenseVerdict(r, license) = "REVIEW") \in BOOLEAN  OBVIOUS
<1> HIDE DEF Verdict
<1>3. \/ Decide(r, v, license, score) = Verdict("PROVISIONALLY_ALLOWED", "", FALSE)
      \/ Decide(r, v, license, score) = Verdict("DENIED", "cve", FALSE)
      \/ Decide(r, v, license, score) = Verdict("ALLOWED", "", FALSE)
      \/ Decide(r, v, license, score) = Verdict("DENIED", "license", FALSE)
      \/ Decide(r, v, license, score) =
           Verdict("PROVISIONALLY_ALLOWED", "", LicenseVerdict(r, license) = "REVIEW")
  BY DEF Decide
<1>. QED  BY <1>1, <1>2, <1>3

\* OSV and the caches are asked about versions of the package.
LEMMA QueryType ==
  ASSUME EvaluateTypeOK, NEW c \in Calls
  PROVE  QueryVersion(c) \in 0..MaxVersion
BY DEF EvaluateTypeOK, QueryVersion, Info

\* PyPI answers with a license and a release.
LEMMA PypiType ==
  ASSUME EvaluateTypeOK, NEW v \in 0..MaxVersion
  PROVE  PypiAnswer(v) \in Info /\ NoPypiAnswer \in Info
<1>1. NoPypiAnswer \in Info
  BY EvaluateAssumption DEF EvaluateAssumption, NoPypiAnswer, Info, Licenses
<1>2. CASE latest = 0 \/ v > latest
  <2>1. PypiAnswer(v) = NoPypiAnswer  BY <1>2 DEF PypiAnswer, NoPypiAnswer
  <2>. QED  BY <1>1, <2>1
<1>3. CASE ~(latest = 0 \/ v > latest)
  <2> DEFINE release == IF v = 0 THEN latest ELSE v
  <2>1. release \in Versions
    BY <1>3, EvaluateAssumption DEF EvaluateAssumption, EvaluateTypeOK, Versions
  <2>2. PypiAnswer(v) = [license |-> LicenseOf[release], latest |-> release]
    BY <1>3 DEF PypiAnswer
  <2>3. LicenseOf[release] \in Licenses /\ release \in 0..MaxVersion
    BY <2>1, EvaluateAssumption DEF EvaluateAssumption, Versions
  <2>. QED  BY <1>1, <2>2, <2>3 DEF Info
<1>. QED  BY <1>2, <1>3

LEMMA InitEvaluate == Init => EvaluateInv
<1> SUFFICES ASSUME Init PROVE EvaluateInv
  OBVIOUS
<1>1. EvaluateTypeOK
  BY EvaluateAssumption DEF EvaluateAssumption, Init, EvaluateTypeOK, PcStates
<1>. QED  BY <1>1 DEF Init, EvaluateInv, CacheInv, KeptInv, VerdictInv, Passed, Decided

\* They are answers, and later ones do not take them back.
LEMMA AnswersType ==
  ASSUME EvaluateTypeOK, NEW v \in 0..MaxVersion
  PROVE  OsvAnswers(v) \subseteq CveInfo
<1> SUFFICES ASSUME NEW k \in 0..Len(osv)
             PROVE  [score |-> ScoreOf(v, k), asOf |-> k] \in CveInfo
  BY DEF OsvAnswers
<1>1. ScoreOf(v, k) \in Scores  BY ScoreType DEF EvaluateTypeOK
<1>2. k \in 0..MaxReports
  BY EvaluateAssumption DEF EvaluateAssumption, EvaluateTypeOK
<1>. QED  BY <1>1, <1>2 DEF CveInfo

LEMMA AnswersStay ==
  ASSUME EvaluateTypeOK, NEW v \in 0..MaxVersion,
         osv' = osv \/ \E report \in Reports : osv' = Append(osv, report)
  PROVE  OsvAnswers(v) \subseteq (OsvAnswers(v))'
<1>1. CASE osv' = osv
  <2>1. ASSUME NEW k \in 0..Len(osv) PROVE (ScoreOf(v, k))' = ScoreOf(v, k)
    BY <1>1 DEF ScoreOf, Affects
  <2>. QED  BY <1>1, <2>1 DEF OsvAnswers
<1>2. CASE \E report \in Reports : osv' = Append(osv, report)
  <2>1. PICK report \in Reports : osv' = Append(osv, report)  BY <1>2
  <2>2. ASSUME NEW k \in 0..Len(osv) PROVE (ScoreOf(v, k))' = ScoreOf(v, k)
    BY <2>1, ScoreStays DEF EvaluateTypeOK
  <2>3. osv \in Seq(Report) /\ report \in Report
    BY EvaluateAssumption DEF EvaluateAssumption, EvaluateTypeOK
  <2>4. Len(osv') = Len(osv) + 1 /\ Len(osv) \in Nat  BY <2>1, <2>3
  <2>5. 0..Len(osv) \subseteq 0..Len(osv')  BY <2>4
  <2>. QED  BY <2>2, <2>5 DEF OsvAnswers
<1>. QED  BY <1>1, <1>2

\* The steps of one evaluation keep the types.
LEMMA ProceedType ==
  ASSUME EvaluateTypeOK, KeptInv, NEW c \in Calls, Proceed(c)
  PROVE  EvaluateTypeOK'
<1> USE DEF EvaluateTypeOK
<1>0. \A s \in PcStates : Go(c, s) => pc' \in [Calls -> PcStates]
  BY DEF Go
<1>1. ASSUME NEW info \in CveInfo, Conclude(c, info)
      PROVE  /\ pc' \in [Calls -> PcStates]
             /\ cves' \in [Calls -> CveInfo \cup {NoEntry}]
             /\ answer' \in [Calls -> Answer \cup {NoEntry}]
  <2>1. Decide(snapshot[c], asked[c], LicenseSeen(c), info.score) \in Answer
    BY DecideType
  <2>2. pc' \in [Calls -> PcStates]  BY <1>1, <1>0 DEF Conclude, PcStates
  <2>. QED  BY <1>1, <2>1, <2>2 DEF Conclude
<1>3. CASE LicenseHit(c)
  BY <1>3, <1>0 DEF LicenseHit, PcStates, world, caches
<1>4. CASE LicenseMiss(c)
  BY <1>4, <1>0 DEF LicenseMiss, PcStates, world, caches
<1>5. CASE Pypi(c)
  <2>1. PICK info \in {PypiAnswer(asked[c]), NoPypiAnswer} :
          fetched' = [fetched EXCEPT ![c] = info]
    BY <1>5 DEF Pypi
  <2>2. info \in Info
    <3>1. asked[c] \in 0..MaxVersion  OBVIOUS
    <3>. QED  BY <3>1, PypiType
  <2>3. fetched' \in [Calls -> Info \cup {NoEntry}]  BY <2>1, <2>2
  <2>. QED  BY <1>0, <1>5, <2>3 DEF Pypi, PcStates, world, caches
<1>6. CASE KeepLicense(c)
  <2>1. licenseCache' \in Info \cup {NoEntry}  BY <1>6 DEF KeepLicense
  <2>. QED  BY <1>0, <1>6, <2>1 DEF KeepLicense, PcStates, world
<1>7. CASE CveHit(c)
  <2>1. cveCache[QueryVersion(c)] \in CveInfo
    BY <1>7, QueryType DEF CveHit
  <2>. QED  BY <1>1, <1>7, <2>1 DEF CveHit, world, caches
<1>8. CASE CveMiss(c)
  BY <1>0, <1>8 DEF CveMiss, PcStates, world, caches
<1>9. CASE Osv(c)
  <2> DEFINE v == QueryVersion(c)
  <2>0. v \in 0..MaxVersion  BY QueryType
  <2> HIDE DEF v
  <2>1. [score |-> ScoreOf(v, Len(osv)), asOf |-> Len(osv)] \in CveInfo
    <3>1. ScoreOf(v, Len(osv)) \in Scores  BY ScoreType
    <3>. QED  BY <3>1, EvaluateAssumption DEF EvaluateAssumption, CveInfo
  <2>2. cves' \in [Calls -> CveInfo \cup {NoEntry}]  BY <1>9, <2>1 DEF Osv, v
  <2>. QED  BY <1>0, <1>9, <2>2 DEF Osv, PcStates, world, caches
<1>10. CASE OsvOutage(c)
  <2>1. [score |-> 0, asOf |-> Len(osv)] \in CveInfo
    BY EvaluateAssumption DEF EvaluateAssumption, CveInfo, Scores
  <2>. QED  BY <1>1, <1>10, <2>1 DEF OsvOutage, world, caches
<1>11. CASE KeepCves(c)
  <2>1. cves[c] \in CveInfo  BY <1>11, QueryType, AnswersType DEF KeepCves, KeptInv
  <2>2. cveCache' \in [0..MaxVersion -> CveInfo \cup {NoEntry}]
    BY <1>11, <2>1 DEF KeepCves
  <2>. QED  BY <1>1, <1>11, <2>1, <2>2 DEF KeepCves, world
<1>12. CASE Audit(c)
  <2>1. 0 \in 0..MaxVersion
    BY EvaluateAssumption DEF EvaluateAssumption
  <2>. QED  BY <1>0, <1>12, <2>1 DEF Audit, PcStates, world, caches
<1>. QED
  BY <1>3, <1>4, <1>5, <1>6, <1>7, <1>8, <1>9, <1>10, <1>11, <1>12 DEF Proceed

\* And so do all others.
LEMMA NextType ==
  ASSUME EvaluateTypeOK, KeptInv, [Next]_evalVars
  PROVE  EvaluateTypeOK'
<1> USE DEF EvaluateTypeOK
<1>1. CASE Swap
  BY <1>1, EvaluateAssumption DEF EvaluateAssumption, Swap, world, caches, calls
<1>2. CASE Release
  <2>1. latest' \in 0..MaxVersion
    BY <1>2, EvaluateAssumption DEF EvaluateAssumption, Release
  <2>. QED  BY <1>2, <2>1 DEF Release, caches, calls
<1>3. CASE Disclose
  <2>1. PICK report \in Reports : osv' = Append(osv, report)  BY <1>3 DEF Disclose
  <2>2. osv' \in Seq(Report) /\ Len(osv') = Len(osv) + 1
    BY <2>1, EvaluateAssumption DEF EvaluateAssumption
  <2>3. Len(osv') <= MaxReports
    BY <1>3, <2>2, EvaluateAssumption DEF EvaluateAssumption, Disclose
  <2>. QED  BY <1>3, <2>2, <2>3 DEF Disclose, caches, calls
<1>4. CASE ExpireLicense  BY <1>4 DEF ExpireLicense, world, calls
<1>5. ASSUME NEW key \in 0..MaxVersion, ExpireCves(key) PROVE EvaluateTypeOK'
  <2>1. cveCache' \in [0..MaxVersion -> CveInfo \cup {NoEntry}]
    BY <1>5 DEF ExpireCves
  <2>. QED  BY <1>5, <2>1 DEF ExpireCves, world, calls
<1>6. ASSUME NEW c \in Calls, NEW v \in 0..MaxVersion, Begin(c, v) PROVE EvaluateTypeOK'
  <2>1. pc' \in [Calls -> PcStates]  BY <1>6 DEF Begin, Go, PcStates
  <2>2. Verdict("DENIED", "registry", FALSE) \in Answer  BY DEF Verdict, Answer
  <2>3. answer' \in [Calls -> Answer \cup {NoEntry}]  BY <1>6, <2>2 DEF Begin
  <2>. QED  BY <1>6, <2>1, <2>3 DEF Begin, world, caches
<1>7. ASSUME NEW c \in Calls, Proceed(c) PROVE EvaluateTypeOK'
  BY <1>7, ProceedType
<1>8. CASE UNCHANGED evalVars  BY <1>8 DEF evalVars, world, caches, calls
<1>. QED
  BY <1>1, <1>2, <1>3, <1>4, <1>5, <1>6, <1>7, <1>8 DEF Next, Environment, CallStep

\* What the caches hold, and what a call is about to store, OSV has said.
LEMMA NextCaches ==
  ASSUME EvaluateTypeOK, CacheInv, KeptInv, [Next]_evalVars
  PROVE  CacheInv' /\ KeptInv'
<1>1. osv' = osv \/ \E report \in Reports : osv' = Append(osv, report)
  BY DEF Next, Environment, Swap, Release, Disclose, ExpireLicense, ExpireCves, CallStep,
         Begin, Proceed, LicenseHit, LicenseMiss, Pypi, KeepLicense, CveHit, CveMiss, Osv,
         OsvOutage, KeepCves, Audit, evalVars, world
<1>2. \A v \in 0..MaxVersion : OsvAnswers(v) \subseteq (OsvAnswers(v))'
  BY <1>1, AnswersStay
<1>3. ASSUME UNCHANGED cveCache PROVE CacheInv'
  BY <1>2, <1>3 DEF CacheInv
<1>4. ASSUME UNCHANGED calls PROVE KeptInv'
  BY <1>2, <1>4 DEF KeptInv, calls, QueryVersion
<1>5. ASSUME NEW c \in Calls, NEW s \in PcStates, Go(c, s), s # "keepCves",
             \A o \in Calls \ {c} : /\ cves'[o] = cves[o] /\ asked'[o] = asked[o]
                                    /\ fetched'[o] = fetched[o]
      PROVE  KeptInv'
  <2> SUFFICES ASSUME NEW o \in Calls, NEW v \in 0..MaxVersion,
                      pc'[o] = "keepCves", v = (QueryVersion(o))'
               PROVE  cves'[o] \in (OsvAnswers(v))'
    BY DEF KeptInv
  <2>1. o # c /\ pc[o] = "keepCves"
    BY <1>5 DEF Go, EvaluateTypeOK
  <2>2. v = QueryVersion(o) /\ cves'[o] = cves[o]  BY <1>5, <2>1 DEF QueryVersion
  <2>. QED  BY <1>2, <2>1, <2>2 DEF KeptInv
<1> USE DEF EvaluateTypeOK
<1>6. CASE Environment /\ ~ \E key \in 0..MaxVersion : ExpireCves(key)
  BY <1>3, <1>4, <1>6
  DEF Environment, Swap, Release, Disclose, ExpireLicense, caches
<1>7. ASSUME NEW key \in 0..MaxVersion, ExpireCves(key) PROVE CacheInv' /\ KeptInv'
  <2>1. CacheInv'  BY <1>2, <1>7 DEF CacheInv, ExpireCves
  <2>. QED  BY <1>4, <1>7, <2>1 DEF ExpireCves
<1>8. ASSUME NEW c \in Calls, NEW v \in 0..MaxVersion, Begin(c, v)
      PROVE  CacheInv' /\ KeptInv'
  <2>1. Go(c, "auditing") \/ Go(c, "cve") \/ Go(c, "license")  BY <1>8 DEF Begin
  <2>2. CacheInv'  BY <1>3, <1>8 DEF Begin, caches
  <2>3. \A o \in Calls \ {c} : /\ cves'[o] = cves[o] /\ asked'[o] = asked[o]
                               /\ fetched'[o] = fetched[o]
    BY <1>8 DEF Begin
  <2>. QED  BY <1>5, <2>1, <2>2, <2>3 DEF PcStates
<1>9. ASSUME NEW c \in Calls, Proceed(c) PROVE CacheInv' /\ KeptInv'
  <2>1. \A o \in Calls \ {c} : /\ cves'[o] = cves[o] /\ asked'[o] = asked[o]
                               /\ fetched'[o] = fetched[o]
    BY <1>9 DEF Proceed, LicenseHit, LicenseMiss, Pypi, KeepLicense, CveHit, CveMiss, Osv,
                OsvOutage, KeepCves, Audit, Conclude
  <2>2. ASSUME NEW s \in PcStates, Go(c, s), s # "keepCves" PROVE KeptInv'
    BY <1>5, <2>1, <2>2
  <2> USE DEF PcStates
  <2>3. CASE LicenseHit(c)  BY <1>3, <2>2, <2>3 DEF LicenseHit, caches
  <2>4. CASE LicenseMiss(c)  BY <1>3, <2>2, <2>4 DEF LicenseMiss, caches
  <2>5. CASE Pypi(c)  BY <1>3, <2>2, <2>5 DEF Pypi, caches
  <2>6. CASE KeepLicense(c)  BY <1>3, <2>2, <2>6 DEF KeepLicense
  <2>7. CASE CveHit(c)  BY <1>3, <2>2, <2>7 DEF CveHit, Conclude, caches
  <2>8. CASE CveMiss(c)  BY <1>3, <2>2, <2>8 DEF CveMiss, caches
  <2>9. CASE Osv(c)
    <3>1. CacheInv'  BY <1>3, <2>9 DEF Osv, caches
    <3>2. ASSUME NEW o \in Calls, NEW v \in 0..MaxVersion,
                 pc'[o] = "keepCves", v = (QueryVersion(o))'
          PROVE  cves'[o] \in (OsvAnswers(v))'
      <4>1. v = QueryVersion(o)  BY <2>9, <3>2 DEF Osv, QueryVersion
      <4>2. CASE o = c
        <5>1. cves'[o] = [score |-> ScoreOf(v, Len(osv)), asOf |-> Len(osv)]
          BY <2>9, <4>1, <4>2 DEF Osv
        <5>2. cves'[o] \in OsvAnswers(v)  BY <5>1 DEF OsvAnswers
        <5>. QED  BY <1>2, <5>2
      <4>3. CASE o # c
        <5>1. pc[o] = "keepCves" /\ cves'[o] = cves[o]
          BY <2>1, <2>9, <3>2, <4>3 DEF Osv, Go
        <5>. QED  BY <1>2, <4>1, <5>1 DEF KeptInv
      <4>. QED  BY <4>2, <4>3
    <3>. QED  BY <3>1, <3>2 DEF KeptInv
  <2>10. CASE OsvOutage(c)  BY <1>3, <2>2, <2>10 DEF OsvOutage, Conclude, caches
  <2>11. CASE KeepCves(c)
    <3> DEFINE v == QueryVersion(c)
    <3>1. v \in 0..MaxVersion  BY QueryType
    <3>2. cves[c] \in OsvAnswers(v)  BY <2>11, <3>1 DEF KeepCves, KeptInv
    <3>3. UNCHANGED cveCache \/ cveCache' = [cveCache EXCEPT ![v] = cves[c]]
      BY <2>11 DEF KeepCves
    <3> HIDE DEF v
    <3>4. CacheInv'  BY <1>2, <3>1, <3>2, <3>3 DEF CacheInv
    <3>. QED  BY <2>2, <2>11, <3>4 DEF KeepCves, Conclude
  <2>12. CASE Audit(c)  BY <1>3, <2>2, <2>12 DEF Audit, caches
  <2>. QED
    BY <1>9, <2>3, <2>4, <2>5, <2>6, <2>7, <2>8, <2>9, <2>10, <2>11, <2>12 DEF Proceed
<1>10. CASE UNCHANGED evalVars  BY <1>3, <1>4, <1>10 DEF evalVars, caches
<1>. QED
  BY <1>6, <1>7, <1>8, <1>9, <1>10 DEF Next, Environment, CallStep

\* Every verdict is the decision of the registry the call began with.
LEMMA NextVerdicts ==
  ASSUME EvaluateInv, [Next]_evalVars
  PROVE  VerdictInv'
<1> USE DEF EvaluateTypeOK, EvaluateInv
<1>1. ASSUME NEW o \in Calls,
             /\ pc'[o] = pc[o] /\ asked'[o] = asked[o] /\ snapshot'[o] = snapshot[o]
             /\ fetched'[o] = fetched[o] /\ cves'[o] = cves[o] /\ answer'[o] = answer[o]
      PROVE  Passed(o)' /\ Decided(o)'
  <2>1. LicenseSeen(o)' = LicenseSeen(o)  BY <1>1 DEF LicenseSeen
  <2>2. Passed(o)'  BY <1>1 DEF Passed, VerdictInv
  <2>3. Decided(o)'  BY <1>1, <2>1 DEF Decided, VerdictInv
  <2>. QED  BY <2>2, <2>3
<1>2. ASSUME UNCHANGED calls PROVE VerdictInv'
  BY <1>1, <1>2 DEF VerdictInv, calls
<1>3. CASE Environment
  BY <1>2, <1>3 DEF Environment, Swap, Release, Disclose, ExpireLicense, ExpireCves
<1>4. ASSUME NEW c \in Calls, CallStep(c) PROVE VerdictInv'
  <2> DEFINE Same(o) == /\ pc'[o] = pc[o] /\ asked'[o] = asked[o]
                        /\ snapshot'[o] = snapshot[o] /\ fetched'[o] = fetched[o]
                        /\ cves'[o] = cves[o] /\ answer'[o] = answer[o]
  <2>1. ASSUME NEW o \in Calls \ {c} PROVE Same(o)
    <3>1. CASE \E v \in 0..MaxVersion : Begin(c, v)  BY <3>1 DEF Begin, Go
    <3>2. CASE Proceed(c)
      BY <3>2 DEF Proceed, LicenseHit, LicenseMiss, Pypi, KeepLicense, CveHit, CveMiss,
                  Osv, OsvOutage, KeepCves, Audit, Conclude, Go
    <3>. QED  BY <1>4, <3>1, <3>2 DEF CallStep
  <2>2. Passed(c)' /\ Decided(c)'
    <3>1. ASSUME NEW v \in 0..MaxVersion, Begin(c, v) PROVE Passed(c)' /\ Decided(c)'
      <4>1. asked'[c] = v /\ snapshot'[c] = registry
        BY <3>1 DEF Begin, EvaluateTypeOK
      <4>2. CASE registry # NoRegistry /\ Lookup(registry, v) = "BLOCK"
        <5>1. pc'[c] = "auditing" /\ answer'[c] = Verdict("DENIED", "registry", FALSE)
          BY <3>1, <4>2 DEF Begin, Go
        <5>. QED  BY <5>1 DEF Passed, Decided, Verdict
      <4>3. CASE ~(registry # NoRegistry /\ Lookup(registry, v) = "BLOCK")
        <5>1. pc'[c] \in {"cve", "license"}  BY <3>1, <4>3 DEF Begin, Go
        <5>. QED  BY <4>1, <4>3, <5>1 DEF Passed, Decided
      <4>. QED  BY <4>2, <4>3
    <3>2. ASSUME pc[c] \notin {"idle", "auditing"}, pc'[c] # "auditing",
                 asked'[c] = asked[c], snapshot'[c] = snapshot[c]
          PROVE  Passed(c)' /\ Decided(c)'
      BY <3>2 DEF Passed, Decided, VerdictInv
    <3>3. ASSUME pc[c] \notin {"idle", "auditing"}, NEW info \in CveInfo, Conclude(c, info),
                 UNCHANGED <<asked, snapshot, fetched>>
          PROVE  Passed(c)' /\ Decided(c)'
      <4>1. /\ pc'[c] = "auditing" /\ cves'[c] = info
            /\ answer'[c] = Decide(snapshot[c], asked[c], LicenseSeen(c), info.score)
        BY <3>3 DEF Conclude, Go
      <4>2. LicenseSeen(c)' = LicenseSeen(c)  BY <3>3 DEF LicenseSeen
      <4>3. snapshot[c] # NoRegistry => Lookup(snapshot[c], asked[c]) # "BLOCK"
        BY <3>3 DEF Passed, VerdictInv
      <4>. QED  BY <3>3, <4>1, <4>2, <4>3 DEF Passed, Decided
    <3>4. CASE LicenseHit(c)  BY <3>2, <3>4 DEF LicenseHit, Go
    <3>5. CASE LicenseMiss(c)  BY <3>2, <3>5 DEF LicenseMiss, Go
    <3>6. CASE Pypi(c)  BY <3>2, <3>6 DEF Pypi, Go
    <3>7. CASE KeepLicense(c)  BY <3>2, <3>7 DEF KeepLicense, Go
    <3>8. CASE CveHit(c)
      <4>1. cveCache[QueryVersion(c)] \in CveInfo  BY <3>8, QueryType DEF CveHit
      <4>. QED  BY <3>3, <3>8, <4>1 DEF CveHit
    <3>9. CASE CveMiss(c)  BY <3>2, <3>9 DEF CveMiss, Go
    <3>10. CASE Osv(c)  BY <3>2, <3>10 DEF Osv, Go
    <3>11. CASE OsvOutage(c)
      <4>1. [score |-> 0, asOf |-> Len(osv)] \in CveInfo
        BY EvaluateAssumption DEF EvaluateAssumption, CveInfo, Scores
      <4>. QED  BY <3>3, <3>11, <4>1 DEF OsvOutage
    <3>12. CASE KeepCves(c)
      <4>1. cves[c] \in CveInfo
        BY <3>12, QueryType, AnswersType DEF KeepCves, KeptInv
      <4>. QED  BY <3>3, <3>12, <4>1 DEF KeepCves
    <3>13. CASE Audit(c)
      <4>1. pc'[c] = "idle"  BY <3>13 DEF Audit, Go
      <4>. QED  BY <4>1 DEF Passed, Decided
    <3>. QED
      BY <1>4, <3>1, <3>4, <3>5, <3>6, <3>7, <3>8, <3>9, <3>10, <3>11, <3>12, <3>13
      DEF CallStep, Proceed
  <2>. QED  BY <1>1, <2>1, <2>2 DEF VerdictInv
<1>5. CASE UNCHANGED evalVars  BY <1>2, <1>5 DEF evalVars
<1>. QED  BY <1>3, <1>4, <1>5 DEF Next

LEMMA NextEvaluate == EvaluateInv /\ [Next]_evalVars => EvaluateInv'
BY NextType, NextCaches, NextVerdicts DEF EvaluateInv

\* What lets a package through that a registry has an opinion on.
LEMMA DecideAllows ==
  ASSUME NEW r, NEW v, NEW license, NEW score, r # NoRegistry,
         Decide(r, v, license, score).verdict # "DENIED"
  PROVE  /\ ~CveBlocks(r, score)
         /\ Lookup(r, v) = "UNKNOWN" => LicenseVerdict(r, license) # "BLOCK"
<1>1. CASE CveBlocks(r, score)
  <2>1. Decide(r, v, license, score) = Verdict("DENIED", "cve", FALSE)
    BY <1>1 DEF Decide
  <2>. QED  BY <2>1 DEF Verdict
<1>2. CASE /\ ~CveBlocks(r, score) /\ Lookup(r, v) = "UNKNOWN"
           /\ LicenseVerdict(r, license) = "BLOCK"
  <2>1. Decide(r, v, license, score) = Verdict("DENIED", "license", FALSE)
    BY <1>2 DEF Decide
  <2>. QED  BY <2>1 DEF Verdict
<1>. QED  BY <1>1, <1>2

\* The inductive invariant of Evaluate.
THEOREM EvaluateInvariant == Spec => []EvaluateInv
BY InitEvaluate, NextEvaluate, PTL DEF Spec

\* Every variable of Evaluate keeps its type.
THEOREM EvaluateTypeCorrect == Spec => []EvaluateTypeOK
<1>1. EvaluateInv => EvaluateTypeOK  BY DEF EvaluateInv
<1>. QED  BY EvaluateInvariant, <1>1, PTL

\* A package that is let through satisfies the registry its call began with:
\* the rule, the CVE threshold and the license policy.
THEOREM VerdictsAreOfOneRegistry == Spec => []AllowedByOneRegistry
<1>1. EvaluateInv => AllowedByOneRegistry
  <2> SUFFICES ASSUME EvaluateInv, NEW c \in Calls, pc[c] = "auditing",
                      answer[c].verdict # "DENIED", snapshot[c] # NoRegistry
               PROVE  /\ Lookup(snapshot[c], asked[c]) # "BLOCK"
                      /\ cves[c].score > 0 => cves[c].score < snapshot[c].threshold
                      /\ \/ snapshot[c].rule # "unknown"
                         \/ LicenseSeen(c) \in snapshot[c].auto \ snapshot[c].ban
                         \/ /\ LicenseSeen(c) = "UNKNOWN"
                            /\ snapshot[c].unknown \in {"allow", "pending_approval"}
    BY DEF AllowedByOneRegistry
  <2> DEFINE r == snapshot[c]
             score == cves[c].score
             license == LicenseSeen(c)
  <2>1. /\ cves[c] \in CveInfo /\ Lookup(r, asked[c]) # "BLOCK"
        /\ answer[c] = Decide(r, asked[c], license, score)
    BY DEF EvaluateInv, VerdictInv, Decided
  <2>2. r \in RegistryContent /\ score \in 0..3 /\ r.threshold \in 1..3
    BY <2>1 DEF EvaluateInv, EvaluateTypeOK, CveInfo, RegistryContent, Scores
  <2>3. answer[c].verdict # "DENIED" /\ r # NoRegistry  OBVIOUS
  <2> HIDE DEF r, score, license
  <2>4. ~CveBlocks(r, score)
    BY <2>1, <2>3, DecideAllows
  <2>5. score > 0 => score < r.threshold  BY <2>2, <2>4 DEF CveBlocks
  <2>6. CASE r.rule # "unknown"  BY <2>1, <2>5, <2>6 DEF r, score
  <2>7. CASE r.rule = "unknown"
    <3>1. Lookup(r, asked[c]) = "UNKNOWN"  BY <2>7 DEF Lookup
    <3>2. LicenseVerdict(r, license) # "BLOCK"
      BY <2>1, <2>3, <3>1, DecideAllows
    <3>3. \/ license \in r.auto \ r.ban
          \/ license = "UNKNOWN" /\ r.unknown \in {"allow", "pending_approval"}
      BY <3>2 DEF LicenseVerdict
    <3>. QED  BY <2>1, <2>5, <3>3 DEF r, score, license
  <2>. QED  BY <2>6, <2>7
<1>. QED  BY EvaluateInvariant, <1>1, PTL

-----------------------------------------------------------------------------
(* CveScanner.                                                             *)

ScanType ==
    /\ scan \in ScanStates
    /\ walked \in RegistryContent \cup {NoRegistry}
    /\ found \in CveInfo \cup {NoEntry}
    /\ alerts \subseteq [score : Scores, asOf : 0..MaxReports, threshold : Scores]
    /\ ownEntry \in BOOLEAN
    /\ due \in BOOLEAN
    /\ alerted \in BOOLEAN
    /\ broken \in 0..MaxBroken

\* What the scanner holds, and what its alerts rest on, OSV has said.
FoundInv ==
    /\ scan # "sleeping" => walked \in RegistryContent
    /\ scan = "keep" => found \in OsvAnswers(NoVersion)
    /\ scan = "alerting" => /\ found \in OsvAnswers(NoVersion)
                            /\ found.score >= walked.threshold
    /\ \A a \in alerts :
         /\ [score |-> a.score, asOf |-> a.asOf] \in OsvAnswers(NoVersion)
         /\ a.score >= a.threshold

ScannerInv == EvaluateInv /\ ScanType /\ FoundInv

\* The entry "latest" is one of the cache.
LEMMA NoVersionType == NoVersion \in 0..MaxVersion
BY EvaluateAssumption DEF EvaluateAssumption, NoVersion

\* resolve_cves has returned what OSV said.
LEMMA ScoredKeeps ==
  ASSUME ScannerInv, scan # "sleeping", NEW info \in OsvAnswers(NoVersion), Scored(info),
         UNCHANGED <<osv, walked, alerts, ownEntry, due, alerted, broken>> \/
         /\ UNCHANGED <<osv, walked, alerts, due, alerted, broken>>
         /\ ownEntry' = TRUE
  PROVE  ScanType' /\ FoundInv'
<1>0. EvaluateTypeOK  BY DEF ScannerInv, EvaluateInv
<1>1. info \in CveInfo  BY <1>0, NoVersionType, AnswersType
<1>2. (OsvAnswers(NoVersion))' = OsvAnswers(NoVersion)
  BY DEF OsvAnswers, ScoreOf, Affects, NoVersion
<1>3. scan' = "alerting" \/ scan' = "sleeping"  BY DEF Scored
<1>4. scan' = "alerting" => info.score >= walked.threshold
  BY DEF Scored, CveBlocks
<1>5. found' = info  BY DEF Scored
<1>6. ScanType'
  BY <1>1, <1>3, <1>5 DEF ScannerInv, ScanType, ScanStates
<1>7. FoundInv'
  BY <1>2, <1>3, <1>4, <1>5 DEF ScannerInv, FoundInv
<1>. QED  BY <1>6, <1>7

\* A step that leaves the scanner alone leaves it what it has.
LEMMA AsideKeeps ==
  ASSUME ScannerInv, [Next]_evalVars, UNCHANGED <<scan, walked, found, alerts>>
  PROVE  FoundInv'
<1>0. EvaluateTypeOK  BY DEF ScannerInv, EvaluateInv
<1>1. osv' = osv \/ \E report \in Reports : osv' = Append(osv, report)
  BY DEF Next, Environment, Swap, Release, Disclose, ExpireLicense, ExpireCves, CallStep,
         Begin, Proceed, LicenseHit, LicenseMiss, Pypi, KeepLicense, CveHit, CveMiss, Osv,
         OsvOutage, KeepCves, Audit, evalVars, world
<1>2. \A v \in 0..MaxVersion : OsvAnswers(v) \subseteq (OsvAnswers(v))'
  BY <1>0, <1>1, AnswersStay
<1>3. OsvAnswers(NoVersion) \subseteq (OsvAnswers(NoVersion))'
  BY <1>2, NoVersionType DEF NoVersion
<1>. QED  BY <1>3 DEF ScannerInv, FoundInv

LEMMA InitScanner == ScannerInit => ScannerInv
<1> SUFFICES ASSUME ScannerInit PROVE ScannerInv
  OBVIOUS
<1>1. EvaluateInv  BY InitEvaluate DEF ScannerInit
<1>2. ScanType
  <2>1. broken \in 0..MaxBroken
    BY ScannerAssumption DEF ScannerAssumption, ScannerInit
  <2>2. ownEntry \in BOOLEAN /\ due \in BOOLEAN /\ alerted \in BOOLEAN
    BY DEF ScannerInit
  <2>3. scan \in ScanStates  BY DEF ScannerInit, ScanStates
  <2>4. alerts \subseteq [score : Scores, asOf : 0..MaxReports, threshold : Scores]
    BY DEF ScannerInit
  <2>5. walked = NoRegistry /\ found = NoEntry  BY DEF ScannerInit
  <2>. QED  BY <2>1, <2>2, <2>3, <2>4, <2>5, Zenon DEF ScanType
<1>3. FoundInv  BY DEF ScannerInit, FoundInv
<1>. QED  BY <1>1, <1>2, <1>3 DEF ScannerInv

LEMMA NextScanner == ScannerInv /\ [ScannerNext]_allVars => ScannerInv'
<1> SUFFICES ASSUME ScannerInv, [ScannerNext]_allVars PROVE ScannerInv'
  OBVIOUS
<1>0. EvaluateInv /\ EvaluateTypeOK /\ ScanType /\ FoundInv  BY DEF ScannerInv, EvaluateInv
<1>1. ASSUME UNCHANGED evalVars PROVE EvaluateInv'
  BY <1>0, <1>1, NextEvaluate
<1>2. ASSUME UNCHANGED evalVars, UNCHANGED <<scan, walked, found, alerts>> PROVE FoundInv'
  BY <1>2, AsideKeeps
<1>3. ASSUME UNCHANGED evalVars PROVE UNCHANGED <<osv, cveCache>>
  BY <1>3 DEF evalVars, world, caches
<1>4. ASSUME UNCHANGED osv PROVE (OsvAnswers(NoVersion))' = OsvAnswers(NoVersion)
  BY <1>4 DEF OsvAnswers, ScoreOf, Affects, NoVersion
<1>5. CASE EvaluateStep
  <2>1. Next  BY <1>5 DEF EvaluateStep, Beside
  <2>2. EvaluateInv'  BY <1>0, <2>1, NextEvaluate
  <2>3. FoundInv'  BY <1>5, <2>1, AsideKeeps DEF EvaluateStep, Beside
  <2>4. ownEntry' \in BOOLEAN /\ due' \in BOOLEAN
    BY <1>5, Zenon DEF EvaluateStep, Beside
  <2>5. ScanType'
    BY <1>0, <1>5, <2>4 DEF EvaluateStep, Beside, ScanType
  <2>. QED  BY <2>2, <2>3, <2>5 DEF ScannerInv
<1>6. CASE Tick
  <2>1. walked' \in RegistryContent
    BY <1>0, <1>6 DEF Tick, Registered, EvaluateTypeOK
  <2>2. due' \in BOOLEAN  BY <1>6, Zenon DEF Tick
  <2>3. ScanType'
    BY <1>0, <1>6, <2>1, <2>2 DEF Tick, ScanType, ScanStates
  <2>4. FoundInv'
    <3>1. scan' = "cve" /\ alerts' = alerts  BY <1>6 DEF Tick
    <3>2. (OsvAnswers(NoVersion))' = OsvAnswers(NoVersion)  BY <1>3, <1>4, <1>6 DEF Tick
    <3>. QED  BY <1>0, <2>1, <3>1, <3>2 DEF FoundInv
  <2>5. EvaluateInv'  BY <1>1, <1>6 DEF Tick
  <2>. QED  BY <2>3, <2>4, <2>5 DEF ScannerInv
<1>7. CASE ScanHit
  <2>1. cveCache[NoVersion] \in OsvAnswers(NoVersion)
    <3>1. NoVersion \in 0..MaxVersion  BY NoVersionType
    <3>2. cveCache[NoVersion] \in OsvAnswers(NoVersion) \cup {NoEntry}
      BY <1>0, <3>1 DEF EvaluateInv, CacheInv
    <3>. QED  BY <1>7, <3>2 DEF ScanHit
  <2>2. UNCHANGED <<osv, walked, alerts, ownEntry, due, alerted, broken>>
    BY <1>3, <1>7 DEF ScanHit
  <2>3. ScanType' /\ FoundInv'
    BY <1>7, <2>1, <2>2, ScoredKeeps DEF ScanHit
  <2>4. EvaluateInv'  BY <1>1, <1>7 DEF ScanHit
  <2>. QED  BY <2>3, <2>4 DEF ScannerInv
<1>8. CASE ScanMiss
  <2>1. ScanType'  BY <1>0, <1>8 DEF ScanMiss, ScanType, ScanStates
  <2>2. (OsvAnswers(NoVersion))' = OsvAnswers(NoVersion)  BY <1>3, <1>4, <1>8 DEF ScanMiss
  <2>3. FoundInv'  BY <1>0, <1>8, <2>2 DEF ScanMiss, FoundInv
  <2>4. EvaluateInv'  BY <1>1, <1>8 DEF ScanMiss
  <2>. QED  BY <2>1, <2>3, <2>4 DEF ScannerInv
<1>9. CASE ScanOsv
  <2>1. found' \in OsvAnswers(NoVersion)
    <3>1. Len(osv) \in 0..Len(osv)  BY <1>0 DEF EvaluateTypeOK
    <3>. QED  BY <1>9, <3>1 DEF ScanOsv, OsvAnswers
  <2>2. found' \in CveInfo  BY <1>0, <2>1, NoVersionType, AnswersType
  <2>3. ScanType'  BY <1>0, <1>9, <2>2 DEF ScanOsv, ScanType, ScanStates
  <2>4. (OsvAnswers(NoVersion))' = OsvAnswers(NoVersion)  BY <1>3, <1>4, <1>9 DEF ScanOsv
  <2>5. FoundInv'  BY <1>0, <1>9, <2>1, <2>4 DEF ScanOsv, FoundInv
  <2>6. EvaluateInv'  BY <1>1, <1>9 DEF ScanOsv
  <2>. QED  BY <2>3, <2>5, <2>6 DEF ScannerInv
<1>10. CASE ScanKeep
  <2>1. found \in OsvAnswers(NoVersion) /\ found \in CveInfo
    BY <1>0, <1>10, NoVersionType, AnswersType DEF ScanKeep, FoundInv
  <2>2. ScanType' /\ FoundInv'
    <3>1. \/ UNCHANGED <<osv, walked, alerts, ownEntry, due, alerted, broken>>
          \/ /\ UNCHANGED <<osv, walked, alerts, due, alerted, broken>>
             /\ ownEntry' = TRUE
      BY <1>10 DEF ScanKeep, world
    <3>. QED  BY <1>10, <2>1, <3>1, ScoredKeeps DEF ScanKeep
  <2>3. /\ \/ cveCache' = [cveCache EXCEPT ![NoVersion] = found]
           \/ cveCache' = cveCache
        /\ UNCHANGED <<registry, world, licenseCache, calls>>
    BY <1>10 DEF ScanKeep
  <2>4. EvaluateTypeOK'
    <3>1. cveCache' \in [0..MaxVersion -> CveInfo \cup {NoEntry}]
      BY <1>0, <2>1, <2>3 DEF EvaluateTypeOK
    <3>. QED  BY <1>0, <2>3, <3>1 DEF EvaluateTypeOK, world, calls
  <2>5. ASSUME NEW v \in 0..MaxVersion PROVE (OsvAnswers(v))' = OsvAnswers(v)
    BY <2>3 DEF OsvAnswers, ScoreOf, Affects, world
  <2>6. CacheInv'
    BY <1>0, <2>1, <2>3, <2>5 DEF EvaluateInv, CacheInv, EvaluateTypeOK
  <2>7. KeptInv'
    BY <1>0, <2>3, <2>5 DEF EvaluateInv, KeptInv, QueryVersion, calls
  <2>8. VerdictInv'
    BY <1>0, <2>3 DEF EvaluateInv, VerdictInv, Passed, Decided, LicenseSeen, calls
  <2>. QED  BY <2>2, <2>4, <2>6, <2>7, <2>8 DEF ScannerInv, EvaluateInv
<1>11. CASE Alert
  <2>1. found \in OsvAnswers(NoVersion) /\ found \in CveInfo
        /\ found.score >= walked.threshold /\ walked \in RegistryContent
    BY <1>0, <1>11, NoVersionType, AnswersType DEF Alert, FoundInv
  <2> DEFINE a == [score |-> found.score, asOf |-> found.asOf, threshold |-> walked.threshold]
  <2>2. a \in [score : Scores, asOf : 0..MaxReports, threshold : Scores]
    BY <2>1 DEF CveInfo, RegistryContent
  <2>3. [score |-> a.score, asOf |-> a.asOf] = found  BY <2>1 DEF CveInfo
  <2>4. a.score >= a.threshold  BY <2>1
  <2>5. alerts' = alerts \cup {a} /\ scan' = "sleeping" /\ walked' = walked
    BY <1>11 DEF Alert
  <2> HIDE DEF a
  <2>6. ScanType'  BY <1>0, <1>11, <2>2, <2>5 DEF Alert, ScanType, ScanStates
  <2>7. (OsvAnswers(NoVersion))' = OsvAnswers(NoVersion)  BY <1>3, <1>4, <1>11 DEF Alert
  <2>8. FoundInv'  BY <1>0, <2>1, <2>3, <2>4, <2>5, <2>7 DEF FoundInv
  <2>9. EvaluateInv'  BY <1>1, <1>11 DEF Alert
  <2>. QED  BY <2>6, <2>8, <2>9 DEF ScannerInv
<1>12. CASE Break
  <2>1. broken' \in 0..MaxBroken
    BY <1>0, <1>12, ScannerAssumption DEF ScannerAssumption, Break, ScanType
  <2>2. ScanType'  BY <1>0, <1>12, <2>1 DEF Break, ScanType, ScanStates
  <2>3. (OsvAnswers(NoVersion))' = OsvAnswers(NoVersion)  BY <1>3, <1>4, <1>12 DEF Break
  <2>4. FoundInv'  BY <1>0, <1>12, <2>3 DEF Break, FoundInv
  <2>5. EvaluateInv'  BY <1>1, <1>12 DEF Break
  <2>. QED  BY <2>2, <2>4, <2>5 DEF ScannerInv
<1>14. CASE ScanOutage
  <2>1. due' = FALSE /\ scan' = "sleeping"
        /\ UNCHANGED <<evalVars, walked, found, alerts, ownEntry, alerted, broken>>
    BY <1>14 DEF ScanOutage
  <2>2. ScanType'  BY <1>0, <2>1 DEF ScanType, ScanStates
  <2>3. (OsvAnswers(NoVersion))' = OsvAnswers(NoVersion)  BY <1>3, <1>4, <2>1
  <2>4. FoundInv'  BY <1>0, <2>1, <2>3 DEF FoundInv
  <2>5. EvaluateInv'  BY <1>1, <2>1
  <2>. QED  BY <2>2, <2>4, <2>5 DEF ScannerInv
<1>13. CASE UNCHANGED allVars
  <2>1. UNCHANGED evalVars /\ UNCHANGED scanVars  BY <1>13 DEF allVars
  <2>2. ScanType'  BY <1>0, <2>1 DEF scanVars, ScanType
  <2>. QED  BY <1>1, <1>2, <2>1, <2>2 DEF ScannerInv, scanVars
<1>. QED
  BY <1>5, <1>6, <1>7, <1>8, <1>9, <1>10, <1>11, <1>12, <1>13, <1>14 DEF ScannerNext, Scan

\* The inductive invariant of the scanner beside the evaluations.
THEOREM ScannerInvariant == ScannerSpec => []ScannerInv
BY InitScanner, NextScanner, PTL DEF ScannerSpec

\* Every variable of CveScanner keeps its type.
THEOREM ScannerTypeCorrect == ScannerSpec => []ScannerTypeOK
<1>1. ScannerInv => ScannerTypeOK
  BY DEF ScannerInv, EvaluateInv, ScanType, ScannerTypeOK
<1>. QED  BY ScannerInvariant, <1>1, PTL

\* What is cached for a version is what OSV said of that version: never an
\* outage, whoever fetches and stores at the same time.
THEOREM CachedIsOsvs == ScannerSpec => []CveCacheIsOsv
<1>1. ScannerInv => CveCacheIsOsv
  <2> SUFFICES ASSUME ScannerInv, NEW v \in 0..MaxVersion, cveCache[v] # NoEntry
               PROVE  cveCache[v].score = ScoreOf(v, cveCache[v].asOf)
    BY DEF CveCacheIsOsv
  <2>1. cveCache[v] \in OsvAnswers(v)
    BY DEF ScannerInv, EvaluateInv, CacheInv
  <2>2. PICK k \in 0..Len(osv) : cveCache[v] = [score |-> ScoreOf(v, k), asOf |-> k]
    BY <2>1 DEF OsvAnswers
  <2>. QED  BY <2>2
<1>. QED  BY ScannerInvariant, <1>1, PTL

\* No alert is made up: each rests on an answer of OSV that reaches the
\* threshold of the registry its tick walked.
THEOREM AlertsRestOnOsv == ScannerSpec => []AlertsAreOsvs
<1>1. ScannerInv => AlertsAreOsvs
  <2> SUFFICES ASSUME ScannerInv, NEW a \in alerts
               PROVE  a.score = ScoreOf(NoVersion, a.asOf) /\ a.score >= a.threshold
    BY DEF AlertsAreOsvs
  <2>1. /\ [score |-> a.score, asOf |-> a.asOf] \in OsvAnswers(NoVersion)
        /\ a.score >= a.threshold
    BY DEF ScannerInv, FoundInv
  <2>2. PICK k \in 0..Len(osv) :
          [score |-> a.score, asOf |-> a.asOf] = [score |-> ScoreOf(NoVersion, k), asOf |-> k]
    BY <2>1 DEF OsvAnswers
  <2>3. a.score = ScoreOf(NoVersion, k) /\ a.asOf = k  BY <2>2
  <2>. QED  BY <2>1, <2>3
<1>. QED  BY ScannerInvariant, <1>1, PTL

-----------------------------------------------------------------------------
(* Due alerts.                                                             *)

\* A score only grows as OSV learns more.
LEMMA ScoreGrows ==
  ASSUME osv \in Seq(Report), NEW report \in Report, osv' = Append(osv, report),
         NEW v
  PROVE  /\ ScoreOf(v, Len(osv)) \in Scores /\ (ScoreOf(v, Len(osv)))' \in Scores
         /\ ScoreOf(v, Len(osv)) <= (ScoreOf(v, Len(osv)))'
<1> DEFINE n == Len(osv)
<1>1. /\ n \in Nat /\ n \in 0..n /\ Len(osv') = n + 1 /\ osv' \in Seq(Report)
      /\ 1..n \subseteq 1..(n + 1) /\ n + 1 \in 0..(n + 1)
      /\ \A i \in 1..n : osv'[i] = osv[i]
  OBVIOUS
<1> DEFINE S == ScoresOf(v, n)
           T == {0} \cup {osv'[i].score : i \in {j \in 1..(n + 1) : Affects(osv'[j], v)}}
<1>2. S \in SUBSET Scores /\ 0 \in S /\ ScoreOf(v, n) = Max(S)
  BY <1>1, ScoresType
<1>3. T \in SUBSET Scores /\ 0 \in T
  <2>1. ASSUME NEW i \in 1..(n + 1) PROVE osv'[i].score \in Scores
    <3>1. osv'[i] \in Report  BY <1>1
    <3>. QED  BY <3>1 DEF Report
  <2>2. 0 \in Scores  BY DEF Scores
  <2>. QED  BY <2>1, <2>2
<1>4. (ScoreOf(v, Len(osv)))' = Max(T)
  BY <1>1 DEF ScoreOf
<1>5. S \subseteq T
  <2>1. ASSUME NEW i \in {j \in 1..n : Affects(osv[j], v)} PROVE osv[i].score \in T
    <3>1. i \in 1..(n + 1) /\ osv'[i] = osv[i] /\ Affects(osv'[i], v)  BY <1>1
    <3>. QED  BY <3>1
  <2>. QED  BY <2>1 DEF ScoresOf
<1> HIDE DEF S, T
<1>6. Max(S) \in T /\ Max(T) \in T /\ \A t \in T : t <= Max(T)
  BY <1>2, <1>3, <1>5, HighestScore
<1>. QED  BY <1>2, <1>3, <1>4, <1>6 DEF n

\* As long as an alert is due, nothing is cached that the tick might take for an
\* answer of now, and what it has found, or would find, reaches its threshold.
DueInv ==
    due =>
      /\ scan = "cve" => cveCache[NoVersion] = NoEntry
      /\ scan \in {"cve", "osv"} => CveBlocks(walked, ScoreOf(NoVersion, Len(osv)))
      /\ scan = "keep" => CveBlocks(walked, found.score)

LEMMA BlocksMore ==
  ASSUME NEW r \in RegistryContent, NEW s \in Scores, NEW t \in Scores, s <= t, CveBlocks(r, s)
  PROVE  CveBlocks(r, t)
<1>1. r.threshold \in Scores  BY DEF RegistryContent
<1>2. \A a, b, c \in Scores : a <= b /\ a > 0 /\ a >= c => b > 0 /\ b >= c
  BY DEF Scores
<1>. QED  BY <1>1, <1>2 DEF CveBlocks

\* An answer with a score names a vulnerability.
LEMMA ScoredIsNamed ==
  ASSUME EvaluateTypeOK, NEW info \in OsvAnswers(NoVersion), info.score > 0
  PROVE  Ids(info) # {}
<1>1. PICK k \in 0..Len(osv) : info = [score |-> ScoreOf(NoVersion, k), asOf |-> k]
  BY DEF OsvAnswers
<1>2. info.asOf = k /\ ScoreOf(NoVersion, k) > 0
  BY <1>1
<1>3. ASSUME k = 0 PROVE FALSE
  <2>1. k \in 0..Len(osv) /\ osv \in Seq(Report)
    BY DEF EvaluateTypeOK
  <2>2. /\ ScoresOf(NoVersion, k) \in SUBSET Scores
        /\ 0 \in ScoresOf(NoVersion, k)
        /\ ScoreOf(NoVersion, k) = Max(ScoresOf(NoVersion, k))
    BY <2>1, ScoresType
  <2>3. ScoresOf(NoVersion, k) = {0}
    BY <1>3 DEF ScoresOf
  <2>4. Max(ScoresOf(NoVersion, k)) \in ScoresOf(NoVersion, k)
    BY <2>2, HighestScore
  <2>. QED  BY <1>2, <2>2, <2>3, <2>4
<1>4. 1 \in 1..k
  BY <1>3
<1>. QED  BY <1>2, <1>4 DEF Ids, Affects, NoVersion

\* A step of the evaluations keeps an alert due, or says that it no longer is.
LEMMA BesideKeepsDue ==
  ASSUME ScannerInv, DueInv, EvaluateStep
  PROVE  DueInv'
<1>1. Next /\ UNCHANGED <<scan, walked, found>> /\ (due' => due /\ ~ \E c \in Calls : Foreign(c))
  BY Zenon DEF EvaluateStep, Beside
<1> SUFFICES ASSUME due' PROVE DueInv'
  BY Zenon DEF DueInv
<1>2. due /\ \A c \in Calls : ~Foreign(c)
  BY <1>1
<1>3. EvaluateTypeOK /\ NoVersion \in 0..MaxVersion
  BY NoVersionType DEF ScannerInv, EvaluateInv
<1>4. cveCache[NoVersion] = NoEntry => cveCache'[NoVersion] = NoEntry
  <2>1. CASE \E c \in Calls : KeepCves(c)
    <3>1. PICK c \in Calls : KeepCves(c)  BY <2>1
    <3>2. pc[c] = "keepCves" /\ pc'[c] # "keepCves"
      BY <1>3, <3>1 DEF KeepCves, Conclude, Go, EvaluateTypeOK
    <3>3. QueryVersion(c) # NoVersion
      BY <1>2, <3>2, Zenon DEF Foreign
    <3>4. \/ cveCache' = [cveCache EXCEPT ![QueryVersion(c)] = cves[c]]
          \/ cveCache' = cveCache
      BY <3>1 DEF KeepCves
    <3>. QED  BY <1>3, <3>3, <3>4 DEF EvaluateTypeOK
  <2>2. CASE \E key \in 0..MaxVersion : ExpireCves(key)
    BY <1>3, <2>2 DEF ExpireCves, EvaluateTypeOK
  <2>3. \/ \E c \in Calls : KeepCves(c)
        \/ \E key \in 0..MaxVersion : ExpireCves(key)
        \/ cveCache' = cveCache
    BY <1>1 DEF Next, Environment, Swap, Release, Disclose, ExpireLicense, CallStep,
       Begin, Proceed, LicenseHit, LicenseMiss, Pypi, KeepLicense, CveHit, CveMiss, Osv,
       OsvOutage, Audit, caches
  <2>. QED  BY <2>1, <2>2, <2>3
<1>5. scan # "sleeping" /\ CveBlocks(walked, ScoreOf(NoVersion, Len(osv)))
        => CveBlocks(walked, (ScoreOf(NoVersion, Len(osv)))')
  <2>1. osv' = osv \/ \E report \in Reports : osv' = Append(osv, report)
    BY <1>1 DEF Next, Environment, Swap, Release, Disclose, ExpireLicense, ExpireCves, CallStep,
       Begin, Proceed, LicenseHit, LicenseMiss, Pypi, KeepLicense, CveHit, CveMiss, Osv,
       OsvOutage, KeepCves, Audit, world
  <2>2. CASE osv' = osv
    BY <2>2 DEF ScoreOf, Affects
  <2>3. CASE \E report \in Reports : osv' = Append(osv, report)
    <3>1. PICK report \in Reports : osv' = Append(osv, report)  BY <2>3
    <3>2. osv \in Seq(Report) /\ report \in Report
      BY <1>3, EvaluateAssumption DEF EvaluateAssumption, EvaluateTypeOK
    <3>3. /\ ScoreOf(NoVersion, Len(osv)) \in Scores /\ (ScoreOf(NoVersion, Len(osv)))' \in Scores
          /\ ScoreOf(NoVersion, Len(osv)) <= (ScoreOf(NoVersion, Len(osv)))'
      BY <3>1, <3>2, ScoreGrows DEF NoVersion
    <3>4. scan # "sleeping" => walked \in RegistryContent
      BY DEF ScannerInv, FoundInv
    <3>. QED  BY <3>3, <3>4, BlocksMore
  <2>. QED  BY <2>1, <2>2, <2>3
<1>. QED  BY <1>1, <1>2, <1>4, <1>5 DEF DueInv

LEMMA ScanKeepsDue ==
  ASSUME ScannerInv, DueInv, Scan \/ Break \/ UNCHANGED allVars
  PROVE  DueInv'
<1>1. ASSUME UNCHANGED osv
      PROVE  (ScoreOf(NoVersion, Len(osv)))' = ScoreOf(NoVersion, Len(osv))
  BY <1>1 DEF ScoreOf, Affects
<1>2. UNCHANGED evalVars => UNCHANGED <<osv, cveCache, registry>>
  BY DEF evalVars, world, caches
<1>3. CASE Tick
  <2>1. due' => /\ cveCache[NoVersion] = NoEntry
                /\ CveBlocks(registry, ScoreOf(NoVersion, Len(osv)))
    BY <1>3, Zenon DEF Tick
  <2>2. scan' = "cve" /\ walked' = registry
    BY <1>3 DEF Tick
  <2>3. UNCHANGED <<osv, cveCache, registry>>
    BY <1>2, <1>3 DEF Tick
  <2>. QED  BY <1>1, <2>1, <2>2, <2>3 DEF DueInv
<1>4. CASE ScanHit \/ ScanKeep \/ Alert
  <2>1. scan' \in {"alerting", "sleeping"}
    BY <1>4 DEF ScanHit, ScanKeep, Alert, Scored
  <2>. QED  BY <2>1 DEF DueInv
<1>5. CASE ScanMiss
  <2>1. scan = "cve" /\ scan' = "osv" /\ UNCHANGED <<walked, due, osv>>
    BY <1>2, <1>5 DEF ScanMiss
  <2>. QED  BY <1>1, <2>1 DEF DueInv
<1>6. CASE ScanOsv
  <2>1. /\ scan = "osv" /\ scan' = "keep" /\ UNCHANGED <<walked, due>>
        /\ found'.score = ScoreOf(NoVersion, Len(osv))
    BY <1>6 DEF ScanOsv
  <2>. QED  BY <2>1 DEF DueInv
<1>7. CASE Break \/ ScanOutage
  <2>1. ~due'  BY <1>7 DEF Break, ScanOutage
  <2>. QED  BY <2>1, Zenon DEF DueInv
<1>8. CASE UNCHANGED allVars
  <2>1. UNCHANGED <<scan, walked, found, due, osv, cveCache>>
    BY <1>2, <1>8 DEF allVars, scanVars
  <2>. QED  BY <1>1, <2>1 DEF DueInv
<1>. QED  BY <1>3, <1>4, <1>5, <1>6, <1>7, <1>8 DEF Scan

\* dashboards.md:165: "every alert is at most a scan-cycle behind the OSV
\* publish": a tick that runs to its end has alerted for every vulnerability that
\* OSV knew at its beginning and that reaches the threshold of its registry, but
\* for an outage of OSV and an entry under "latest" that an unpinned evaluation
\* stores meanwhile.
THEOREM DueAlertsComeOut == ScannerSpec => DueAlertsAreWritten
<1>1. ScannerInit => DueInv
  BY DEF ScannerInit, DueInv
<1>2. ScannerInv /\ DueInv /\ [ScannerNext]_allVars => DueInv'
  BY BesideKeepsDue, ScanKeepsDue DEF ScannerNext
<1>3. ScannerInv /\ DueInv /\ [ScannerNext]_allVars =>
        [scan # "sleeping" /\ scan' = "sleeping" /\ due => ~due' \/ alerted']_allVars
  <2> SUFFICES ASSUME ScannerInv, DueInv, ScannerNext,
                      scan # "sleeping", scan' = "sleeping", due, due'
               PROVE  alerted'
    BY Zenon
  <2>1. CASE Alert
    BY <2>1 DEF Alert
  <2>2. CASE ScanKeep
    <3>1. scan = "keep" /\ Scored(found)  BY <2>2 DEF ScanKeep
    <3>2. CveBlocks(walked, found.score)  BY <3>1, Zenon DEF DueInv
    <3>3. Ids(found) # {}
      <4>1. found \in OsvAnswers(NoVersion) /\ EvaluateTypeOK
        BY <3>1 DEF ScannerInv, EvaluateInv, FoundInv
      <4>. QED  BY <3>2, <4>1, ScoredIsNamed DEF CveBlocks
    <3>. QED  BY <3>1, <3>2, <3>3 DEF Scored
  <2>3. CASE ScanHit
    <3>1. scan = "cve" /\ cveCache[NoVersion] # NoEntry  BY <2>3 DEF ScanHit
    <3>. QED  BY <3>1, Zenon DEF DueInv
  <2>4. CASE Break \/ ScanOutage
    BY <2>4 DEF Break, ScanOutage
  <2>5. CASE Tick \/ ScanMiss \/ ScanOsv \/ EvaluateStep
    BY <2>5 DEF Tick, ScanMiss, ScanOsv, EvaluateStep, Beside
  <2>. QED  BY <2>1, <2>2, <2>3, <2>4, <2>5 DEF ScannerNext, Scan
<1>. QED  BY ScannerInvariant, <1>1, <1>2, <1>3, PTL DEF ScannerSpec, DueAlertsAreWritten

=============================================================================
