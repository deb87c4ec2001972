----------------------------- MODULE Reports_proofs -----------------------------
(***************************************************************************)
(* The panel misses nobody and the reports add up, for any packages,       *)
(* projects and spellings, any limit, and however rows, requests and       *)
(* reloads come between their queries.                                     *)
(***************************************************************************)
EXTENDS Reports, FiniteSetTheorems, FunctionTheorems, TLAPS

-----------------------------------------------------------------------------
(* Counting.                                                               *)

LEMMA SameCardinality ==
  ASSUME NEW S, NEW T, IsFiniteSet(S), NEW f \in [S -> T],
         \A a, b \in S : f[a] = f[b] => a = b,
         \A t \in T : \E s \in S : f[s] = t
  PROVE  IsFiniteSet(T) /\ Cardinality(T) = Cardinality(S)
<1>1. f \in Injection(S, T)
  BY Fun_IsInj
<1>2. f \in Surjection(S, T)
  BY Fun_IsSurj
<1> QED BY <1>1, <1>2, FS_Surjection

LEMMA RowsAreFinite ==
  ASSUME NEW n \in Nat, NEW R \in SUBSET (1..n)
  PROVE  IsFiniteSet(R) /\ Cardinality(R) \in 0..n
<1>1. IsFiniteSet(1..n) /\ Cardinality(1..n) = n
  BY FS_Interval
<1>2. IsFiniteSet(R) /\ Cardinality(R) <= n
  BY <1>1, FS_Subset
<1>3. Cardinality(R) \in Nat
  BY <1>2, FS_CardinalityType
<1> QED BY <1>2, <1>3

\* How many rows are as late as j.
Rank(R, j) == Cardinality({k \in R : k >= j})

LEMMA RankFacts ==
  ASSUME NEW n \in Nat, NEW R \in SUBSET (1..n)
  PROVE  /\ \A j \in R : Rank(R, j) \in 1..Cardinality(R)
         /\ \A i, j \in R : i < j => Rank(R, j) < Rank(R, i)
<1>0. IsFiniteSet(R) /\ Cardinality(R) \in Nat
  BY RowsAreFinite
<1>1. ASSUME NEW j \in R PROVE Rank(R, j) \in 1..Cardinality(R)
  <2> DEFINE L == {k \in R : k >= j}
  <2>1. IsFiniteSet(L) /\ Cardinality(L) <= Cardinality(R)
    BY <1>0, FS_Subset
  <2>2. j \in L
    OBVIOUS
  <2>3. Cardinality(L) \in Nat /\ Cardinality(L) # 0
    BY <2>1, <2>2, FS_CardinalityType, FS_EmptySet
  <2> HIDE DEF L
  <2>4. Cardinality(L) \in 1..Cardinality(R)
    BY <1>0, <2>1, <2>3
  <2> QED BY <2>4 DEF Rank, L
<1>2. ASSUME NEW i \in R, NEW j \in R, i < j PROVE Rank(R, j) < Rank(R, i)
  <2> DEFINE L == {k \in R : k >= i}
             M == {k \in R : k >= j}
  <2>0. i \in Int /\ j \in Int /\ R \subseteq Int
    OBVIOUS
  <2>1a. i \in L /\ i \notin M
    BY <1>2, <2>0
  <2>1b. ASSUME NEW k \in R, k >= j PROVE k >= i
    <3>1. k \in Int
      BY <2>0
    <3> QED BY <1>2, <2>0, <2>1b, <3>1
  <2>1. M \subseteq L /\ i \in L /\ i \notin M
    BY <2>1a, <2>1b
  <2>2. IsFiniteSet(L)
    BY <1>0, FS_Subset
  <2> HIDE DEF L, M
  <2>3. IsFiniteSet(M) /\ Cardinality(M) <= Cardinality(L) /\ Cardinality(L) # Cardinality(M)
    BY <2>1, <2>2, FS_Subset
  <2>4. Cardinality(M) \in Nat /\ Cardinality(L) \in Nat
    BY <2>2, <2>3, FS_CardinalityType
  <2>5. Cardinality(M) < Cardinality(L)
    BY <2>3, <2>4
  <2> QED BY <2>5 DEF Rank, L, M
<1> QED BY <1>1, <1>2

\* A row is not among the latest ones only for Limit later ones.
LEMMA LatestFacts ==
  ASSUME NEW n \in Nat, NEW R \in SUBSET (1..n), NEW i \in R, i \notin Latest(R)
  PROVE  Cardinality({j \in Latest(R) : j > i}) = Limit
<1>0. IsFiniteSet(R) /\ Cardinality(R) \in Nat /\ Limit \in Nat
  BY RowsAreFinite, ReportsAssumption DEF ReportsAssumption
<1>1. \A j \in R : j \in Latest(R) <=> Rank(R, j) <= Limit
  BY DEF Latest, Rank
<1>2. /\ \A j \in R : Rank(R, j) \in 1..Cardinality(R)
      /\ \A j, k \in R : j < k => Rank(R, k) < Rank(R, j)
  BY RankFacts
<1>3. \A j, k \in R : Rank(R, j) = Rank(R, k) => j = k
  <2> TAKE j, k \in R
  <2>1. j < k \/ k < j \/ j = k
    OBVIOUS
  <2>2. Rank(R, j) \in Int /\ Rank(R, k) \in Int
    BY <1>2
  <2> QED BY <1>2, <2>1, <2>2
<1>4. \A r \in 1..Cardinality(R) : \E j \in R : Rank(R, j) = r
  <2> DEFINE f == [j \in R |-> Rank(R, j)]
             T == 1..Cardinality(R)
  <2>1. f \in [R -> T] /\ \A j, k \in R : f[j] = f[k] => j = k
    BY <1>2, <1>3
  <2>2. f \in Injection(R, T)
    <3> HIDE DEF f, T
    <3> QED BY <2>1, Fun_IsInj
  <2>3. IsFiniteSet(T) /\ Cardinality(T) = Cardinality(R)
    BY <1>0, FS_Interval
  <2>4. f \in Surjection(R, T)
    <3> HIDE DEF f, T
    <3> QED BY <2>2, <2>3, FS_Injection
  <2> QED BY <2>4 DEF Surjection
<1>5. Limit < Rank(R, i) /\ Rank(R, i) <= Cardinality(R)
  BY <1>0, <1>1, <1>2
<1>6. {j \in Latest(R) : j > i} = Latest(R)
  <2> SUFFICES ASSUME NEW j \in Latest(R) PROVE j > i
    OBVIOUS
  <2>1. j \in R /\ Rank(R, j) <= Limit
    BY <1>1 DEF Latest
  <2>2. Rank(R, j) < Rank(R, i) /\ Rank(R, j) \in Int /\ Rank(R, i) \in Int
    BY <1>0, <1>2, <1>5, <2>1
  <2>3. ~(Rank(R, i) < Rank(R, j)) /\ Rank(R, i) # Rank(R, j)
    BY <2>2
  <2>4. ~(j < i) /\ j # i
    BY <1>2, <2>1, <2>3
  <2>5. i \in Nat /\ j \in Nat
    BY <2>1
  <2> QED BY <2>4, <2>5
<1>7. Cardinality(Latest(R)) = Limit
  <2> DEFINE g == [j \in Latest(R) |-> Rank(R, j)]
             T == 1..Limit
  <2>1. \A j \in Latest(R) : Rank(R, j) \in 1..Limit
    <3> TAKE j \in Latest(R)
    <3>1. j \in R /\ Rank(R, j) <= Limit /\ Rank(R, j) \in 1..Cardinality(R)
      BY <1>1, <1>2 DEF Latest
    <3> QED BY <1>0, <3>1
  <2>2. \A j, k \in Latest(R) : g[j] = g[k] => j = k
    BY <1>3 DEF Latest
  <2>3. ASSUME NEW r \in T PROVE \E j \in Latest(R) : g[j] = r
    <3>1. r \in 1..Cardinality(R) /\ r <= Limit
      BY <1>0, <1>2, <1>5
    <3>2. PICK j \in R : Rank(R, j) = r
      BY <1>4, <3>1
    <3> QED BY <1>1, <3>1, <3>2
  <2>4. IsFiniteSet(Latest(R))
    BY <1>0, FS_Subset DEF Latest
  <2>5. Cardinality(T) = Limit
    BY <1>0, FS_Interval
  <2>1a. g \in [Latest(R) -> T]
    BY <2>1
  <2> HIDE DEF g, T
  <2>6. Cardinality(T) = Cardinality(Latest(R))
    BY <2>1a, <2>2, <2>3, <2>4, SameCardinality
  <2> QED BY <2>5, <2>6
<1> QED BY <1>6, <1>7

-----------------------------------------------------------------------------
(* The store.  These lemmas name no string, for the arithmetic in them.    *)

LEMMA AppendFacts ==
  ASSUME NEW S, NEW q \in Seq(S), NEW e \in S
  PROVE  /\ Append(q, e) \in Seq(S)
         /\ Len(q) \in Nat
         /\ Len(Append(q, e)) = Len(q) + 1
         /\ \A i \in 1..Len(q) : Append(q, e)[i] = q[i]
         /\ Append(q, e)[Len(q) + 1] = e
  OBVIOUS

LEMMA OneMore ==
  ASSUME NEW n \in Nat
  PROVE  1..(n + 1) = (1..n) \cup {n + 1} /\ n + 1 \notin 1..n
  OBVIOUS

\* The rows that say no to a caller.
DenialRows == {i \in 1..Len(log) : log[i].category \in Categories}

RowsInv ==
    /\ Len(log) <= MaxRows
    /\ \A i \in 1..Len(log) :
         /\ log[i].verdict = "DENIED" <=> log[i].category \in Categories
         /\ log[i].verdict = "DENIED" => log[i].project \in Projects
    /\ denied = {Denial(i, log[i].category, log[i].project) : i \in DenialRows}
    /\ IsFiniteSet(denied)

\* Whoever waits is among the pending ones: a reload marks the rows of packages
\* it has registered, and of no other.
WaitingInv ==
    /\ asked \subseteq Unregistered \cap Pending
    /\ marking \cap Unregistered = {}

HasRow(p) == \E i \in Window : Normalized[log[i].package] = p

Unasked == steady.unasked \ steady.late

\* What the panel has read keeps its promise to those who waited when it began
\* and wait still: until its last query nobody it must show among the implicit
\* ones has a request, and what was evaluated before it is in what it has read.
PanelInv ==
    /\ pc # "idle" => /\ steady.asked \subseteq explicit
                      /\ steady.unasked \cap explicit = {}
    /\ pc \in {"rows", "requests"} => Unasked \cap Requested = {}
    /\ pc = "requests" => \A p \in Packages : EvaluatedBefore(p) => grouped[p].evaluations # 0
    /\ pc = "filter" => \A p \in Unasked : EvaluatedBefore(p) => implicit[p] # ""

AuditInv ==
    /\ AuditTypeOK
    /\ RowsInv
    /\ WaitingInv
    /\ PanelInv

LEMMA Counted ==
  ASSUME log \in Seq(Row), Len(log) <= MaxRows, NEW p, NEW verdicts
  PROVE  CountRows(p, verdicts) \in 0..MaxRows
<1>1. Len(log) \in Nat /\ MaxRows \in Nat
  BY AuditAssumption DEF AuditAssumption
<1>2. CountRows(p, verdicts) \in 0..Len(log)
  BY <1>1, RowsAreFinite DEF CountRows, Window
<1> QED BY <1>1, <1>2

LEMMA ReasonFacts ==
  ASSUME NEW e
  PROVE  /\ Reason(e) \in Reasons \cup {""}
         /\ e.evaluations \in Nat /\ e.evaluations # 0 => Reason(e) # ""
<1>1. e.evaluations \in Nat /\ e.evaluations # 0 => e.evaluations > 0
  OBVIOUS
<1> DEFINE A == e.evaluations = 0
           B == e.evaluations > 0 /\ e.provisional > 0
           C == e.evaluations > 0 /\ e.provisional = 0 /\ e.denials >= 3
<1>2. Reason(e) = CASE A -> "" [] B -> "provisional-no-rationale"
                    [] C -> "repeatedly-denied" [] OTHER -> "pre-screened"
  BY Zenon DEF Reason
<1> HIDE DEF A, B, C
<1>3. \/ Reason(e) = "" /\ A
      \/ Reason(e) \in Reasons
  BY <1>2, Zenon DEF Reasons
<1>4. "" \notin Reasons
  BY DEF Reasons
<1> QED BY <1>1, <1>3, <1>4, Zenon DEF A

LEMMA GroupedTypes ==
  ASSUME log \in Seq(Row), Len(log) <= MaxRows
  PROVE  Grouped \in [Packages -> [evaluations : 0..MaxRows, denials : 0..MaxRows,
                                   provisional : 0..MaxRows]]
<1> DEFINE T == 0..MaxRows
<1>1. \A p, verdicts : CountRows(p, verdicts) \in T
  BY Counted
<1> HIDE DEF T
<1>2. Grouped \in [Packages -> [evaluations : T, denials : T, provisional : T]]
  BY <1>1 DEF Grouped
<1> QED BY <1>2 DEF T

LEMMA GroupedRows ==
  ASSUME log \in Seq(Row), NEW p \in Packages
  PROVE  Grouped[p].evaluations # 0 <=> HasRow(p)
<1> DEFINE V == {"ALLOWED", "DENIED", "PROVISIONALLY_ALLOWED", "CVE_ALERT"}
           S == {i \in Window : Normalized[log[i].package] = p /\ log[i].verdict \in V}
<1>1. Grouped[p].evaluations = Cardinality(S)
  BY DEF Grouped, CountRows
<1>2. \A i \in Window : log[i] \in Row
  BY DEF Window
<1>3. \A i \in Window : log[i].verdict \in V
  BY <1>2 DEF Row
<1> HIDE DEF V
<1>4. HasRow(p) <=> S # {}
  BY <1>3 DEF HasRow
<1>5. IsFiniteSet(S)
  <2>1. Len(log) \in Nat /\ S \in SUBSET (1..Len(log))
    BY DEF Window
  <2> HIDE DEF S
  <2> QED BY <2>1, RowsAreFinite
<1> HIDE DEF S
<1>6. Cardinality(S) # 0 <=> S # {}
  BY <1>5, FS_EmptySet
<1> QED BY <1>1, <1>4, <1>6

-----------------------------------------------------------------------------
(* Every step of the store leaves the rows as they are and adds at most    *)
(* one: the reports need this, too.                                        *)

Grows ==
    /\ Len(log) <= Len(log')
    /\ \A i \in 1..Len(log) : log'[i] = log[i]
    /\ expired <= expired'
    /\ denied \subseteq denied'
    /\ \A r \in Projects \X Spellings : requests[r] # "none" => requests'[r] # "none"

\* A row that is added says no exactly when the denial is noted.
Noted(row, at) ==
    IF row.category \in Categories THEN {Denial(at, row.category, row.project)} ELSE {}

Added(row) ==
    /\ Len(log) < MaxRows
    /\ row \in Row
    /\ row.verdict = "DENIED" <=> row.category \in Categories
    /\ row.verdict = "DENIED" => row.project \in Projects
    /\ log' = Append(log, row)
    /\ denied' = denied \cup Noted(row, Len(log'))

LEMMA EvaluateAdds ==
  ASSUME AuditTypeOK, NEW s \in Spellings, NEW pr \in Projects, Evaluate(s, pr)
  PROVE  \E row : Added(row)
<1>1. PICK row \in Outcomes(s, pr) :
        /\ log' = Append(log, row)
        /\ denied' = denied \cup (IF row.category = "" THEN {}
                                  ELSE {Denial(Len(log'), row.category, pr)})
  BY DEF Evaluate
<1> DEFINE Verdicts == {"ALLOWED", "DENIED", "PROVISIONALLY_ALLOWED"}
<1>2. \E verdict \in Verdicts, category \in Categories \cup {""} :
        /\ row = Evaluation(s, pr, verdict, category)
        /\ verdict = "DENIED" <=> category # ""
  <2>1. registry[Normalized[s]] \in Statuses
    BY AuditAssumption DEF AuditAssumption, AuditTypeOK
  <2>2. \/ row = Evaluation(s, pr, "ALLOWED", "")
        \/ row = Evaluation(s, pr, "PROVISIONALLY_ALLOWED", "")
        \/ \E c \in Categories : row = Evaluation(s, pr, "DENIED", c)
    <3>1. CASE registry[Normalized[s]] = "approved"
      <4>1. Outcomes(s, pr) = {Evaluation(s, pr, "ALLOWED", ""), Evaluation(s, pr, "DENIED", "cve")}
        BY <3>1 DEF Outcomes
      <4> QED BY <1>1, <4>1, Zenon DEF Categories
    <3>2. CASE registry[Normalized[s]] = "banned"
      <4>1. Outcomes(s, pr) = {Evaluation(s, pr, "DENIED", "registry")}
        BY <3>2 DEF Outcomes
      <4> QED BY <1>1, <4>1, Zenon DEF Categories
    <3>3. CASE registry[Normalized[s]] = "unknown"
      <4>1. Outcomes(s, pr) = {Evaluation(s, pr, "PROVISIONALLY_ALLOWED", "")}
                              \cup {Evaluation(s, pr, "DENIED", c) : c \in {"license", "cve"}}
        BY <3>3 DEF Outcomes
      <4> QED BY <1>1, <4>1, Zenon DEF Categories
    <3> QED BY <2>1, <3>1, <3>2, <3>3 DEF Statuses
  <2>3. \A c \in Categories : c # "" /\ c \in Categories \cup {""}
    BY DEF Categories
  <2>4. "ALLOWED" # "DENIED" /\ "PROVISIONALLY_ALLOWED" # "DENIED"
    OBVIOUS
  <2> QED BY <2>2, <2>3, <2>4, Zenon
<1>2a. PICK verdict \in Verdicts, category \in Categories \cup {""} :
         /\ row = Evaluation(s, pr, verdict, category)
         /\ verdict = "DENIED" <=> category # ""
  BY <1>2
<1>3. row \in Row
  BY <1>2a DEF Row, Evaluation
<1>4. row.project = pr /\ row.category = category /\ row.verdict = verdict
  BY <1>2a DEF Evaluation
<1>5. row.category # "" <=> row.category \in Categories
  BY <1>4 DEF Categories
<1>6. Len(log) < MaxRows
  BY DEF Evaluate
<1>7. denied' = denied \cup Noted(row, Len(log'))
  BY <1>1, <1>4, <1>5, Zenon DEF Noted
<1> QED BY <1>1, <1>2a, <1>3, <1>4, <1>5, <1>6, <1>7, Zenon DEF Added

LEMMA AlertAdds ==
  ASSUME AuditTypeOK, NEW p \in Packages, Alert(p)
  PROVE  \E row : Added(row)
<1> DEFINE row == Evaluation(p, ServerProject, "CVE_ALERT", "cve_alert")
<1>1. row \in Row /\ row.verdict # "DENIED" /\ row.category \notin Categories
  BY AuditAssumption DEF AuditAssumption, Row, Evaluation, Categories
<1>2. Len(log) < MaxRows /\ log' = Append(log, row) /\ denied' = denied
  BY DEF Alert
<1> HIDE DEF row
<1>3. denied' = denied \cup Noted(row, Len(log'))
  BY <1>1, <1>2 DEF Noted
<1> QED BY <1>1, <1>2, <1>3 DEF Added

\* The arithmetic of a row that is added.
LEMMA AddedRow ==
  ASSUME log \in Seq(Row), NEW row \in Row, Len(log) < MaxRows, log' = Append(log, row)
  PROVE  /\ log' \in Seq(Row)
         /\ Len(log) \in Nat
         /\ Len(log') = Len(log) + 1
         /\ Len(log') <= MaxRows /\ Len(log) <= Len(log')
         /\ Len(log') \in 1..MaxRows
         /\ 1..Len(log') = (1..Len(log)) \cup {Len(log')}
         /\ Len(log') \notin 1..Len(log)
         /\ \A i \in 1..Len(log) : log'[i] = log[i]
         /\ log'[Len(log')] = row
<1>1. MaxRows \in Nat
  BY AuditAssumption DEF AuditAssumption
<1> DEFINE R == Row
<1>2. log \in Seq(R) /\ row \in R
  OBVIOUS
<1> HIDE DEF R
<1>3. /\ log' \in Seq(R)
      /\ Len(log) \in Nat
      /\ Len(log') = Len(log) + 1
      /\ \A i \in 1..Len(log) : log'[i] = log[i]
      /\ log'[Len(log) + 1] = row
  BY <1>2, AppendFacts
<1>4. 1..(Len(log) + 1) = (1..Len(log)) \cup {Len(log) + 1} /\ Len(log) + 1 \notin 1..Len(log)
  BY <1>3, OneMore
<1>5. Len(log) + 1 <= MaxRows /\ Len(log) <= Len(log) + 1 /\ Len(log) + 1 \in 1..MaxRows
  BY <1>1, <1>3
<1> QED BY <1>3, <1>4, <1>5 DEF R

LEMMA AddedKeepsRows ==
  ASSUME AuditInv, NEW row, Added(row)
  PROVE  RowsInv' /\ log' \in Seq(Row)
         /\ denied' \subseteq [at : 1..MaxRows, category : Categories, project : Projects]
<1>0. log \in Seq(Row) /\ row \in Row /\ Len(log) < MaxRows /\ log' = Append(log, row)
  BY DEF AuditInv, AuditTypeOK, Added
<1>1. /\ log' \in Seq(Row)
      /\ Len(log') <= MaxRows
      /\ Len(log') \in 1..MaxRows
      /\ 1..Len(log') = (1..Len(log)) \cup {Len(log')}
      /\ Len(log') \notin 1..Len(log)
      /\ \A i \in 1..Len(log) : log'[i] = log[i]
      /\ log'[Len(log')] = row
  BY <1>0, AddedRow
<1> DEFINE L == 1..Len(log)
           n == Len(log')
           N == 1..MaxRows
           D(rows, R) == {Denial(i, rows[i].category, rows[i].project) : i \in R}
<1>2. 1..n = L \cup {n} /\ n \notin L /\ \A i \in L : log'[i] = log[i]
  BY <1>1
<1>3. \A i \in 1..n : /\ log'[i].verdict = "DENIED" <=> log'[i].category \in Categories
                      /\ log'[i].verdict = "DENIED" => log'[i].project \in Projects
  <2>1. \A i \in L : /\ log[i].verdict = "DENIED" <=> log[i].category \in Categories
                     /\ log[i].verdict = "DENIED" => log[i].project \in Projects
    BY DEF AuditInv, RowsInv
  <2>2. /\ row.verdict = "DENIED" <=> row.category \in Categories
        /\ row.verdict = "DENIED" => row.project \in Projects
    BY DEF Added
  <2>3. log'[n] = row
    BY <1>1
  <2> HIDE DEF L, n
  <2> QED BY <1>2, <2>1, <2>2, <2>3, Zenon
<1>4. DenialRows' = DenialRows \cup (IF row.category \in Categories THEN {n} ELSE {})
  <2>1. DenialRows' = {i \in 1..n : log'[i].category \in Categories}
    BY DEF DenialRows
  <2>2. DenialRows = {i \in L : log[i].category \in Categories}
    BY DEF DenialRows
  <2>3. log'[n] = row
    BY <1>1
  <2> HIDE DEF L, n, Categories
  <2> QED BY <1>2, <2>1, <2>2, <2>3
<1>5. denied' = D(log', DenialRows')
  <2>1. denied = D(log, DenialRows)
    BY DEF AuditInv, RowsInv
  <2>2. DenialRows \subseteq L
    BY DEF DenialRows
  <2>3. log'[n] = row
    BY <1>1
  <2>4. D(log', DenialRows) = D(log, DenialRows)
    BY <1>2, <2>2
  <2>5. denied' = denied \cup Noted(row, n)
    BY DEF Added
  <2>6. CASE row.category \in Categories
    <3>1. DenialRows' = DenialRows \cup {n}
      BY <1>4, <2>6
    <3>2. Noted(row, n) = {Denial(n, row.category, row.project)}
      BY <2>6 DEF Noted
    <3>3. D(log', DenialRows \cup {n}) = D(log', DenialRows) \cup {Denial(n, row.category, row.project)}
      <4> HIDE DEF n
      <4> QED BY <2>3
    <3> QED BY <2>1, <2>4, <2>5, <3>1, <3>2, <3>3
  <2>7. CASE row.category \notin Categories
    <3>1. DenialRows' = DenialRows
      BY <1>4, <2>7
    <3>2. Noted(row, n) = {}
      BY <2>7 DEF Noted
    <3> QED BY <2>1, <2>4, <2>5, <3>1, <3>2
  <2> QED BY <2>6, <2>7
<1>6. Noted(row, n) \subseteq [at : N, category : Categories, project : Projects]
  <2>1. row.category \in Categories => row.project \in Projects
    BY DEF Added
  <2>2. n \in N
    BY <1>1
  <2> HIDE DEF n, N, Categories
  <2> QED BY <2>1, <2>2 DEF Noted, Denial
<1>7. denied' \subseteq [at : N, category : Categories, project : Projects]
  BY <1>6 DEF Added, AuditInv, AuditTypeOK
<1>8. IsFiniteSet(denied')
  <2>1. IsFiniteSet(denied) /\ denied' = denied \cup Noted(row, n)
    BY DEF AuditInv, RowsInv, Added
  <2>2. IsFiniteSet(Noted(row, n))
    BY FS_EmptySet, FS_Singleton DEF Noted
  <2> HIDE DEF n
  <2> QED BY <2>1, <2>2, FS_Union
<1>9. RowsInv'
  BY <1>1, <1>3, <1>5, <1>8 DEF RowsInv
<1> QED BY <1>1, <1>7, <1>9

LEMMA NoRowsType ==
  NoRows \in [Packages -> [evaluations : 0..MaxRows, denials : 0..MaxRows,
                           provisional : 0..MaxRows]]
<1> DEFINE T == 0..MaxRows
<1>1. 0 \in T
  BY AuditAssumption DEF AuditAssumption
<1> HIDE DEF T
<1>2. NoRows \in [Packages -> [evaluations : T, denials : T, provisional : T]]
  BY <1>1 DEF NoRows
<1> QED BY <1>2 DEF T

LEMMA AuditInit ==
  ASSUME Init
  PROVE  AuditInv
<1>1. Len(log) = 0 /\ log \in Seq(Row) /\ 1..0 = {} /\ expired = 0 /\ 0 \in 0..0
  BY DEF Init
<1>2. MaxRows \in Nat /\ 0 <= MaxRows /\ 0 \in 0..MaxRows
  BY AuditAssumption DEF AuditAssumption
<1>4. AuditTypeOK
  BY <1>1, <1>2, NoRowsType DEF Init, AuditTypeOK, Statuses, Nothing, NotReading
<1>5. RowsInv
  BY <1>1, <1>2, FS_EmptySet DEF Init, RowsInv, DenialRows
<1>6. WaitingInv /\ PanelInv
  BY DEF Init, WaitingInv, PanelInv
<1> QED BY <1>4, <1>5, <1>6 DEF AuditInv

\* steady stays what it is while rows arrive.
LEMMA SteadyTypes ==
  ASSUME NEW n \in Nat, NEW m \in Nat, n <= m,
         steady \in [asked : SUBSET Packages, unasked : SUBSET Packages,
                     from : 0..n, late : SUBSET Packages]
  PROVE  steady \in [asked : SUBSET Packages, unasked : SUBSET Packages,
                     from : 0..m, late : SUBSET Packages]
<1> DEFINE T == 0..n
           U == 0..m
<1>1. T \subseteq U
  OBVIOUS
<1>2. steady \in [asked : SUBSET Packages, unasked : SUBSET Packages,
                  from : T, late : SUBSET Packages]
  OBVIOUS
<1> HIDE DEF T, U
<1>3. steady \in [asked : SUBSET Packages, unasked : SUBSET Packages,
                  from : U, late : SUBSET Packages]
  BY <1>1, <1>2
<1> QED BY <1>3 DEF U

LEMMA AuditTypeStep ==
  ASSUME AuditInv, [Next]_auditVars
  PROVE  AuditTypeOK'
<1> USE DEF AuditInv
<1>1. ASSUME NEW row, Added(row), UNCHANGED <<registryVars, expired, requests, panel, asked, steady>>
      PROVE  AuditTypeOK'
  <2>1. log' \in Seq(Row)
        /\ denied' \subseteq [at : 1..MaxRows, category : Categories, project : Projects]
    BY <1>1, AddedKeepsRows
  <2>2. /\ expired \in 0..Len(log')
        /\ steady \in [asked : SUBSET Packages, unasked : SUBSET Packages,
                       from : 0..Len(log'), late : SUBSET Packages]
    <3>1. log \in Seq(Row) /\ row \in Row /\ Len(log) < MaxRows /\ log' = Append(log, row)
      BY <1>1 DEF AuditTypeOK, Added
    <3>2. Len(log') = Len(log) + 1 /\ Len(log) \in Nat
      BY <3>1, AddedRow
    <3>3. /\ expired \in 0..Len(log)
          /\ steady \in [asked : SUBSET Packages, unasked : SUBSET Packages,
                         from : 0..Len(log), late : SUBSET Packages]
      BY DEF AuditTypeOK
    <3>4. Len(log) <= Len(log') /\ Len(log') \in Nat
      BY <3>2
    <3>5. expired \in 0..Len(log')
      BY <3>2, <3>3
    <3> QED BY <3>2, <3>3, <3>4, <3>5, SteadyTypes
  <2> QED BY <1>1, <2>1, <2>2 DEF AuditTypeOK, registryVars, panel
<1>2. ASSUME NEW s \in Spellings, NEW pr \in Projects, Evaluate(s, pr)
      PROVE  AuditTypeOK'
  BY <1>1, <1>2, EvaluateAdds DEF Evaluate
<1>3. ASSUME NEW p \in Packages, Alert(p)
      PROVE  AuditTypeOK'
  BY <1>1, <1>3, AlertAdds DEF Alert
<1>4. ASSUME Expire
      PROVE  AuditTypeOK'
  <2>1. expired' \in 0..Len(log)
    <3>1. expired \in 0..Len(log) /\ expired < Len(log) /\ expired' = expired + 1
      BY <1>4 DEF AuditTypeOK, Expire
    <3>2. log \in Seq(Row)
      BY DEF AuditTypeOK
    <3>3. Len(log) \in Nat
      BY <3>2
    <3> QED BY <3>1, <3>3
  <2> QED BY <1>4, <2>1 DEF Expire, AuditTypeOK, registryVars, panel
<1>5. ASSUME NEW s \in Spellings, NEW pr \in Projects, Request(pr, s)
      PROVE  AuditTypeOK'
  <2>1. Normalized[s] \in Packages
    BY AuditAssumption DEF AuditAssumption
  <2>2. asked' \subseteq Packages
    BY <1>5, <2>1 DEF Request, Asks, AuditTypeOK
  <2>3. steady' \in [asked : SUBSET Packages, unasked : SUBSET Packages,
                     from : 0..Len(log), late : SUBSET Packages]
    BY <1>5, <2>1 DEF Request, Asks, AuditTypeOK
  <2> QED BY <1>5, <2>2, <2>3 DEF Request, AuditTypeOK, registryVars, panel
<1>6. ASSUME NEW p \in Packages, NEW st \in Statuses, Swap(p, st)
      PROVE  AuditTypeOK'
  BY <1>6 DEF Swap, AuditTypeOK, store, panel
<1>7. ASSUME NEW p \in Packages, Mark(p)
      PROVE  AuditTypeOK'
  BY <1>7 DEF Mark, AuditTypeOK, panel
<1>8. ASSUME ReadExplicit
      PROVE  AuditTypeOK'
  <2>1. Pending \subseteq Packages
    BY AuditAssumption DEF AuditAssumption, Pending
  <2>2. Len(log) \in 0..Len(log)
    <3>1. log \in Seq(Row)
      BY DEF AuditTypeOK
    <3>2. Len(log) \in Nat
      BY <3>1
    <3> QED BY <3>2
  <2> QED BY <1>8, <2>1, <2>2 DEF ReadExplicit, AuditTypeOK, registryVars, store
<1>9. ASSUME ReadRows
      PROVE  AuditTypeOK'
  <2>1. grouped' \in [Packages -> [evaluations : 0..MaxRows, denials : 0..MaxRows,
                                   provisional : 0..MaxRows]]
    BY <1>9, GroupedTypes DEF ReadRows, AuditTypeOK, RowsInv
  <2> QED BY <1>9, <2>1 DEF ReadRows, AuditTypeOK, registryVars, store
<1>10. ASSUME ReadRequests
       PROVE  AuditTypeOK'
  <2>1. implicit' \in [Packages -> Reasons \cup {""}]
    BY <1>10, ReasonFacts DEF ReadRequests
  <2> QED BY <1>10, <2>1, NoRowsType DEF ReadRequests, AuditTypeOK, registryVars, store
<1>11. ASSUME Answer
       PROVE  AuditTypeOK'
  <2>1. 0 \in 0..Len(log)
    <3>1. log \in Seq(Row)
      BY DEF AuditTypeOK
    <3>2. Len(log) \in Nat
      BY <3>1
    <3> QED BY <3>2
  <2> QED BY <1>11, <2>1, NoRowsType
          DEF Answer, AuditTypeOK, registryVars, store, Nothing, NotReading
<1>12. ASSUME UNCHANGED auditVars
       PROVE  AuditTypeOK'
  BY <1>12 DEF auditVars, AuditTypeOK, registryVars, store, panel
<1> QED BY <1>2, <1>3, <1>4, <1>5, <1>6, <1>7, <1>8, <1>9, <1>10, <1>11, <1>12
        DEF Next, Store, Panel

LEMMA RowsStep ==
  ASSUME AuditInv, [Next]_auditVars
  PROVE  RowsInv'
<1>1. ASSUME UNCHANGED <<log, denied>>
      PROVE  RowsInv'
  BY <1>1 DEF AuditInv, RowsInv, DenialRows
<1>2. ASSUME NEW s \in Spellings, NEW pr \in Projects, Evaluate(s, pr)
      PROVE  RowsInv'
  BY <1>2, EvaluateAdds, AddedKeepsRows DEF AuditInv
<1>3. ASSUME NEW p \in Packages, Alert(p)
      PROVE  RowsInv'
  BY <1>3, AlertAdds, AddedKeepsRows DEF AuditInv
<1>4. Next => \/ \E s \in Spellings, pr \in Projects : Evaluate(s, pr)
              \/ \E p \in Packages : Alert(p)
              \/ UNCHANGED <<log, denied>>
  BY DEF Next, Store, Panel, Expire, Request, Swap, Mark, ReadExplicit, ReadRows, ReadRequests,
         Answer, store
<1>5. UNCHANGED auditVars => UNCHANGED <<log, denied>>
  BY DEF auditVars, store
<1> QED BY <1>1, <1>2, <1>3, <1>4, <1>5

LEMMA GrowsStep ==
  ASSUME AuditInv, [Next]_auditVars
  PROVE  Grows
<1>0. log \in Seq(Row)
  BY DEF AuditInv, AuditTypeOK
<1>1. Len(log) \in Nat /\ Len(log) <= Len(log) /\ expired \in 0..Len(log)
      /\ expired <= expired /\ expired <= expired + 1
  <2>1. Len(log) \in Nat
    BY <1>0
  <2>2. expired \in 0..Len(log)
    BY DEF AuditInv, AuditTypeOK
  <2> QED BY <2>1, <2>2
<1>2. ASSUME NEW row, Added(row), UNCHANGED <<expired, requests>>
      PROVE  Grows
  <2>1. row \in Row /\ Len(log) < MaxRows /\ log' = Append(log, row) /\ denied \subseteq denied'
    BY <1>2 DEF Added
  <2>2. Len(log) <= Len(log') /\ \A i \in 1..Len(log) : log'[i] = log[i]
    BY <1>0, <2>1, AddedRow
  <2> QED BY <1>1, <1>2, <2>1, <2>2 DEF Grows
<1>3. ASSUME NEW s \in Spellings, NEW pr \in Projects, Evaluate(s, pr)
      PROVE  Grows
  BY <1>2, <1>3, EvaluateAdds DEF Evaluate, AuditInv
<1>4. ASSUME NEW p \in Packages, Alert(p)
      PROVE  Grows
  BY <1>2, <1>4, AlertAdds DEF Alert, AuditInv
<1>5. CASE Expire
  BY <1>1, <1>5 DEF Expire, Grows
<1>6. ASSUME NEW s \in Spellings, NEW pr \in Projects, Request(pr, s)
      PROVE  Grows
  BY <1>1, <1>6 DEF Request, Grows, AuditInv, AuditTypeOK
<1>7. ASSUME NEW p \in Packages, Mark(p)
      PROVE  Grows
  BY <1>1, <1>7 DEF Mark, Grows
<1>8. ASSUME UNCHANGED <<store, denied>>
      PROVE  Grows
  BY <1>1, <1>8 DEF store, Grows
<1>9. ASSUME NEW p \in Packages, NEW st \in Statuses, Swap(p, st)
      PROVE  UNCHANGED <<store, denied>>
  BY <1>9 DEF Swap
<1>10. Panel \/ UNCHANGED auditVars => UNCHANGED <<store, denied>>
  BY DEF Panel, ReadExplicit, ReadRows, ReadRequests, Answer, auditVars
<1> QED BY <1>3, <1>4, <1>5, <1>6, <1>7, <1>8, <1>9, <1>10 DEF Next, Store

LEMMA WaitingStep ==
  ASSUME AuditInv, [Next]_auditVars
  PROVE  WaitingInv'
<1>0. /\ asked \subseteq Unregistered \cap Pending
      /\ marking \cap Unregistered = {}
      /\ registry \in [Packages -> Statuses]
      /\ requests \in [Projects \X Spellings -> {"none", "pending", "approved"}]
  BY DEF AuditInv, WaitingInv, AuditTypeOK
<1>1. ASSUME UNCHANGED <<registry, marking, requests, asked>>
      PROVE  WaitingInv'
  BY <1>0, <1>1 DEF WaitingInv, Unregistered, Pending
<1>2. ASSUME NEW s \in Spellings, NEW pr \in Projects, Request(pr, s)
      PROVE  WaitingInv'
  <2>1. Pending \subseteq Pending' /\ Normalized[s] \in Pending'
    <3>1. requests' = [requests EXCEPT ![<<pr, s>>] = "pending"]
      BY <1>2 DEF Request
    <3>2. \A r \in Projects \X Spellings : requests[r] = "pending" => requests'[r] = "pending"
      BY <1>0, <3>1
    <3>3. <<pr, s>> \in Projects \X Spellings /\ requests'[<<pr, s>>] = "pending" /\ <<pr, s>>[2] = s
      BY <1>0, <3>1
    <3>4. Normalized[s] \in Pending'
      BY <3>3, Zenon DEF Pending
    <3> QED BY <3>2, <3>4 DEF Pending
  <2>2. Unregistered' = Unregistered /\ marking' = marking
    BY <1>2 DEF Request, registryVars, Unregistered
  <2>3. asked' \subseteq asked \cup ({Normalized[s]} \cap Unregistered)
    BY <1>2 DEF Request, Asks
  <2> QED BY <1>0, <2>1, <2>2, <2>3 DEF WaitingInv
<1>3. ASSUME NEW p \in Packages, NEW st \in Statuses, Swap(p, st)
      PROVE  WaitingInv'
  <2>1. Pending' = Pending /\ asked' = asked \ {p} /\ marking = {}
    BY <1>3 DEF Swap, store, Pending
  <2>2. \A q \in Packages : q # p => registry'[q] = registry[q]
    BY <1>0, <1>3 DEF Swap
  <2>3. marking' \cap Unregistered' = {}
    BY <1>0, <1>3 DEF Swap, Unregistered
  <2>4. asked' \subseteq Unregistered'
    BY <1>0, <2>1, <2>2 DEF Unregistered
  <2> QED BY <1>0, <2>1, <2>3, <2>4 DEF WaitingInv
<1>4. ASSUME NEW p \in Packages, Mark(p)
      PROVE  WaitingInv'
  <2>1. Unregistered' = Unregistered /\ marking' = marking \ {p} /\ asked' = asked /\ p \in marking
    BY <1>4 DEF Mark, Unregistered
  <2>2. \A r \in Projects \X Spellings :
          requests[r] = "pending" /\ Normalized[r[2]] # p => requests'[r] = "pending"
    BY <1>4 DEF Mark
  <2>3. \A q \in Pending : q # p => q \in Pending'
    BY <2>2 DEF Pending
  <2>4. p \notin asked
    BY <1>0, <2>1
  <2> QED BY <1>0, <2>1, <2>3, <2>4 DEF WaitingInv
<1>5. Next => \/ \E s \in Spellings, pr \in Projects : Request(pr, s)
              \/ \E p \in Packages, st \in Statuses : Swap(p, st)
              \/ \E p \in Packages : Mark(p)
              \/ UNCHANGED <<registry, marking, requests, asked>>
  BY DEF Next, Store, Panel, Evaluate, Alert, Expire, ReadExplicit, ReadRows, ReadRequests,
         Answer, store, registryVars
<1>6. UNCHANGED auditVars => UNCHANGED <<registry, marking, requests, asked>>
  BY DEF auditVars, store, registryVars
<1> QED BY <1>1, <1>2, <1>3, <1>4, <1>5, <1>6

LEMMA EvaluatedStays ==
  ASSUME AuditInv, AuditTypeOK', Grows, steady'.from = steady.from, NEW p, EvaluatedBefore(p)'
  PROVE  EvaluatedBefore(p)
<1>1. PICK i \in Window' : i <= steady'.from /\ Normalized[log'[i].package] = p
  BY DEF EvaluatedBefore
<1>2. log \in Seq(Row) /\ log' \in Seq(Row) /\ steady.from \in 0..Len(log)
      /\ expired \in 0..Len(log) /\ expired' \in 0..Len(log')
  BY DEF AuditInv, AuditTypeOK
<1>3. Len(log) \in Nat /\ Len(log') \in Nat
  BY <1>2
<1>4. i \in 1..Len(log') /\ i > expired'
  BY <1>1 DEF Window
<1>5. i \in 1..Len(log) /\ i > expired /\ i <= steady.from
  <2>1. expired <= expired'
    BY DEF Grows
  <2> QED BY <1>1, <1>2, <1>3, <1>4, <2>1
<1>6. i \in Window /\ log'[i] = log[i]
  BY <1>5 DEF Window, Grows
<1> QED BY <1>1, <1>5, <1>6 DEF EvaluatedBefore

LEMMA PanelStep ==
  ASSUME AuditInv, [Next]_auditVars
  PROVE  PanelInv'
<1> DEFINE Kept == /\ pc' = pc
                   /\ explicit' = explicit
                   /\ grouped' = grouped
                   /\ implicit' = implicit
                   /\ steady'.asked = steady.asked
                   /\ steady'.unasked = steady.unasked
                   /\ steady'.from = steady.from
<1>0. /\ PanelInv
      /\ registry \in [Packages -> Statuses]
      /\ requests \in [Projects \X Spellings -> {"none", "pending", "approved"}]
      /\ steady.unasked \subseteq Packages
  BY DEF AuditInv, AuditTypeOK
<1>a. ASSUME steady'.from = steady.from, NEW p, EvaluatedBefore(p)' PROVE EvaluatedBefore(p)
  BY <1>a, GrowsStep, AuditTypeStep, EvaluatedStays DEF AuditInv
\* It is enough that whoever gets a request before the last query is late.
<1>1. ASSUME Kept,
             Unasked' \subseteq Unasked,
             pc \in {"rows", "requests"} => Unasked' \cap Requested' \subseteq Requested
      PROVE  PanelInv'
  <2>1. pc # "idle" => /\ steady'.asked \subseteq explicit'
                       /\ steady'.unasked \cap explicit' = {}
    BY <1>0, <1>1 DEF PanelInv
  <2>2. pc \in {"rows", "requests"} => Unasked' \cap Requested' = {}
    BY <1>0, <1>1 DEF PanelInv
  <2>3. pc = "requests" =>
          \A p \in Packages : EvaluatedBefore(p)' => grouped'[p].evaluations # 0
    BY <1>0, <1>1, <1>a DEF PanelInv
  <2>4. pc = "filter" => \A p \in Unasked' : EvaluatedBefore(p)' => implicit'[p] # ""
    BY <1>0, <1>1, <1>a DEF PanelInv
  <2> QED BY <1>1, <2>1, <2>2, <2>3, <2>4 DEF PanelInv
<1>2. ASSUME UNCHANGED <<panel, steady>>, Requested' \subseteq Requested
      PROVE  PanelInv'
  <2>1. Kept /\ Unasked' = Unasked
    BY <1>2 DEF panel, Unasked
  <2> QED BY <1>1, <1>2, <2>1
<1>3. ASSUME UNCHANGED <<panel, steady, requests>>
      PROVE  PanelInv'
  BY <1>2, <1>3 DEF Requested
<1>4. ASSUME NEW s \in Spellings, NEW pr \in Projects, Request(pr, s)
      PROVE  PanelInv'
  <2>1. /\ Kept
        /\ Unasked' \subseteq Unasked
        /\ pc \in {"rows", "requests"} => Normalized[s] \notin Unasked'
    <3>1. steady \in [asked : SUBSET Packages, unasked : SUBSET Packages,
                      from : 0..Len(log), late : SUBSET Packages]
      BY DEF AuditInv, AuditTypeOK
    <3> QED BY <1>4, <3>1 DEF Request, Asks, panel, Unasked
  <2>2. Requested' \subseteq Requested \cup {Normalized[s]}
    <3>1. requests' = [requests EXCEPT ![<<pr, s>>] = "pending"] /\ <<pr, s>>[2] = s
      BY <1>4 DEF Request
    <3>2. \A r \in Projects \X Spellings : r # <<pr, s>> => requests'[r] = requests[r]
      BY <1>0, <3>1
    <3> QED BY <3>1, <3>2 DEF Requested
  <2> QED BY <1>1, <2>1, <2>2
<1>5. ASSUME NEW p \in Packages, Mark(p)
      PROVE  PanelInv'
  <2>1. \A r \in Projects \X Spellings : requests'[r] # "none" => requests[r] # "none"
    BY <1>5 DEF Mark
  <2> QED BY <1>2, <1>5, <2>1 DEF Mark, Requested
<1>6. ASSUME ReadExplicit
      PROVE  PanelInv'
  <2>1. /\ pc' = "rows"
        /\ explicit' = Pending
        /\ steady'.asked = asked
        /\ steady'.unasked = Packages \ Requested
        /\ Requested' = Requested
    BY <1>6 DEF ReadExplicit, store, Requested
  <2>2. asked \subseteq Pending
    BY DEF AuditInv, WaitingInv
  <2>3. Pending \subseteq Requested
    BY DEF Pending, Requested
  <2> QED BY <2>1, <2>2, <2>3 DEF PanelInv, Unasked
<1>7. ASSUME ReadRows
      PROVE  PanelInv'
  <2>1. /\ pc = "rows" /\ pc' = "requests"
        /\ grouped' = Grouped
        /\ explicit' = explicit /\ steady' = steady
        /\ Requested' = Requested
    BY <1>7 DEF ReadRows, store, Requested
  <2>2. \A p : EvaluatedBefore(p) => HasRow(p)
    BY DEF EvaluatedBefore, HasRow
  <2>3. \A p \in Packages : EvaluatedBefore(p) => Grouped[p].evaluations # 0
    BY <2>2, GroupedRows DEF AuditInv, AuditTypeOK
  <2>4. \A p \in Packages : EvaluatedBefore(p)' => grouped'[p].evaluations # 0
    BY <1>a, <2>1, <2>3
  <2> QED BY <1>0, <2>1, <2>4 DEF PanelInv, Unasked
<1>8. ASSUME ReadRequests
      PROVE  PanelInv'
  <2>1. /\ pc = "requests" /\ pc' = "filter"
        /\ implicit' = [p \in Packages |-> IF p \in Requested THEN "" ELSE Reason(grouped[p])]
        /\ explicit' = explicit /\ steady' = steady
    BY <1>8 DEF ReadRequests
  <2>2. \A p \in Unasked : p \in Packages /\ p \notin Requested
    BY <1>0, <2>1 DEF PanelInv, Unasked
  <2>3. \A p \in Packages : grouped[p].evaluations \in Nat
    <3> DEFINE T == 0..MaxRows
    <3>1. grouped \in [Packages -> [evaluations : T, denials : T, provisional : T]]
      BY DEF AuditInv, AuditTypeOK
    <3>2. T \subseteq Nat
      BY AuditAssumption DEF AuditAssumption
    <3> HIDE DEF T
    <3> QED BY <3>1, <3>2
  <2>4. \A p \in Unasked : grouped[p].evaluations # 0 => implicit'[p] # ""
    BY <2>1, <2>2, <2>3, ReasonFacts
  <2>5. \A p \in Unasked : EvaluatedBefore(p) => grouped[p].evaluations # 0
    BY <1>0, <2>1, <2>2 DEF PanelInv
  <2>6. \A p \in Unasked' : EvaluatedBefore(p)' => implicit'[p] # ""
    BY <1>a, <2>1, <2>4, <2>5 DEF Unasked
  <2> QED BY <1>0, <2>1, <2>6 DEF PanelInv
<1>9. ASSUME Answer
      PROVE  PanelInv'
  BY <1>9 DEF Answer, PanelInv
<1>10. Next => \/ UNCHANGED <<panel, steady, requests>>
               \/ \E s \in Spellings, pr \in Projects : Request(pr, s)
               \/ \E p \in Packages : Mark(p)
               \/ ReadExplicit \/ ReadRows \/ ReadRequests \/ Answer
  BY DEF Next, Store, Panel, Evaluate, Alert, Expire, Swap, store
<1>11. UNCHANGED auditVars => UNCHANGED <<panel, steady, requests>>
  BY DEF auditVars, store
<1> QED BY <1>3, <1>4, <1>5, <1>6, <1>7, <1>8, <1>9, <1>10, <1>11

LEMMA AuditStep ==
  ASSUME AuditInv, [Next]_auditVars
  PROVE  AuditInv'
BY AuditTypeStep, RowsStep, WaitingStep, PanelStep DEF AuditInv

\* Reports only read.
LEMMA ReportsOnlyRead ==
  ASSUME [ReportsNext]_allVars
  PROVE  [Next]_auditVars
BY DEF ReportsNext, allVars, Beside, Next, Reading, BeginSecurity, BeginLegal, BeginSummary, Begin, At,
       ReadTotal, ReadRecent, ReadHot, ReadAlerts, ReadTopProjects, ReadSummaryRows,
       ReadSummaryRequests, EndReport

\* Each denial given is recorded by one row, and what the panel has read so far
\* leaves out nobody who waits.
THEOREM AuditInvariant == ReportsSpec => []AuditInv
<1>1. ReportsInit => AuditInv
  BY AuditInit DEF ReportsInit
<1>2. AuditInv /\ [ReportsNext]_allVars => AuditInv'
  BY AuditStep, ReportsOnlyRead
<1> QED BY <1>1, <1>2, PTL DEF ReportsSpec

\* GET /registry/pending (api/v1/registry.py, audit.py) shows every package that
\* waits while it is read and is not registered when it answers: one asked for and
\* not registered since is among the explicit ones, and one that was evaluated and
\* never asked for is among the implicit ones, although the requests, the rows, the
\* requests again and the registry are read at four different moments.  A package
\* first asked for between the two queries of the requests is in neither list.
THEOREM PanelIsComplete == ReportsSpec => PanelMissesNobody
<1>1. AuditInv /\ [ReportsNext]_allVars =>
        [pc = "filter" /\ pc' = "idle" =>
           /\ steady.asked \cap Unregistered \subseteq Shown.explicit
           /\ \A p \in Unregistered \cap (steady.unasked \ steady.late) :
                EvaluatedBefore(p) => Shown.implicit[p] # ""]_auditVars
  <2> SUFFICES ASSUME AuditInv, pc = "filter"
               PROVE  /\ steady.asked \cap Unregistered \subseteq Shown.explicit
                      /\ \A p \in Unregistered \cap (steady.unasked \ steady.late) :
                           EvaluatedBefore(p) => Shown.implicit[p] # ""
    OBVIOUS
  <2>1. /\ steady.asked \subseteq explicit
        /\ steady.unasked \cap explicit = {}
        /\ \A p \in Unasked : EvaluatedBefore(p) => implicit[p] # ""
    BY DEF AuditInv, PanelInv
  <2>2. Unregistered \subseteq Packages
    BY DEF Unregistered
  <2> QED BY <2>1, <2>2 DEF Shown, Unasked
<1> QED BY AuditInvariant, <1>1, PTL DEF ReportsSpec, PanelMissesNobody

-----------------------------------------------------------------------------
(* What the queries count.                                                 *)

LEMMA LogFacts ==
  ASSUME AuditInv
  PROVE  /\ Len(log) \in Nat /\ Len(log) \in 0..Len(log) /\ Len(log) <= MaxRows /\ MaxRows \in Nat
         /\ 1..Len(log) \subseteq 1..MaxRows
         /\ \A i \in 1..Len(log) : log[i] \in Row
<1>1. log \in Seq(Row) /\ Len(log) <= MaxRows
  BY DEF AuditInv, AuditTypeOK, RowsInv
<1>2. Len(log) \in Nat /\ \A i \in 1..Len(log) : log[i] \in Row
  BY <1>1
<1>3. MaxRows \in Nat
  BY AuditAssumption DEF AuditAssumption
<1>4. Len(log) \in 0..Len(log) /\ 1..Len(log) \subseteq 1..MaxRows
  BY <1>1, <1>2, <1>3
<1> QED BY <1>1, <1>2, <1>3, <1>4

LEMMA RowsAreCounted ==
  ASSUME AuditInv, NEW R \in SUBSET (1..Len(log))
  PROVE  IsFiniteSet(R) /\ Cardinality(R) \in 0..MaxRows
<1>1. Len(log) \in Nat /\ MaxRows \in Nat /\ Len(log) <= MaxRows
  BY LogFacts
<1>2. IsFiniteSet(R) /\ Cardinality(R) \in 0..Len(log)
  BY <1>1, RowsAreFinite
<1> QED BY <1>1, <1>2

\* As many denials were given as there are rows of them.
LEMMA DenialsAreRows ==
  ASSUME AuditInv, NEW R \in SUBSET (1..Len(log)), NEW D,
         D = {Denial(i, log[i].category, log[i].project) : i \in R}
  PROVE  IsFiniteSet(D) /\ Cardinality(D) = Cardinality(R)
<1> DEFINE f == [i \in R |-> Denial(i, log[i].category, log[i].project)]
<1>1. f \in [R -> D]
  OBVIOUS
<1>2. \A i \in R : f[i].at = i
  BY DEF Denial
<1>3. \A t \in D : \E i \in R : f[i] = t
  OBVIOUS
<1>4. IsFiniteSet(R)
  BY RowsAreCounted
<1> HIDE DEF f
<1>5. \A i, j \in R : f[i] = f[j] => i = j
  BY <1>2, Zenon
<1> QED BY <1>1, <1>3, <1>4, <1>5, SameCardinality

LEMMA GivenFacts ==
  ASSUME AuditInv, NEW kind \in Categories, NEW scope
  PROVE  /\ Given(denied, kind, scope) = Cardinality(Denials(kind, scope))
         /\ IsFiniteSet({d \in denied : d.category = kind /\ d.project \in scope})
<1> DEFINE R == Denials(kind, scope)
           D == {d \in denied : d.category = kind /\ d.project \in scope}
<1>1. R \in SUBSET (1..Len(log)) /\ R = {i \in DenialRows : log[i].category = kind /\ log[i].project \in scope}
  BY DEF Denials, DenialRows
<1>2. denied = {Denial(i, log[i].category, log[i].project) : i \in DenialRows}
  BY DEF AuditInv, RowsInv
<1>3. D = {Denial(i, log[i].category, log[i].project) : i \in R}
  BY <1>1, <1>2 DEF Denial
<1> HIDE DEF R, D
<1>4. IsFiniteSet(D) /\ Cardinality(D) = Cardinality(R)
  BY <1>1, <1>3, DenialsAreRows
<1> QED BY <1>4 DEF Given, R, D

\* What the callers of a project were told.
Told(denials, pr) == Cardinality({d \in denials : d.project = pr})

LEMMA ToldFacts ==
  ASSUME AuditInv, NEW pr
  PROVE  /\ Told(denied, pr) = Cardinality(DenialsOf(pr))
         /\ IsFiniteSet({d \in denied : d.project = pr})
<1> DEFINE R == DenialsOf(pr)
           D == {d \in denied : d.project = pr}
<1>1. R \in SUBSET (1..Len(log)) /\ R = {i \in DenialRows : log[i].project = pr}
  <2>1. \A i \in 1..Len(log) : log[i].verdict = "DENIED" <=> log[i].category \in Categories
    BY DEF AuditInv, RowsInv
  <2> QED BY <2>1 DEF DenialsOf, RowsOf, DenialRows
<1>2. denied = {Denial(i, log[i].category, log[i].project) : i \in DenialRows}
  BY DEF AuditInv, RowsInv
<1>3. D = {Denial(i, log[i].category, log[i].project) : i \in R}
  BY <1>1, <1>2 DEF Denial
<1> HIDE DEF R, D
<1>4. IsFiniteSet(D) /\ Cardinality(D) = Cardinality(R)
  BY <1>1, <1>3, DenialsAreRows
<1> QED BY <1>4 DEF Told, R, D

LEMMA MoreAreGiven ==
  ASSUME NEW S, NEW T, S \subseteq T, IsFiniteSet(T)
  PROVE  /\ Cardinality(S) \in Nat /\ Cardinality(T) \in Nat
         /\ Cardinality(S) <= Cardinality(T)
         /\ Cardinality(T) \in Cardinality(S)..Cardinality(T)
<1>1. IsFiniteSet(S) /\ Cardinality(S) <= Cardinality(T)
  BY FS_Subset
<1>2. Cardinality(S) \in Nat /\ Cardinality(T) \in Nat
  BY <1>1, FS_CardinalityType
<1> QED BY <1>1, <1>2

LEMMA StillBetween ==
  ASSUME NEW S, NEW T, NEW U, S \subseteq T, T \subseteq U, IsFiniteSet(U),
         NEW n \in Cardinality(S)..Cardinality(T)
  PROVE  n \in Cardinality(S)..Cardinality(U)
<1>1. IsFiniteSet(T)
  BY FS_Subset
<1>2. /\ Cardinality(S) \in Nat /\ Cardinality(T) \in Nat /\ Cardinality(U) \in Nat
      /\ Cardinality(T) <= Cardinality(U)
  BY <1>1, MoreAreGiven
<1> QED BY <1>2

-----------------------------------------------------------------------------
(* The report being read.                                                  *)

Of(denials, kind, scope) == {d \in denials : d.category = kind /\ d.project \in scope}
OfProject(denials, pr) == {d \in denials : d.project = pr}

Between(n, S, T) == n \in Cardinality(S)..Cardinality(T)

\* The rows there were when the report began.
Before(rows) == {i \in rows : i <= report.from}

HotIsFound ==
    \A i \in Before(Denials(report.kind, report.scope)) \cap Window :
      report.rules[Normalized[log[i].package]] = "approved"
        => Normalized[log[i].package] \in report.hot

\* What the legal report says of a project.
NamedOrHidden(top, pr, now) ==
    \/ Between(top[pr], Of(report.given, "license", {pr}), Of(now, "license", {pr}))
    \/ OnlyMoreDeniedHide(Cardinality(Of(report.given, "license", {pr})), top)

KindInv ==
    /\ report.step = "none" => report.kind = "none"
    /\ report.step \in {"total", "recent"} => report.kind \in {"cve", "license"}
    /\ report.step \in {"hot", "alerts"} => report.kind = "cve"
    /\ report.step = "projects" => report.kind = "license"
    /\ report.step \in {"rows", "requests"} => report.kind = "summary"

DenialInv ==
    report.kind \in {"cve", "license"} =>
      /\ report.step # "total" =>
           Between(report.total, Of(report.given, report.kind, report.scope),
                                 Of(denied, report.kind, report.scope))
      /\ report.step \notin {"total", "recent"} =>
           OnlyLaterHide(Before(Denials(report.kind, report.scope)), report.recent)
      /\ report.kind = "cve" /\ report.step \in {"alerts", "done"} => HotIsFound
      /\ report.kind = "cve" /\ report.step = "done" =>
           OnlyLaterHide(Before(Alerts(report.scope)), report.alerts)
      /\ report.kind = "license" /\ report.step = "done" =>
           \A pr \in report.scope :
             NamedOrHidden(report.top, pr, denied)

SummaryInv ==
    report.kind = "summary" =>
      /\ report.step = "rows" => report.known \subseteq Known
      /\ report.step = "requests" =>
           report.known \subseteq report.seen \cup {pr \in AllProjects : RequestsOf(pr) # {}}
      /\ report.step = "done" => report.known \subseteq report.seen
      /\ report.step # "rows" =>
           \A pr \in AllProjects :
             Between(report.denials[pr], OfProject(report.given, pr), OfProject(denied, pr))

ReportTypes ==
    report \in [step : DenialSteps \cup {"none", "rows", "requests"},
                kind : {"cve", "license", "summary", "none"},
                scope : Scopes \cup {{}}, rules : [Packages -> Statuses],
                total : 0..MaxRows, recent : SUBSET (1..MaxRows),
                hot : SUBSET Packages, alerts : SUBSET (1..MaxRows),
                top : [AllProjects -> 0..MaxRows],
                seen : SUBSET AllProjects, denials : [AllProjects -> 0..MaxRows],
                given : SUBSET denied, from : 0..Len(log), known : SUBSET AllProjects]

ReportInv ==
    /\ AuditInv
    /\ ReportTypes
    /\ KindInv
    /\ DenialInv
    /\ SummaryInv

LEMMA NoReportFacts ==
  /\ NoReport.step = "none" /\ NoReport.kind = "none" /\ NoReport.scope = {}
  /\ NoReport.rules \in [Packages -> Statuses]
  /\ AuditInv => NoReport \in [step : DenialSteps \cup {"none", "rows", "requests"},
                kind : {"cve", "license", "summary", "none"},
                scope : Scopes \cup {{}}, rules : [Packages -> Statuses],
                total : 0..MaxRows, recent : SUBSET (1..MaxRows),
                hot : SUBSET Packages, alerts : SUBSET (1..MaxRows),
                top : [AllProjects -> 0..MaxRows],
                seen : SUBSET AllProjects, denials : [AllProjects -> 0..MaxRows],
                given : SUBSET denied, from : 0..Len(log), known : SUBSET AllProjects]
<1>1. 0 \in 0..MaxRows
  BY AuditAssumption DEF AuditAssumption
<1>2. AuditInv => 0 \in 0..Len(log)
  <2>1. AuditInv => Len(log) \in Nat
    BY LogFacts
  <2> QED BY <2>1
<1>3. NoCounts \in [AllProjects -> 0..MaxRows]
  BY <1>1 DEF NoCounts
<1>4. NoReport.rules \in [Packages -> Statuses]
  BY DEF NoReport, Statuses
<1> QED BY <1>1, <1>2, <1>3, <1>4 DEF NoReport

LEMMA ReportInit ==
  ASSUME ReportsInit
  PROVE  ReportInv
<1>1. AuditInv /\ report = NoReport
  BY AuditInit DEF ReportsInit
<1>2. ReportTypes
  BY <1>1, NoReportFacts DEF ReportTypes
<1>3. report.step = "none" /\ report.kind = "none"
  BY <1>1, NoReportFacts
<1>4. KindInv /\ DenialInv /\ SummaryInv
  BY <1>3 DEF KindInv, DenialInv, SummaryInv
<1> QED BY <1>1, <1>2, <1>4 DEF ReportInv

\* Rows, requests and reloads between two queries.
LEMMA BesideStep ==
  ASSUME ReportInv, AuditInv', Grows, report' = report
  PROVE  ReportInv'
<1>0. AuditInv /\ ReportTypes /\ KindInv /\ DenialInv /\ SummaryInv /\ denied \subseteq denied'
  BY DEF ReportInv, Grows
<1>1. /\ Len(log) \in Nat /\ Len(log') \in Nat /\ Len(log) <= Len(log')
      /\ 0..Len(log) \subseteq 0..Len(log') /\ 1..Len(log) \subseteq 1..Len(log')
  <2>1. Len(log) \in Nat
    BY <1>0, LogFacts
  <2>2. Len(log') \in Nat
    <3>1. log' \in Seq(Row)
      BY DEF AuditInv, AuditTypeOK
    <3> QED BY <3>1
  <2>3. Len(log) <= Len(log')
    BY DEF Grows
  <2> QED BY <2>1, <2>2, <2>3
<1>2. ReportTypes'
  BY <1>0, <1>1 DEF ReportTypes
<1>3. KindInv'
  BY <1>0 DEF KindInv
\* The rows there were are the same, ...
<1>4. report.from \in Int /\ report.from <= Len(log)
  <2>1. report.from \in 0..Len(log)
    BY <1>0 DEF ReportTypes
  <2> QED BY <1>1, <2>1
<1>5. \A i \in Int : i <= report.from => i <= Len(log)
  BY <1>1, <1>4
<1>6. ASSUME NEW i \in Int, i <= report.from
      PROVE  (i \in 1..Len(log) <=> i \in 1..Len(log')) /\ (i \in 1..Len(log) => log'[i] = log[i])
  BY <1>1, <1>5, <1>6 DEF Grows
<1>7. ASSUME NEW kind, NEW scope
      PROVE  /\ Before(Denials(kind, scope))' = Before(Denials(kind, scope))
             /\ Before(Alerts(scope))' = Before(Alerts(scope))
  BY <1>0, <1>6 DEF Before, Denials, Alerts
<1>8. /\ Window' \cap 1..Len(log) \subseteq Window
      /\ \A kind, scope : Before(Denials(kind, scope)) \subseteq 1..Len(log)
  <2>1. expired \in Int /\ expired' \in Int /\ expired <= expired'
    <3>1. expired \in 0..Len(log) /\ expired' \in 0..Len(log')
      BY <1>0 DEF AuditInv, AuditTypeOK
    <3>2. expired <= expired'
      BY DEF Grows
    <3> QED BY <1>1, <3>1, <3>2
  <2>2. \A i \in 1..Len(log) : i > expired' => i > expired
    BY <2>1
  <2>3. Window' \cap 1..Len(log) \subseteq Window
    BY <2>2 DEF Window
  <2> QED BY <2>3 DEF Before, Denials
\* ... those that were hot are, ...
<1>9. HotIsFound => HotIsFound'
  <2> SUFFICES ASSUME HotIsFound,
                        NEW i \in Before(Denials(report.kind, report.scope))' \cap Window',
                        report.rules[Normalized[log'[i].package]] = "approved"
                 PROVE  Normalized[log'[i].package] \in report.hot
    BY DEF HotIsFound
  <2>2. i \in Before(Denials(report.kind, report.scope))
    BY <1>7
  <2>3. i \in 1..Len(log) /\ i \in Window
    BY <1>8, <2>2
  <2>4. log'[i] = log[i]
    BY <2>3 DEF Grows
  <2> QED BY <2>2, <2>3, <2>4 DEF HotIsFound
\* ... and only more denials were given.
<1>10. ASSUME NEW kind \in Categories, NEW scope, NEW n,
              Between(n, Of(report.given, kind, scope), Of(denied, kind, scope))
       PROVE  Between(n, Of(report.given, kind, scope), Of(denied', kind, scope))
  <2>1. report.given \subseteq denied
    BY <1>0 DEF ReportTypes
  <2>2. /\ Of(report.given, kind, scope) \subseteq Of(denied, kind, scope)
        /\ Of(denied, kind, scope) \subseteq Of(denied', kind, scope)
    BY <1>0, <2>1 DEF Of
  <2>3. IsFiniteSet(Of(denied', kind, scope))
    <3>1. IsFiniteSet(denied') /\ Of(denied', kind, scope) \subseteq denied'
      BY DEF AuditInv, RowsInv, Of
    <3> QED BY <3>1, FS_Subset
  <2> QED BY <1>10, <2>2, <2>3, StillBetween DEF Between
<1>11. ASSUME NEW pr, NEW n,
              Between(n, OfProject(report.given, pr), OfProject(denied, pr))
       PROVE  Between(n, OfProject(report.given, pr), OfProject(denied', pr))
  <2>1. report.given \subseteq denied
    BY <1>0 DEF ReportTypes
  <2>2. /\ OfProject(report.given, pr) \subseteq OfProject(denied, pr)
        /\ OfProject(denied, pr) \subseteq OfProject(denied', pr)
    BY <1>0, <2>1 DEF OfProject
  <2>3. IsFiniteSet(OfProject(denied', pr))
    <3>1. IsFiniteSet(denied') /\ OfProject(denied', pr) \subseteq denied'
      BY DEF AuditInv, RowsInv, OfProject
    <3> QED BY <3>1, FS_Subset
  <2> QED BY <1>11, <2>2, <2>3, StillBetween DEF Between
<1>12. DenialInv'
  <2> SUFFICES ASSUME report.kind \in {"cve", "license"}
               PROVE  DenialInv'
    BY DEF DenialInv
  <2>0. report.kind \in Categories /\ "license" \in Categories
    BY DEF Categories
  <2>1. report.step # "total" =>
          Between(report.total, Of(report.given, report.kind, report.scope),
                                Of(denied', report.kind, report.scope))
    BY <1>0, <1>10, <2>0 DEF DenialInv
  <2>2. report.step \notin {"total", "recent"} =>
          OnlyLaterHide(Before(Denials(report.kind, report.scope))', report.recent)
    BY <1>0, <1>7 DEF DenialInv
  <2>3. report.kind = "cve" /\ report.step \in {"alerts", "done"} => HotIsFound'
    BY <1>0, <1>9 DEF DenialInv
  <2>4. report.kind = "cve" /\ report.step = "done" =>
          OnlyLaterHide(Before(Alerts(report.scope))', report.alerts)
    BY <1>0, <1>7 DEF DenialInv
  <2>5. report.kind = "license" /\ report.step = "done" =>
          \A pr \in report.scope : NamedOrHidden(report.top, pr, denied')
    BY <1>0, <1>10, <2>0 DEF DenialInv, NamedOrHidden
  <2> QED BY <2>1, <2>2, <2>3, <2>4, <2>5 DEF DenialInv, NamedOrHidden
<1>13. SummaryInv'
  <2>1. Known \subseteq Known' /\ \A pr : RequestsOf(pr) # {} => RequestsOf(pr)' # {}
    <3>1. \A pr : RowsOf(pr) # {} => RowsOf(pr)' # {}
      BY <1>1 DEF RowsOf, Grows
    <3>2. \A pr : RequestsOf(pr) # {} => RequestsOf(pr)' # {}
      BY DEF RequestsOf, Grows
    <3> QED BY <3>1, <3>2 DEF Known
  <2>2. report.kind = "summary" /\ report.step # "rows" =>
          \A pr \in AllProjects :
            Between(report.denials[pr], OfProject(report.given, pr), OfProject(denied', pr))
    BY <1>0, <1>11 DEF SummaryInv
  <2>3. report.kind = "summary" /\ report.step = "rows" => report.known \subseteq Known'
    BY <1>0, <2>1 DEF SummaryInv
  <2>4. report.kind = "summary" /\ report.step = "requests" =>
          report.known \subseteq report.seen \cup {pr \in AllProjects : RequestsOf(pr)' # {}}
    BY <1>0, <2>1 DEF SummaryInv
  <2>5. report.kind = "summary" /\ report.step = "done" => report.known \subseteq report.seen
    BY <1>0 DEF SummaryInv
  <2> QED BY <2>2, <2>3, <2>4, <2>5 DEF SummaryInv
<1> QED BY <1>2, <1>3, <1>12, <1>13 DEF ReportInv

\* A query leaves everything as it is but what it returns.
LEMMA QueryFacts ==
  ASSUME ReportInv, UNCHANGED auditVars
  PROVE  /\ AuditInv'
         /\ denied' = denied /\ log' = log
         /\ \A kind, scope : Denials(kind, scope)' = Denials(kind, scope)
         /\ \A scope : Alerts(scope)' = Alerts(scope)
         /\ Window' = Window /\ Known' = Known
         /\ \A pr : RequestsOf(pr)' = RequestsOf(pr)
<1>1. AuditInv'
  BY AuditStep DEF ReportInv
<1>2. denied' = denied /\ log' = log /\ expired' = expired /\ requests' = requests
  BY DEF auditVars, store
<1> QED BY <1>1, <1>2 DEF Denials, Alerts, Window, Known, RowsOf, RequestsOf

LEMMA BeginStep ==
  ASSUME ReportInv, NEW step, NEW kind, NEW scope \in Scopes \cup {{}},
         NEW rules \in [Packages -> Statuses], NEW known \in SUBSET Known,
         \/ step = "total" /\ kind \in {"cve", "license"}
         \/ step = "rows" /\ kind = "summary",
         Begin(step, kind, scope, rules, known)
  PROVE  ReportInv'
<1>0. UNCHANGED auditVars
  BY DEF Begin
<1>1. AuditInv' /\ denied' = denied /\ log' = log /\ Known' = Known
  BY <1>0, QueryFacts
<1>2. /\ report'.step = step /\ report'.kind = kind /\ report'.scope = scope
      /\ report'.known = known
  BY DEF Begin, NoReport
<1>3. ReportTypes'
  <2>1. Len(log) \in 0..Len(log) /\ Known \subseteq AllProjects
    BY LogFacts DEF ReportInv, Known
  <2>2. step \in DenialSteps \cup {"none", "rows", "requests"}
        /\ kind \in {"cve", "license", "summary", "none"}
    BY DEF DenialSteps
  <2> HIDE DEF NoReport
  <2> QED BY <1>1, <2>1, <2>2, NoReportFacts DEF Begin, ReportTypes, ReportInv
<1>4. KindInv'
  BY <1>2 DEF KindInv
<1>5. DenialInv'
  BY <1>2 DEF DenialInv
<1>6. SummaryInv'
  BY <1>1, <1>2 DEF SummaryInv
<1> QED BY <1>1, <1>3, <1>4, <1>5, <1>6 DEF ReportInv

LEMMA TotalStep ==
  ASSUME ReportInv, ReadTotal
  PROVE  ReportInv'
<1>0. UNCHANGED auditVars /\ report.step = "total" /\ report.kind \in {"cve", "license"}
  BY DEF ReadTotal, At, ReportInv, KindInv
<1>1. AuditInv' /\ denied' = denied /\ log' = log
  BY <1>0, QueryFacts
<1> DEFINE total == Cardinality(Denials(report.kind, report.scope))
<1>2. total \in 0..MaxRows
  BY RowsAreCounted DEF ReportInv, Denials
<1>3. report' = [report EXCEPT !.step = "recent", !.total = total]
  BY DEF ReadTotal
<1> HIDE DEF total
<1>4. ReportTypes'
  BY <1>1, <1>2, <1>3 DEF ReportInv, ReportTypes, DenialSteps
<1>5. /\ report'.step = "recent" /\ report'.kind = report.kind /\ report'.scope = report.scope
      /\ report'.total = total /\ report'.given = report.given
  BY <1>3 DEF ReportInv, ReportTypes
<1>6. Between(total, Of(report.given, report.kind, report.scope), Of(denied, report.kind, report.scope))
  <2>1. report.kind \in Categories /\ report.given \subseteq denied
    BY <1>0 DEF Categories, ReportInv, ReportTypes
  <2>2. /\ total = Cardinality(Of(denied, report.kind, report.scope))
        /\ IsFiniteSet(Of(denied, report.kind, report.scope))
    BY <2>1, GivenFacts DEF ReportInv, Given, Of, total
  <2>3. Of(report.given, report.kind, report.scope) \subseteq Of(denied, report.kind, report.scope)
    BY <2>1 DEF Of
  <2> QED BY <2>2, <2>3, MoreAreGiven DEF Between
<1>7. KindInv'
  BY <1>0, <1>5 DEF KindInv
<1>8. DenialInv'
  BY <1>1, <1>5, <1>6 DEF DenialInv
<1>9. SummaryInv'
  BY <1>0, <1>5 DEF SummaryInv
<1> QED BY <1>1, <1>4, <1>7, <1>8, <1>9 DEF ReportInv

\* The latest rows hide an earlier one only behind Limit later ones.
LEMMA LatestOfEarlier ==
  ASSUME ReportInv, NEW R \in SUBSET (1..Len(log))
  PROVE  /\ Latest(R) \subseteq 1..MaxRows
         /\ OnlyLaterHide(Before(R), Latest(R))
<1>1. Len(log) \in Nat /\ 1..Len(log) \subseteq 1..MaxRows
  BY LogFacts DEF ReportInv
<1>2. Latest(R) \subseteq R
  BY DEF Latest
<1>3. \A i \in R \ Latest(R) : Cardinality({j \in Latest(R) : j > i}) = Limit
  BY <1>1, LatestFacts
<1>4. Before(R) \subseteq R
  BY DEF Before
<1> QED BY <1>1, <1>2, <1>3, <1>4 DEF OnlyLaterHide

LEMMA RecentStep ==
  ASSUME ReportInv, ReadRecent
  PROVE  ReportInv'
<1>0. UNCHANGED auditVars /\ report.step = "recent" /\ report.kind \in {"cve", "license"}
  BY DEF ReadRecent, At, ReportInv, KindInv
<1>1. AuditInv' /\ denied' = denied /\ log' = log
      /\ \A kind, scope : Denials(kind, scope)' = Denials(kind, scope)
  BY <1>0, QueryFacts
<1> DEFINE rows == Denials(report.kind, report.scope)
           step == IF report.kind = "cve" THEN "hot" ELSE "projects"
<1>2. Latest(rows) \subseteq 1..MaxRows /\ OnlyLaterHide(Before(rows), Latest(rows))
  BY LatestOfEarlier DEF Denials
<1>3. report' = [report EXCEPT !.step = step, !.recent = Latest(rows)]
  BY DEF ReadRecent
<1> HIDE DEF rows
<1>4. ReportTypes'
  BY <1>1, <1>2, <1>3 DEF ReportInv, ReportTypes, DenialSteps
<1>5. /\ report'.step = step /\ report'.kind = report.kind /\ report'.scope = report.scope
      /\ report'.total = report.total /\ report'.given = report.given
      /\ report'.from = report.from /\ report'.recent = Latest(rows)
  BY <1>3 DEF ReportInv, ReportTypes
<1>7. KindInv'
  BY <1>0, <1>5 DEF KindInv
<1>8. DenialInv'
  BY <1>0, <1>1, <1>2, <1>5 DEF DenialInv, ReportInv, Before, rows
<1>9. SummaryInv'
  BY <1>0, <1>5 DEF SummaryInv
<1> QED BY <1>1, <1>4, <1>7, <1>8, <1>9 DEF ReportInv

LEMMA HotStep ==
  ASSUME ReportInv, ReadHot
  PROVE  ReportInv'
<1>0. UNCHANGED auditVars /\ report.step = "hot" /\ report.kind = "cve"
  BY DEF ReadHot, At, ReportInv, KindInv
<1>1. AuditInv' /\ denied' = denied /\ log' = log /\ Window' = Window
      /\ \A kind, scope : Denials(kind, scope)' = Denials(kind, scope)
  BY <1>0, QueryFacts
<1> DEFINE hot == Hot(report.rules, Denials("cve", report.scope))
<1>2. hot \subseteq Packages
  BY DEF Hot
<1>3. ASSUME NEW i \in Denials("cve", report.scope) \cap Window,
             report.rules[Normalized[log[i].package]] = "approved"
      PROVE  Normalized[log[i].package] \in hot
  <2>1. i \in 1..Len(log) /\ log[i].category = "cve"
    BY DEF Denials
  <2>2. log[i].verdict = "DENIED"
    BY <2>1 DEF ReportInv, AuditInv, RowsInv, Categories
  <2>3. log[i] \in Row
    BY <2>1, LogFacts DEF ReportInv
  <2>4. Normalized[log[i].package] \in Packages
    BY <2>3, AuditAssumption DEF AuditAssumption, Row
  <2> QED BY <1>3, <2>2, <2>4 DEF Hot
<1>4. report' = [report EXCEPT !.step = "alerts", !.hot = hot]
  BY DEF ReadHot
<1> HIDE DEF hot
<1>5. ReportTypes'
  BY <1>1, <1>2, <1>4 DEF ReportInv, ReportTypes, DenialSteps
<1>6. /\ report'.step = "alerts" /\ report'.kind = report.kind /\ report'.scope = report.scope
      /\ report'.total = report.total /\ report'.given = report.given
      /\ report'.from = report.from /\ report'.recent = report.recent
      /\ report'.rules = report.rules /\ report'.hot = hot
  BY <1>4 DEF ReportInv, ReportTypes
<1>7. HotIsFound'
  <2>1. Before(Denials(report.kind, report.scope))' \subseteq Denials("cve", report.scope)
    BY <1>0, <1>1, <1>6 DEF Before
  <2> QED BY <1>1, <1>3, <1>6, <2>1 DEF HotIsFound
<1>8. KindInv'
  BY <1>0, <1>6 DEF KindInv
<1>9. DenialInv'
  BY <1>0, <1>1, <1>6, <1>7 DEF DenialInv, ReportInv, Before
<1>10. SummaryInv'
  BY <1>0, <1>6 DEF SummaryInv
<1> QED BY <1>1, <1>5, <1>8, <1>9, <1>10 DEF ReportInv

LEMMA AlertsStep ==
  ASSUME ReportInv, ReadAlerts
  PROVE  ReportInv'
<1>0. UNCHANGED auditVars /\ report.step = "alerts" /\ report.kind = "cve"
  BY DEF ReadAlerts, At, ReportInv, KindInv
<1>1. /\ AuditInv' /\ denied' = denied /\ log' = log /\ Window' = Window
      /\ \A kind, scope : Denials(kind, scope)' = Denials(kind, scope)
      /\ \A scope : Alerts(scope)' = Alerts(scope)
  BY <1>0, QueryFacts
<1> DEFINE rows == Alerts(report.scope)
<1>2. Latest(rows) \subseteq 1..MaxRows /\ OnlyLaterHide(Before(rows), Latest(rows))
  BY LatestOfEarlier DEF Alerts
<1>3. report' = [report EXCEPT !.step = "done", !.alerts = Latest(rows)]
  BY DEF ReadAlerts
<1> HIDE DEF rows
<1>4. ReportTypes'
  BY <1>1, <1>2, <1>3 DEF ReportInv, ReportTypes, DenialSteps
<1>5. /\ report'.step = "done" /\ report'.kind = report.kind /\ report'.scope = report.scope
      /\ report'.total = report.total /\ report'.given = report.given
      /\ report'.from = report.from /\ report'.recent = report.recent
      /\ report'.rules = report.rules /\ report'.hot = report.hot
      /\ report'.alerts = Latest(rows)
  BY <1>3 DEF ReportInv, ReportTypes
<1>6. HotIsFound'
  <2>1. HotIsFound
    BY <1>0 DEF ReportInv, DenialInv
  <2> QED BY <1>1, <1>5, <2>1 DEF HotIsFound, Before
<1>7. KindInv'
  BY <1>0, <1>5 DEF KindInv
<1>8. DenialInv'
  BY <1>0, <1>1, <1>2, <1>5, <1>6 DEF DenialInv, ReportInv, Before, rows
<1>9. SummaryInv'
  BY <1>0, <1>5 DEF SummaryInv
<1> QED BY <1>1, <1>4, <1>7, <1>8, <1>9 DEF ReportInv

LEMMA TopProjectsStep ==
  ASSUME ReportInv, ReadTopProjects
  PROVE  ReportInv'
<1>0. UNCHANGED auditVars /\ report.step = "projects" /\ report.kind = "license"
      /\ "license" \in Categories
  BY DEF ReadTopProjects, At, ReportInv, KindInv, Categories
<1>1. AuditInv' /\ denied' = denied /\ log' = log
      /\ \A kind, scope : Denials(kind, scope)' = Denials(kind, scope)
  BY <1>0, QueryFacts
<1> DEFINE rows(pr) == Denials(report.kind, {pr} \cap report.scope) \cap DenialsOf(pr)
           tally == Tally(report.kind, report.scope)
           denying == {pr \in AllProjects : tally[pr] # 0}
<1>2. tally \in [AllProjects -> 0..MaxRows]
  <2>1. \A pr \in AllProjects : Cardinality(rows(pr)) \in 0..MaxRows
    BY RowsAreCounted DEF ReportInv, Denials
  <2>2. tally = [pr \in AllProjects |-> Cardinality(rows(pr))]
    BY DEF Tally
  <2> HIDE DEF rows, tally
  <2> QED BY <2>1, <2>2
<1>3. \A pr \in report.scope : pr \in AllProjects
  BY ReportsAssumption DEF ReportsAssumption, ReportInv, ReportTypes
<1>4. ASSUME NEW pr \in report.scope
      PROVE  /\ Between(tally[pr], Of(report.given, "license", {pr}), Of(denied, "license", {pr}))
             /\ Cardinality(Of(report.given, "license", {pr})) \in Nat
             /\ Cardinality(Of(report.given, "license", {pr})) <= tally[pr]
  <2>1. {pr} \cap report.scope = {pr}
    OBVIOUS
  <2>2. Denials("license", {pr}) \subseteq DenialsOf(pr)
    BY <1>0 DEF Denials, DenialsOf, RowsOf, ReportInv, AuditInv, RowsInv
  <2>3. rows(pr) = Denials("license", {pr})
    BY <1>0, <2>1, <2>2
  <2>4. tally[pr] = Cardinality(Denials("license", {pr}))
    BY <1>3, <2>3 DEF Tally
  <2>5. /\ tally[pr] = Cardinality(Of(denied, "license", {pr}))
        /\ IsFiniteSet(Of(denied, "license", {pr}))
    BY <1>0, <2>4, GivenFacts DEF ReportInv, Given, Of
  <2>6. Of(report.given, "license", {pr}) \subseteq Of(denied, "license", {pr})
    BY DEF ReportInv, ReportTypes, Of
  <2> HIDE DEF tally
  <2> QED BY <2>5, <2>6, MoreAreGiven DEF Between
<1>4a. PICK named \in SUBSET denying :
         /\ named # denying => Cardinality(named) = TopLimit
         /\ \A pr \in named, other \in denying \ named : tally[other] <= tally[pr]
         /\ report' = [report EXCEPT
                         !.step = "done",
                         !.top = [pr \in AllProjects |-> IF pr \in named THEN tally[pr] ELSE 0]]
  BY DEF ReadTopProjects
<1> DEFINE top == [pr \in AllProjects |-> IF pr \in named THEN tally[pr] ELSE 0]
<1>4b. top \in [AllProjects -> 0..MaxRows]
  <2> DEFINE T == 0..MaxRows
  <2>1. 0 \in T
    BY AuditAssumption DEF AuditAssumption
  <2>2. tally \in [AllProjects -> T]
    BY <1>2
  <2> HIDE DEF T, tally
  <2>3. top \in [AllProjects -> T]
    BY <2>1, <2>2
  <2> QED BY <2>3 DEF T
<1>4c. ASSUME NEW pr \in report.scope
       PROVE  NamedOrHidden(top, pr, denied)
  <2> DEFINE before == Cardinality(Of(report.given, "license", {pr}))
  <2>1. CASE pr \in named \/ pr \notin denying
    <3>1. top[pr] = tally[pr]
      <4> HIDE DEF tally
      <4> QED BY <1>3, <2>1
    <3> HIDE DEF top, tally
    <3> QED BY <1>4, <3>1 DEF NamedOrHidden
  <2>2. CASE pr \in denying \ named
    <3>1. before \in Nat /\ before <= tally[pr] /\ pr \in AllProjects
      BY <1>3, <1>4
    <3>2. Cardinality(named) = TopLimit
      BY <1>4a, <2>2
    <3>3. \A q \in AllProjects : tally[q] \in Int
      BY <1>2
    <3>4. \A q \in named : q \in AllProjects /\ tally[q] # 0 /\ tally[pr] <= tally[q]
      BY <1>4a, <2>2
    <3> HIDE DEF before, tally, denying
    <3>5. \A q \in named : top[q] # 0 /\ top[q] >= before /\ q \in AllProjects
      <4> TAKE q \in named
      <4>1. tally[q] \in Int /\ tally[pr] \in Int /\ tally[pr] <= tally[q] /\ before <= tally[pr]
            /\ before \in Int /\ tally[q] # 0
        BY <3>1, <3>3, <3>4
      <4>2. tally[q] >= before
        BY <4>1
      <4>3. top[q] = tally[q] /\ q \in AllProjects
        BY <3>4
      <4> HIDE DEF top
      <4> QED BY <4>1, <4>2, <4>3
    <3>6. \A q \in AllProjects : top[q] # 0 => q \in named
      OBVIOUS
    <3>7. {q \in AllProjects : top[q] # 0 /\ top[q] >= before} = named
      <4> HIDE DEF top
      <4> QED BY <3>5, <3>6
    <3> HIDE DEF top
    <3>8. OnlyMoreDeniedHide(before, top)
      BY <3>2, <3>7 DEF OnlyMoreDeniedHide
    <3> QED BY <3>8 DEF NamedOrHidden, before
  <2> QED BY <2>1, <2>2
<1>5. report' = [report EXCEPT !.step = "done", !.top = top]
  BY <1>4a
<1> HIDE DEF tally, denying
<1> HIDE DEF top
<1>6. ReportTypes'
  BY <1>1, <1>4b, <1>5 DEF ReportInv, ReportTypes, DenialSteps
<1>7. /\ report'.step = "done" /\ report'.kind = report.kind /\ report'.scope = report.scope
      /\ report'.total = report.total /\ report'.given = report.given
      /\ report'.from = report.from /\ report'.recent = report.recent /\ report'.top = top
  BY <1>5 DEF ReportInv, ReportTypes
<1>8. KindInv'
  BY <1>0, <1>7 DEF KindInv
<1>9. DenialInv'
  BY <1>0, <1>1, <1>4c, <1>7 DEF DenialInv, ReportInv, Before, NamedOrHidden
<1>10. SummaryInv'
  BY <1>0, <1>7 DEF SummaryInv
<1> QED BY <1>1, <1>6, <1>8, <1>9, <1>10 DEF ReportInv

LEMMA SummaryRowsStep ==
  ASSUME ReportInv, ReadSummaryRows
  PROVE  ReportInv'
<1>0. UNCHANGED auditVars /\ report.step = "rows" /\ report.kind = "summary"
  BY DEF ReadSummaryRows, At, ReportInv, KindInv
<1>1. AuditInv' /\ denied' = denied /\ log' = log /\ \A pr : RequestsOf(pr)' = RequestsOf(pr)
  BY <1>0, QueryFacts
<1> DEFINE seen == {pr \in AllProjects : RowsOf(pr) # {}}
           denials == [pr \in AllProjects |-> Cardinality(DenialsOf(pr))]
<1>2. denials \in [AllProjects -> 0..MaxRows]
  <2>1. \A pr \in AllProjects : Cardinality(DenialsOf(pr)) \in 0..MaxRows
    BY RowsAreCounted DEF ReportInv, DenialsOf, RowsOf
  <2> QED BY <2>1
<1>3. ASSUME NEW pr \in AllProjects
      PROVE  Between(denials[pr], OfProject(report.given, pr), OfProject(denied, pr))
  <2>1. /\ denials[pr] = Cardinality(OfProject(denied, pr))
        /\ IsFiniteSet(OfProject(denied, pr))
    BY ToldFacts DEF ReportInv, Told, OfProject
  <2>2. OfProject(report.given, pr) \subseteq OfProject(denied, pr)
    BY DEF ReportInv, ReportTypes, OfProject
  <2> HIDE DEF denials
  <2> QED BY <2>1, <2>2, MoreAreGiven DEF Between
<1>4. report.known \subseteq seen \cup {pr \in AllProjects : RequestsOf(pr) # {}}
  BY <1>0 DEF ReportInv, SummaryInv, Known
<1>5. report' = [report EXCEPT !.step = "requests", !.seen = seen, !.denials = denials]
  BY DEF ReadSummaryRows
<1>6. seen \subseteq AllProjects
  OBVIOUS
<1> HIDE DEF seen, denials
<1>7. ReportTypes'
  BY <1>1, <1>2, <1>5, <1>6 DEF ReportInv, ReportTypes
<1>8. /\ report'.step = "requests" /\ report'.kind = report.kind /\ report'.given = report.given
      /\ report'.known = report.known /\ report'.seen = seen /\ report'.denials = denials
  BY <1>5 DEF ReportInv, ReportTypes
<1>9. KindInv' /\ DenialInv'
  BY <1>0, <1>8 DEF KindInv, DenialInv
<1>10. SummaryInv'
  BY <1>0, <1>1, <1>3, <1>4, <1>8 DEF SummaryInv
<1> QED BY <1>1, <1>7, <1>9, <1>10 DEF ReportInv

LEMMA SummaryRequestsStep ==
  ASSUME ReportInv, ReadSummaryRequests
  PROVE  ReportInv'
<1>0. UNCHANGED auditVars /\ report.step = "requests" /\ report.kind = "summary"
  BY DEF ReadSummaryRequests, At, ReportInv, KindInv
<1>1. AuditInv' /\ denied' = denied /\ log' = log
  BY <1>0, QueryFacts
<1> DEFINE seen == report.seen \cup {pr \in AllProjects : RequestsOf(pr) # {}}
<1>2. report' = [report EXCEPT !.step = "done", !.seen = seen]
  BY DEF ReadSummaryRequests, ReportInv, ReportTypes
<1>3. report.known \subseteq seen
  BY <1>0 DEF ReportInv, SummaryInv
<1>4. seen \subseteq AllProjects
  BY DEF ReportInv, ReportTypes
<1> HIDE DEF seen
<1>5. ReportTypes'
  BY <1>1, <1>2, <1>4 DEF ReportInv, ReportTypes, DenialSteps
<1>6. /\ report'.step = "done" /\ report'.kind = report.kind /\ report'.given = report.given
      /\ report'.known = report.known /\ report'.seen = seen /\ report'.denials = report.denials
  BY <1>2 DEF ReportInv, ReportTypes
<1>7. KindInv' /\ DenialInv'
  BY <1>0, <1>6 DEF KindInv, DenialInv
<1>8. SummaryInv'
  BY <1>0, <1>1, <1>3, <1>6 DEF SummaryInv, ReportInv
<1> QED BY <1>1, <1>5, <1>7, <1>8 DEF ReportInv

LEMMA EndStep ==
  ASSUME ReportInv, EndReport
  PROVE  ReportInv'
<1>0. UNCHANGED auditVars /\ report' = NoReport
  BY DEF EndReport, At
<1>1. AuditInv' /\ denied' = denied /\ log' = log
  BY <1>0, QueryFacts
<1>2. ReportTypes'
  BY <1>0, <1>1, NoReportFacts DEF ReportTypes, ReportInv
<1>3. report'.step = "none" /\ report'.kind = "none"
  BY <1>0, NoReportFacts
<1>4. KindInv' /\ DenialInv' /\ SummaryInv'
  BY <1>3 DEF KindInv, DenialInv, SummaryInv
<1> QED BY <1>1, <1>2, <1>4 DEF ReportInv

LEMMA ReportStep ==
  ASSUME ReportInv, [ReportsNext]_allVars
  PROVE  ReportInv'
<1>1. AuditInv' /\ Grows
  BY AuditStep, GrowsStep, ReportsOnlyRead DEF ReportInv
<1>2. ASSUME report' = report
      PROVE  ReportInv'
  BY <1>1, <1>2, BesideStep
<1>3. ASSUME NEW scope \in Scopes, BeginSecurity(scope) \/ BeginLegal(scope)
      PROVE  ReportInv'
  <2>1. registry \in [Packages -> Statuses] /\ NoReport.rules \in [Packages -> Statuses]
    BY NoReportFacts DEF ReportInv, AuditInv, AuditTypeOK
  <2>2. \/ Begin("total", "cve", scope, registry, {})
        \/ Begin("total", "license", scope, NoReport.rules, {})
    BY <1>3 DEF BeginSecurity, BeginLegal
  <2> QED BY <2>1, <2>2, BeginStep
<1>4. ASSUME BeginSummary
      PROVE  ReportInv'
  <2>1. /\ Begin("rows", "summary", {}, NoReport.rules, Known)
        /\ NoReport.rules \in [Packages -> Statuses]
    BY <1>4, NoReportFacts DEF BeginSummary
  <2> QED BY <2>1, BeginStep
<1>5. Reading => ReportInv'
  BY <1>3, <1>4, TotalStep, RecentStep, HotStep, AlertsStep, TopProjectsStep, SummaryRowsStep,
     SummaryRequestsStep, EndStep DEF Reading
<1> QED BY <1>2, <1>5 DEF ReportsNext, Beside, allVars

\* What a report has read so far lies between what it should have said when it
\* began and what it should say now.
THEOREM ReportsInvariant == ReportsSpec => []ReportInv
<1>1. ReportsInit => ReportInv
  BY ReportInit
<1>2. ReportInv /\ [ReportsNext]_allVars => ReportInv'
  BY ReportStep
<1> QED BY <1>1, <1>2, PTL DEF ReportsSpec

\* The store, the panel and the report of a moment have their types, and a report
\* is at a step of its own kind.
THEOREM ReportsTypes == ReportsSpec => []ReportsTypeOK
<1>1. ReportInv => ReportsTypeOK
  BY DEF ReportInv, AuditInv, ReportTypes, KindInv, ReportsTypeOK, DenialSteps
<1> QED BY ReportsInvariant, <1>1, PTL

\* The security report, the legal report and the summary of the projects
\* (api/v1/reports.py, audit.py) add up, although each query is read at another
\* time: the totals lie between the denials given when the report began and those
\* given by now, a project is left out of the top ones only for TopLimit that were
\* denied as often, an earlier row is missing from the latest ones only for Limit
\* later ones, every package that an earlier denial in the window names and the
\* registry approves is called hot, and no project that was known is missing.
THEOREM ReportsSayWhatCallersWereTold == ReportsSpec => []ReportsAddUp
<1>1. ReportInv => DenialReportsAddUp
  <2> SUFFICES ASSUME ReportInv, report.step = "done", report.kind \in {"cve", "license"}
               PROVE  DenialReportsAddUp
    BY DEF DenialReportsAddUp
  <2>1. Between(report.total, Of(report.given, report.kind, report.scope),
                              Of(denied, report.kind, report.scope))
    BY DEF ReportInv, DenialInv
  <2>2. report.total \in Given(report.given, report.kind, report.scope)
                           ..Given(denied, report.kind, report.scope)
    BY <2>1 DEF Between, Given, Of
  <2>3. OnlyLaterHide(Before(Denials(report.kind, report.scope)), report.recent)
    BY DEF ReportInv, DenialInv
  <2>4. report.kind = "cve" =>
          HotIsFound /\ OnlyLaterHide(Before(Alerts(report.scope)), report.alerts)
    BY DEF ReportInv, DenialInv
  <2>5. report.kind = "license" =>
          \A pr \in report.scope : NamedOrHidden(report.top, pr, denied)
    BY DEF ReportInv, DenialInv
  <2>6. report.kind = "license" =>
          \A pr \in report.scope :
            \/ report.top[pr] \in Given(report.given, "license", {pr})
                                    ..Given(denied, "license", {pr})
            \/ OnlyMoreDeniedHide(Given(report.given, "license", {pr}), report.top)
    BY <2>5 DEF NamedOrHidden, Between, Given, Of
  <2> QED BY <2>2, <2>3, <2>4, <2>6 DEF DenialReportsAddUp, HotIsFound, Before
<1>2. ReportInv => SummaryAddsUp
  BY DEF ReportInv, SummaryInv, SummaryAddsUp, Between, OfProject
<1>3. ReportInv => ReportsAddUp
  BY <1>1, <1>2 DEF ReportsAddUp
<1> QED BY ReportsInvariant, <1>3, PTL

===============================================================================
