--------------------------- MODULE LocalGit_proofs ---------------------------
(***************************************************************************)
(* What LocalGit guarantees for any number of concurrent proposals,        *)
(* packages, rules, collisions and crashes.                                *)
(***************************************************************************)
EXTENDS LocalGit, TLAPS

\* The lock holder alone is between the read and the write, and what it writes
\* is the file of now with its own rule in it.
WritersHoldLock ==
    /\ \A c \in Calls : pc[c] \in {"read", "write"} => lock = c
    /\ \A c \in Calls :
         pc[c] = "write" => doc[c] = [file EXCEPT ![package[c]] = rule[c]]

\* A proposal in progress has a package and a rule.
ProposalsAreFull ==
    /\ \A c \in Calls : pc[c] # "idle" => package[c] \in Packages /\ rule[c] \in Rules
    /\ \A c \in Calls : outcome[c] = "applied" => package[c] \in Packages

\* Without trouble, whoever has made the file differ from the index is about to
\* add it, and whoever has made the index differ is about to commit it.
OnTheirWay ==
    troubles = 0 =>
        /\ index.rules = file \/ \E c \in Calls : pc[c] = "add"
        /\ head.rules = index.rules \/ \E c \in Calls : pc[c] = "commit"

\* Packages only come: commits are behind the index, the index behind the file,
\* and each proposal finds its package as far as it has brought it.
PackagesStay ==
    /\ \A p \in Packages : head.rules[p] # NoRule => index.rules[p] # NoRule
    /\ \A p \in Packages : index.rules[p] # NoRule => file[p] # NoRule
    /\ \A c \in Calls : pc[c] = "add" => file[package[c]] # NoRule
    /\ \A c \in Calls : pc[c] = "commit" => index.rules[package[c]] # NoRule
    /\ \A c \in Calls : pc[c] = "sha" => head.rules[package[c]] # NoRule

GitInv ==
    /\ LocalGitTypeOK
    /\ WritersHoldLock
    /\ ProposalsAreFull
    /\ OnTheirWay
    /\ PackagesStay
    /\ AppliedStays

-----------------------------------------------------------------------------

LEMMA InitGitInv == Init => GitInv
<1> SUFFICES ASSUME Init PROVE GitInv
  OBVIOUS
<1> USE DEF Init
<1>1. Empty \in Content /\ FirstTree \in Tree
  BY LocalGitAssumption DEF LocalGitAssumption, Empty, FirstTree, Content, Tree
<1>2. LocalGitTypeOK
  BY <1>1, LocalGitAssumption DEF LocalGitAssumption, LocalGitTypeOK, PcStates, Outcomes
<1>3. WritersHoldLock /\ ProposalsAreFull /\ AppliedStays
  BY DEF WritersHoldLock, ProposalsAreFull, AppliedStays
<1>4. OnTheirWay /\ PackagesStay
  BY DEF OnTheirWay, PackagesStay, FirstTree, Empty
<1> QED BY <1>2, <1>3, <1>4 DEF GitInv

LEMMA NextTypeOK ==
    ASSUME GitInv, [Next]_vars
    PROVE  LocalGitTypeOK'
<1> USE DEF GitInv, LocalGitTypeOK, Go, Ends, request, PcStates, Outcomes
<1>1. ASSUME NEW c \in Calls, NEW p \in Packages, NEW r \in Rules, Propose(c, p, r)
      PROVE  LocalGitTypeOK'
  BY <1>1, LocalGitAssumption DEF Propose, LocalGitAssumption
<1>2. ASSUME NEW c \in Calls, Acquire(c) PROVE LocalGitTypeOK'
  BY <1>2 DEF Acquire
<1>3. ASSUME NEW c \in Calls, Read(c) PROVE LocalGitTypeOK'
  <2>1. package[c] \in Packages /\ rule[c] \in Rules
    BY <1>3 DEF Read, ProposalsAreFull
  <2>2. [file EXCEPT ![package[c]] = rule[c]] \in Content
    BY <2>1 DEF Content
  <2> QED BY <1>3, <2>2 DEF Read
<1>4. ASSUME NEW c \in Calls, Write(c) PROVE LocalGitTypeOK'
  BY <1>4 DEF Write
<1>5. ASSUME NEW c \in Calls, WriteFails(c) PROVE LocalGitTypeOK'
  BY <1>5 DEF WriteFails
<1>6. ASSUME NEW c \in Calls, Add(c) PROVE LocalGitTypeOK'
  BY <1>6 DEF Add, Tree
<1>7. ASSUME NEW c \in Calls, Commit(c) PROVE LocalGitTypeOK'
  BY <1>7 DEF Commit
<1>8. ASSUME NEW c \in Calls, NothingToCommit(c) \/ HeadSha(c) PROVE LocalGitTypeOK'
  BY <1>8 DEF NothingToCommit, HeadSha
<1>9. ASSUME NEW c \in Calls, Collide(c) PROVE LocalGitTypeOK'
  BY <1>9, LocalGitAssumption DEF Collide, LocalGitAssumption
<1>10. ASSUME Stage PROVE LocalGitTypeOK'
  BY <1>10, LocalGitAssumption DEF Stage, Tree, LocalGitAssumption
<1>11. ASSUME Crash PROVE LocalGitTypeOK'
  BY <1>11, LocalGitAssumption DEF Crash, LocalGitAssumption
<1>12. ASSUME UNCHANGED vars PROVE LocalGitTypeOK'
  BY <1>12 DEF vars
<1> QED
  BY <1>1, <1>2, <1>3, <1>4, <1>5, <1>6, <1>7, <1>8, <1>9, <1>10, <1>11, <1>12 DEF Next, Step

LEMMA NextGitInv == GitInv /\ [Next]_vars => GitInv'
<1> SUFFICES ASSUME GitInv, [Next]_vars PROVE GitInv'
  OBVIOUS
<1> USE DEF Go, Ends, request
<1>a. LocalGitTypeOK /\ LocalGitTypeOK'
  BY NextTypeOK DEF GitInv
<1>b. WritersHoldLock /\ ProposalsAreFull /\ OnTheirWay /\ PackagesStay /\ AppliedStays
  BY DEF GitInv
<1> DEFINE Parts == WritersHoldLock /\ ProposalsAreFull /\ OnTheirWay /\ PackagesStay /\ AppliedStays
<1>1. ASSUME NEW c \in Calls, NEW p \in Packages, NEW r \in Rules, Propose(c, p, r)
      PROVE  Parts'
  BY <1>1, <1>a, <1>b DEF Propose, LocalGitTypeOK, WritersHoldLock, ProposalsAreFull,
     OnTheirWay, PackagesStay, AppliedStays
<1>2. ASSUME NEW c \in Calls, Acquire(c) PROVE Parts'
  BY <1>2, <1>a, <1>b, LocalGitAssumption DEF Acquire, LocalGitAssumption, LocalGitTypeOK,
     WritersHoldLock, ProposalsAreFull, OnTheirWay, PackagesStay, AppliedStays
<1>3. ASSUME NEW c \in Calls, Read(c) PROVE Parts'
  BY <1>3, <1>a, <1>b DEF Read, LocalGitTypeOK, WritersHoldLock, ProposalsAreFull,
     OnTheirWay, PackagesStay, AppliedStays
<1>4. ASSUME NEW c \in Calls, Write(c) PROVE Parts'
  <2>1. package[c] \in Packages /\ rule[c] \in Rules
    BY <1>4, <1>b DEF Write, ProposalsAreFull
  <2>2. lock = c /\ file' = [file EXCEPT ![package[c]] = rule[c]]
    BY <1>4, <1>b DEF Write, WritersHoldLock
  <2>3. /\ file'[package[c]] # NoRule
        /\ \A q \in Packages : file[q] # NoRule => file'[q] # NoRule
    BY <2>1, <2>2, <1>a, LocalGitAssumption DEF LocalGitTypeOK, LocalGitAssumption, Content
  <2>4. WritersHoldLock'
    BY <1>4, <1>a, <1>b, <2>2 DEF Write, LocalGitTypeOK, WritersHoldLock
  <2>5. ProposalsAreFull' /\ AppliedStays'
    BY <1>4, <1>a, <1>b DEF Write, LocalGitTypeOK, ProposalsAreFull, AppliedStays
  <2>6. OnTheirWay'
    BY <1>4, <1>a, <1>b DEF Write, LocalGitTypeOK, OnTheirWay
  <2>7. PackagesStay'
    BY <1>4, <1>a, <1>b, <2>3 DEF Write, LocalGitTypeOK, PackagesStay, ProposalsAreFull
  <2> QED BY <2>4, <2>5, <2>6, <2>7
<1>5. ASSUME NEW c \in Calls, WriteFails(c) PROVE Parts'
  BY <1>5, <1>a, <1>b DEF WriteFails, LocalGitTypeOK, WritersHoldLock, ProposalsAreFull,
     OnTheirWay, PackagesStay, AppliedStays
<1>6. ASSUME NEW c \in Calls, Add(c) PROVE Parts'
  <2>1. index'.rules = file
    BY <1>6, <1>a DEF Add, LocalGitTypeOK, Tree
  <2>2. WritersHoldLock' /\ ProposalsAreFull' /\ AppliedStays'
    BY <1>6, <1>a, <1>b DEF Add, LocalGitTypeOK, WritersHoldLock, ProposalsAreFull, AppliedStays
  <2>3. OnTheirWay'
    BY <1>6, <1>a, <1>b, <2>1 DEF Add, LocalGitTypeOK, OnTheirWay
  <2>4. PackagesStay'
    BY <1>6, <1>a, <1>b, <2>1 DEF Add, LocalGitTypeOK, PackagesStay, ProposalsAreFull
  <2> QED BY <2>2, <2>3, <2>4
<1>7. ASSUME NEW c \in Calls, Commit(c) PROVE Parts'
  <2>1. WritersHoldLock' /\ ProposalsAreFull' /\ OnTheirWay'
    BY <1>7, <1>a, <1>b DEF Commit, LocalGitTypeOK, WritersHoldLock, ProposalsAreFull, OnTheirWay
  <2>2. PackagesStay' /\ AppliedStays'
    BY <1>7, <1>a, <1>b DEF Commit, LocalGitTypeOK, PackagesStay, AppliedStays, ProposalsAreFull
  <2> QED BY <2>1, <2>2
<1>8. ASSUME NEW c \in Calls, NothingToCommit(c) PROVE Parts'
  BY <1>8, <1>a, <1>b DEF NothingToCommit, LocalGitTypeOK, WritersHoldLock,
     ProposalsAreFull, OnTheirWay, PackagesStay, AppliedStays
<1>9. ASSUME NEW c \in Calls, HeadSha(c) PROVE Parts'
  BY <1>9, <1>a, <1>b DEF HeadSha, LocalGitTypeOK, WritersHoldLock, ProposalsAreFull,
     OnTheirWay, PackagesStay, AppliedStays
<1>10. ASSUME NEW c \in Calls, Collide(c) PROVE Parts'
  BY <1>10, <1>a, <1>b DEF Collide, LocalGitTypeOK, WritersHoldLock, ProposalsAreFull,
     OnTheirWay, PackagesStay, AppliedStays
<1>11. ASSUME Stage PROVE Parts'
  <2>1. index'.rules = index.rules
    BY <1>11, <1>a DEF Stage, LocalGitTypeOK, Tree
  <2> QED
    BY <1>11, <1>b, <2>1 DEF Stage, WritersHoldLock, ProposalsAreFull, OnTheirWay,
       PackagesStay, AppliedStays
<1>12. ASSUME Crash PROVE Parts'
  BY <1>12, <1>a, <1>b DEF Crash, LocalGitTypeOK, WritersHoldLock, ProposalsAreFull,
     OnTheirWay, PackagesStay, AppliedStays
<1>13. ASSUME UNCHANGED vars PROVE Parts'
  BY <1>13, <1>b DEF vars, WritersHoldLock, ProposalsAreFull, OnTheirWay, PackagesStay,
     AppliedStays
<1>14. Parts'
  BY <1>1, <1>2, <1>3, <1>4, <1>5, <1>6, <1>7, <1>8, <1>9, <1>10, <1>11, <1>12, <1>13
     DEF Next, Step
<1> QED BY <1>a, <1>14 DEF GitInv

\* What is not yet committed is about to be, and nothing takes back what is.
THEOREM GitInvariant == Spec => []GitInv
BY InitGitInv, NextGitInv, PTL DEF Spec

-----------------------------------------------------------------------------

\* Every variable of LocalGit keeps its type.
THEOREM LocalGitTypeCorrect == Spec => []LocalGitTypeOK
<1>1. GitInv => LocalGitTypeOK
  BY DEF GitInv
<1> QED BY <1>1, GitInvariant, PTL

\* Without a collision or a crash, whatever was written is in the last commit
\* once no git command is on its way, although add and commit run unlocked.
THEOREM WritesAreCommitted == Spec => []WrittenIsCommitted
<1>1. GitInv => WrittenIsCommitted
  BY DEF GitInv, OnTheirWay, WrittenIsCommitted, Quiet
<1> QED BY <1>1, GitInvariant, PTL

\* An applied proposal keeps its package in the last commit, whatever collides,
\* fails or crashes afterwards.
THEOREM AppliedProposalsStay == Spec => []AppliedStays
<1>1. GitInv => AppliedStays
  BY DEF GitInv
<1> QED BY <1>1, GitInvariant, PTL

=============================================================================
