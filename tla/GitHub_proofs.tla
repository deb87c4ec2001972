---------------------------- MODULE GitHub_proofs ----------------------------
(***************************************************************************)
(* What GitHub guarantees for any number of proposals, packages, reviews,  *)
(* direct edits and faults: one working tree is shared, and still nothing  *)
(* unreviewed gets out of it into the server, and nothing of one proposal  *)
(* into the branch of another.                                             *)
(***************************************************************************)
EXTENDS GitHub, TLAPS

\* The places where a call or a handler uses the shared clone.
Working == {"refresh", "configure", "branch", "edit", "add", "commit", "push", "copy"}

\* Whoever uses the clone holds the lock, and a proposal in progress is about
\* a package.
LockHeld ==
    /\ \A a \in Actors : pc[a] \in Working => lock = a
    /\ \A c \in Calls : pc[c] # "idle" => package[c] \in Packages /\ rule[c] \in Rules

\* Without a fault, only a proposal about to add it has a file git does not track.
NoLeftover ==
    tree # NoFile /\ ~tracked /\ count.faults = 0 => \E c \in Calls : pc[c] = "add"

\* What a proposal commits and pushes is a file.
FileIsThere ==
    \A c \in Calls :
        /\ pc[c] \in {"add", "commit"} => tree \in Content
        /\ pc[c] = "push" => head \in Content

\* Only what was reviewed is to be expected ...
Trusted == NoFile \notin mains \/ count.faults = 0

\* ... of what the handlers carry from the default branch to the server.
Reviewed ==
    /\ main \in mains
    /\ Trusted =>
        /\ \A h \in Hooks : pc[h] \in {"configure", "copy"} => tree \in mains
        /\ \A a \in Reloaders : pc[a] = "swap" => seen[a] \in mains
        /\ local.content \in mains
        /\ live \in mains

\* Two registry files agree but for one package.
AgreeBut(p, one, other) == \A q \in Packages \ {p} : RulesOf(one)[q] = RulesOf(other)[q]

\* How far a proposal that starts from a clean tree takes the clone away from the
\* default branch.
Clean == base # NoFile \/ count.faults = 0
TreeIsOwn ==
    Clean =>
        \A c \in Calls :
            /\ pc[c] \in {"configure", "branch", "edit"} => tree = base
            /\ pc[c] \in {"add", "commit"} => AgreeBut(package[c], tree, base)
            /\ pc[c] = "push" => AgreeBut(package[c], head, base)

\* A pull request has its branch on the remote.
PullsHaveBranches == \A p \in pulls : branch[p] # NoBranch

PullInv ==
    /\ GitHubTypeOK
    /\ PullsHaveBranches
    /\ LockHeld
    /\ NoLeftover
    /\ FileIsThere
    /\ Reviewed
    /\ TreeIsOwn
    /\ PullsAreForOnePackage

-----------------------------------------------------------------------------

LEMMA InitPullInv == Init => PullInv
<1> SUFFICES ASSUME Init PROVE PullInv
  OBVIOUS
<1> USE DEF Init
<1>1. Empty \in Content /\ Empty \in File /\ NoFile \in File /\ main \in File
  BY DEF Empty, Content, File
<1>2. count \in [requests : 0..MaxRequests, reviews : 0..MaxReviews,
                 edits : Nat, faults : 0..MaxFaults]
  BY GitHubAssumption DEF GitHubAssumption
<1>5. local \in [content : Content, json : BOOLEAN, mtime : Nat]
      /\ poll \in [last : Nat, mtime : Nat]
  BY <1>1
<1>3. GitHubTypeOK
  BY <1>1, <1>2, <1>5 DEF GitHubTypeOK, PcStates
<1>4. /\ PullsHaveBranches
      /\ LockHeld
      /\ NoLeftover
      /\ FileIsThere
      /\ Reviewed
      /\ TreeIsOwn
      /\ PullsAreForOnePackage
  BY GitHubAssumption
  DEF GitHubAssumption, LockHeld, Working, Reviewed, TreeIsOwn, NoLeftover, FileIsThere,
      PullsAreForOnePackage, PullsHaveBranches, Actors, Reloaders
<1> QED BY <1>3, <1>4 DEF PullInv

\* A fault, a review and a request are counted.
LEMMA CountType ==
    ASSUME GitHubTypeOK, Fault \/ Review \/ Request
    PROVE  count' \in [requests : 0..MaxRequests, reviews : 0..MaxReviews,
                       edits : Nat, faults : 0..MaxFaults]
BY GitHubAssumption DEF GitHubAssumption, GitHubTypeOK, Fault, Review, Request

\* A direct edit counts as a request too.
LEMMA EditCounted ==
    ASSUME GitHubTypeOK, NEW file, EditMain(file)
    PROVE  /\ count' \in [requests : 0..MaxRequests, reviews : 0..MaxReviews,
                          edits : Nat, faults : 0..MaxFaults]
           /\ count'.faults = count.faults
<1>1. /\ count.requests \in 0..MaxRequests
      /\ count.requests < MaxRequests
      /\ count.edits \in Nat
      /\ count' = [count EXCEPT !.requests = count.requests + 1,
                               !.edits = count.edits + 1]
  BY DEF GitHubTypeOK, EditMain
<1>2. count.requests + 1 \in 0..MaxRequests /\ count.edits + 1 \in Nat
  BY <1>1, GitHubAssumption DEF GitHubAssumption
<1>3. \A m \in 0..MaxRequests, n \in Nat :
        LET c == [count EXCEPT !.requests = m, !.edits = n]
        IN  /\ c \in [requests : 0..MaxRequests, reviews : 0..MaxReviews,
                     edits : Nat, faults : 0..MaxFaults]
            /\ c.faults = count.faults
  BY DEF GitHubTypeOK
<1> QED BY <1>1, <1>2, <1>3, Zenon

\* A registry edited in one rule is a registry.
LEMMA EditedIsContent ==
    ASSUME NEW file \in File, NEW p \in Packages, NEW r \in Rules \cup {NoRule}
    PROVE  [RulesOf(file) EXCEPT ![p] = r] \in Content
BY DEF File, RulesOf, Empty, Content

LEMMA NextTypeOK == PullInv /\ [Next]_vars => GitHubTypeOK'
<1> SUFFICES ASSUME PullInv, [Next]_vars PROVE GitHubTypeOK'
  OBVIOUS
<1>t. GitHubTypeOK /\ LockHeld /\ FileIsThere /\ PullsHaveBranches
  BY DEF PullInv
<1>h. Content \subseteq File /\ NoFile \in File /\ Empty \in Content
  BY DEF File, Empty, Content
<1> USE <1>t, <1>h DEF GitHubTypeOK, remote, work, request, server, history, PcStates, Go, Ends,
        Actors
<1>1. ASSUME NEW c \in Calls, NEW p \in Packages, NEW r \in Rules, Propose(c, p, r)
      PROVE  GitHubTypeOK'
  BY <1>1, CountType DEF Propose
<1>2. ASSUME NEW a \in Actors, Refresh(a) PROVE GitHubTypeOK'
  <2>1. Refreshed(a) \in PcStates
    BY DEF Refreshed
  <2>2. CASE Acquire(a)
    BY <2>2 DEF Acquire
  <2>3. CASE Configure(a)
    BY <2>1, <2>3 DEF Configure
  <2>4. CASE Clone(a)
    <3>1. (main # NoFile) \in BOOLEAN
      OBVIOUS
    <3> QED BY <2>4, <3>1 DEF Clone
  <2>5. CASE Reset(a)
    <3>1. (main # NoFile) \in BOOLEAN
      OBVIOUS
    <3>2. tree' \in File /\ tracked' \in BOOLEAN
      BY <2>5, <3>1 DEF Reset
    <3>3. pc' \in [Actors -> PcStates]
      BY <2>1, <2>5 DEF Reset
    <3> QED BY <2>5, <3>2, <3>3 DEF Reset
  <2> QED BY <1>2, <2>2, <2>3, <2>4, <2>5 DEF Refresh
<1>3. ASSUME NEW c \in Calls, CheckoutNew(c) PROVE GitHubTypeOK'
  BY <1>3, CountType DEF CheckoutNew
<1>4. ASSUME NEW c \in Calls, Edit(c) PROVE GitHubTypeOK'
  <2>1. package[c] \in Packages /\ rule[c] \in Rules
    BY <1>4 DEF Edit, LockHeld
  <2>2. tree' \in Content
    BY <1>4, <2>1, EditedIsContent DEF Edit
  <2> QED BY <1>4, <2>2 DEF Edit
<1>5. ASSUME NEW c \in Calls, Add(c) \/ Commit(c) PROVE GitHubTypeOK'
  <2>1. CASE Add(c)
    <3>1. tracked' \in BOOLEAN
      BY <2>1 DEF Add
    <3> QED BY <2>1, <3>1 DEF Add
  <2>2. CASE Commit(c)
    BY <2>2 DEF Commit
  <2> QED BY <1>5, <2>1, <2>2
<1>6. ASSUME NEW c \in Calls, Push(c) PROVE GitHubTypeOK'
  <2>1. [base |-> base, content |-> head] \in Branch
    BY <1>6 DEF Push, FileIsThere, Branch
  <2> QED BY <1>6, <2>1 DEF Push
<1>7. ASSUME NEW c \in Calls, CheckoutFails(c) \/ CommitFails(c) \/ PushRejected(c)
      PROVE  GitHubTypeOK'
  BY <1>7 DEF CheckoutFails, CommitFails, PushRejected
<1>8. ASSUME NEW c \in Calls, FindPr(c) \/ Fails(c) PROVE GitHubTypeOK'
  BY <1>8, CountType DEF FindPr, Fails, GitFails, HttpFails
<1>9. ASSUME NEW c \in Calls, OpenPr(c) \/ OpenPrRefused(c) \/ Comment(c) PROVE GitHubTypeOK'
  BY <1>9 DEF OpenPr, OpenPrRefused, Comment, LockHeld
<1>10. ASSUME NEW p \in Packages, Merge(p) PROVE GitHubTypeOK'
  <2>1. branch[p] \in Branch /\ main \in File
    BY <1>10 DEF Merge, PullsHaveBranches
  <2>0. RulesOf(main) \in Content /\ branch[p].content \in Content
    BY <2>1 DEF RulesOf, File, Branch
  <2>2. main' \in Content /\ mains' = mains \cup {main'}
    BY <1>10, <2>0 DEF Merge, MainBecomes, Content
  <2>3. branch' \in [Packages -> Branch \cup {NoBranch}]
    BY <1>10 DEF Merge
  <2>4. pulls' \subseteq Packages /\ merges' \in Nat /\ mains' \subseteq File
    BY <1>10, <2>2 DEF Merge
  <2> QED BY <1>10, <2>2, <2>3, <2>4 DEF Merge
<1>11. ASSUME NEW p \in Packages, Close(p) \/ OpenByHand(p) PROVE GitHubTypeOK'
  BY <1>11, CountType DEF Close, OpenByHand
<1>12. ASSUME NEW p \in Packages, NEW r \in Rules \cup {NoRule}, Amend(p, r)
       PROVE GitHubTypeOK'
  <2>1. branch[p] \in Branch
    BY <1>12 DEF Amend, PullsHaveBranches
  <2>2. branch'[p] = [base |-> branch[p].base,
                      content |-> [branch[p].content EXCEPT ![p] = r]]
    BY <1>12, <2>1 DEF Amend, Branch
  <2>3. branch'[p] \in Branch
    BY <2>1, <2>2 DEF Branch, Content
  <2>4. branch' \in [Packages -> Branch \cup {NoBranch}]
    BY <1>12, <2>3 DEF Amend
  <2> QED BY <1>12, <2>4, CountType DEF Amend
<1>13. ASSUME NEW file \in File, EditMain(file) PROVE GitHubTypeOK'
  <2>1. count' \in [requests : 0..MaxRequests, reviews : 0..MaxReviews,
                    edits : Nat, faults : 0..MaxFaults]
    BY <1>13, EditCounted
  <2> QED BY <1>13, <2>1 DEF EditMain, MainBecomes
<1>14. ASSUME \/ MergeOther \/ \E h \in Hooks : Webhook(h) \/ RequestReload(h)
       PROVE  GitHubTypeOK'
  BY <1>14, CountType DEF MergeOther, Webhook, RequestReload
<1>15. ASSUME \/ WebhookLost \/ Crash \/ \E h \in Hooks : RefreshFails(h) PROVE GitHubTypeOK'
  BY <1>15, CountType DEF WebhookLost, RefreshFails, Crash
<1>16. ASSUME NEW h \in Hooks, Copy(h) \/ CopyNothing(h) PROVE GitHubTypeOK'
  <2>1. CASE Copy(h)
    <3>1. tree \in Content
      BY <2>1 DEF Copy, File
    <3>2. local' \in [content : Content, json : BOOLEAN, mtime : Nat]
      BY <2>1, <3>1 DEF Copy
    <3> QED BY <2>1, <3>2 DEF Copy
  <2> QED BY <1>16, <2>1 DEF CopyNothing
<1>17. ASSUME FirstTick \/ Tick PROVE GitHubTypeOK'
  <2>1. poll' \in [last : Nat, mtime : Nat]
    BY <1>17 DEF FirstTick, Tick
  <2> QED BY <1>17, <2>1 DEF FirstTick, Tick
<1>18. ASSUME NEW a \in Reloaders, Reload(a) PROVE GitHubTypeOK'
  <2>1. CASE ReadLocal(a)
    BY <2>1 DEF ReadLocal
  <2>2. CASE SwapLive(a)
    <3>1. poll' \in [last : Nat, mtime : Nat]
      BY <2>2 DEF SwapLive
    <3> QED BY <2>2, <3>1 DEF SwapLive
  <2> QED BY <1>18, <2>1, <2>2 DEF Reload
<1>19. ASSUME UNCHANGED vars PROVE GitHubTypeOK'
  BY <1>19 DEF vars
<1> QED
  <2>1. \A p \in Packages, r \in Rules : [RulesOf(main) EXCEPT ![p] = r] \in File
    BY EditedIsContent
  <2>2. ASSUME Reviewing PROVE GitHubTypeOK'
    BY <2>1, <2>2, <1>10, <1>11, <1>12, <1>13, <1>14 DEF Reviewing
  <2>3. ASSUME NEW c \in Calls, Proceed(c) \/ Fails(c) PROVE GitHubTypeOK'
    BY <2>3, <1>2, <1>3, <1>4, <1>5, <1>6, <1>7, <1>8, <1>9 DEF Proceed
  <2>4. ASSUME NEW h \in Hooks, HookProceed(h) PROVE GitHubTypeOK'
    BY <2>4, <1>2, <1>16, <1>18 DEF HookProceed, Reloaders
  <2>5. ASSUME Poll PROVE GitHubTypeOK'
    BY <2>5, <1>17, <1>18 DEF Poll, Reloaders
  <2> QED BY <2>2, <2>3, <2>4, <2>5, <1>1, <1>14, <1>15, <1>19 DEF Next

-----------------------------------------------------------------------------
(* Faults are remembered, and so is what the default branch has held.      *)

LEMMA FaultCounts ==
    ASSUME GitHubTypeOK, Fault
    PROVE  count'.faults # 0
BY GitHubAssumption DEF GitHubAssumption, GitHubTypeOK, Fault

LEMMA FaultsRemain ==
    ASSUME GitHubTypeOK, Fault \/ Review \/ Request \/ (\E file \in File : EditMain(file))
    PROVE  count'.faults = 0 => count.faults = 0
<1>1. ASSUME Fault \/ Review \/ Request PROVE count'.faults = 0 => count.faults = 0
  BY <1>1, GitHubAssumption DEF GitHubAssumption, GitHubTypeOK, Fault, Review, Request
<1> QED BY <1>1, EditCounted

\* Each step counts something or nothing.
LEMMA Counted ==
    ASSUME PullInv, [Next]_vars
    PROVE  /\ count'.faults = 0 => count.faults = 0
           /\ mains \subseteq mains'
           /\ main' \in mains'
<1>t. GitHubTypeOK /\ main \in mains
  BY DEF PullInv, Reviewed
<1>f. \A p \in Packages, r \in Rules : [RulesOf(main) EXCEPT ![p] = r] \in File
  BY <1>t, EditedIsContent DEF GitHubTypeOK, File
<1>1. /\ \/ UNCHANGED count
         \/ Fault
         \/ Review
         \/ Request
         \/ \E file \in File : EditMain(file)
      /\ \/ UNCHANGED <<main, mains>>
         \/ \E file : MainBecomes(file)
  <2> USE DEF remote, history
  <2>1. ASSUME NEW c \in Calls, \E p \in Packages, r \in Rules : Propose(c, p, r)
        PROVE  Request /\ UNCHANGED <<main, mains>>
    BY <2>1 DEF Propose
  <2>2. ASSUME NEW c \in Calls, Proceed(c)
        PROVE  (UNCHANGED count \/ Fault) /\ UNCHANGED <<main, mains>>
    BY <2>2 DEF Proceed, Refresh, Acquire, Clone, Configure, Reset, CheckoutNew,
       CheckoutFails, Edit, Add, Commit, CommitFails, Push, PushRejected, FindPr, OpenPr,
       OpenPrRefused, Comment
  <2>3. ASSUME NEW c \in Calls, Fails(c) PROVE Fault /\ UNCHANGED <<main, mains>>
    BY <2>3 DEF Fails, GitFails, HttpFails
  <2>4. ASSUME Reviewing
        PROVE  /\ \/ UNCHANGED count
                  \/ Review
                  \/ Request
                  \/ \E file \in File : EditMain(file)
               /\ \/ UNCHANGED <<main, mains>>
                  \/ \E file : MainBecomes(file)
    <3>1. ASSUME NEW p \in Packages, Merge(p)
          PROVE  UNCHANGED count /\ \E file : MainBecomes(file)
      BY <3>1 DEF Merge
    <3>2. ASSUME NEW p \in Packages,
                 OpenByHand(p) \/ Close(p) \/ \E r \in Rules \cup {NoRule} : Amend(p, r)
          PROVE  Review /\ UNCHANGED <<main, mains>>
      BY <3>2 DEF OpenByHand, Close, Amend
    <3>3. ASSUME NEW file \in File, EditMain(file) PROVE MainBecomes(file)
      BY <3>3 DEF EditMain
    <3>4. ASSUME MergeOther PROVE Request /\ UNCHANGED <<main, mains>>
      BY <3>4 DEF MergeOther
    <3>5. NoFile \in File
      BY DEF File
    <3> QED BY <2>4, <3>1, <3>2, <3>3, <3>4, <3>5, <1>f DEF Reviewing
  <2>5. ASSUME NEW h \in Hooks, Webhook(h) \/ HookProceed(h) \/ RefreshFails(h) \/ RequestReload(h)
        PROVE  (UNCHANGED count \/ Fault \/ Request) /\ UNCHANGED <<main, mains>>
    BY <2>5 DEF Webhook, HookProceed, Refresh, Acquire, Clone, Configure, Reset, Copy,
       CopyNothing, Reload, ReadLocal, SwapLive, RefreshFails, RequestReload
  <2>6. ASSUME WebhookLost \/ Crash PROVE Fault /\ UNCHANGED <<main, mains>>
    BY <2>6 DEF WebhookLost, Crash
  <2>7. ASSUME Poll \/ UNCHANGED vars PROVE UNCHANGED <<main, mains, count>>
    BY <2>7 DEF Poll, FirstTick, Tick, Reload, ReadLocal, SwapLive, vars
  <2> QED BY <2>1, <2>2, <2>3, <2>4, <2>5, <2>6, <2>7 DEF Next
<1>2. count'.faults = 0 => count.faults = 0
  BY <1>1, <1>t, FaultsRemain
<1>3. mains \subseteq mains' /\ main' \in mains'
  BY <1>1, <1>t DEF MainBecomes
<1> QED BY <1>2, <1>3

-----------------------------------------------------------------------------
(* The lock, and what a proposal has changed in the clone.                 *)

LEMMA NextCloneInv ==
    ASSUME PullInv, [Next]_vars
    PROVE  LockHeld' /\ NoLeftover' /\ FileIsThere' /\ TreeIsOwn'
<1>t. /\ GitHubTypeOK /\ LockHeld /\ NoLeftover /\ FileIsThere /\ TreeIsOwn
      /\ Poller \notin Calls \cup Hooks /\ Calls \cap Hooks = {} /\ Nobody \notin Actors
      /\ NoFile \notin Content
  BY GitHubAssumption DEF PullInv, GitHubAssumption
<1>m. count'.faults = 0 => count.faults = 0
  BY Counted
<1> DEFINE Goal == LockHeld' /\ NoLeftover' /\ FileIsThere' /\ TreeIsOwn'
<1> USE <1>t, <1>m DEF GitHubTypeOK, LockHeld, NoLeftover, FileIsThere, TreeIsOwn, Clean,
        Working, remote, work, request, server, history, Go, Ends, Actors
<1>1. ASSUME NEW c \in Calls, NEW p \in Packages, NEW r \in Rules, Propose(c, p, r)
      PROVE  Goal
  BY <1>1 DEF Propose
<1>2. ASSUME NEW a \in Actors, Acquire(a) PROVE Goal
  BY <1>2 DEF Acquire
<1>3. ASSUME NEW a \in Actors, Clone(a) \/ Configure(a) \/ Reset(a) PROVE Goal
  <2>1. CASE Clone(a)
    BY <2>1 DEF Clone
  <2>2. CASE Configure(a)
    BY <2>2 DEF Configure, Refreshed
  <2>3. CASE Reset(a)
    <3>1. \A c \in Calls : pc[c] # "add"
      BY <2>3 DEF Reset
    <3>2. base' = main /\ (Clean' => tree' = main)
      BY <2>3, <3>1 DEF Reset
    <3>3. NoLeftover'
      BY <2>3, <3>1 DEF Reset
    <3> QED BY <2>3, <3>2, <3>3 DEF Reset, Refreshed
  <2> QED BY <1>3, <2>1, <2>2, <2>3
<1>4. ASSUME NEW c \in Calls, CheckoutNew(c) PROVE Goal
  BY <1>4 DEF CheckoutNew
<1>5. ASSUME NEW c \in Calls, Edit(c) PROVE Goal
  <2>1. package[c] \in Packages /\ rule[c] \in Rules
    BY <1>5 DEF Edit
  <2>2. tree' \in Content
    BY <1>5, <2>1, EditedIsContent DEF Edit
  <2>3. Clean' => AgreeBut(package[c], tree', base')
    <3>1. RulesOf(tree) \in Content /\ RulesOf(tree') = tree'
      BY <2>2 DEF RulesOf, File, Empty, Content
    <3>2. \A q \in Packages \ {package[c]} : tree'[q] = RulesOf(tree)[q]
      BY <1>5, <2>1, <3>1 DEF Edit, Content
    <3>3. base' = base /\ (Clean' => Clean /\ tree = base)
      BY <1>5 DEF Edit
    <3> QED BY <3>1, <3>2, <3>3 DEF AgreeBut
  <2>4. \A d \in Calls : pc'[d] \in Working => d = c
    BY <1>5 DEF Edit
  <2>5. package' = package /\ rule' = rule /\ pc' = [pc EXCEPT ![c] = "add"] /\ lock' = lock
    BY <1>5 DEF Edit
  <2>6. LockHeld'
    <3>1. pc[c] = "edit" /\ lock = c
      BY <1>5 DEF Edit
    <3>2. \A a \in Actors : pc'[a] \in Working => lock' = a
      BY <2>5, <3>1
    <3>3. \A d \in Calls : package'[d] = package[d] /\ rule'[d] = rule[d]
      BY <2>5
    <3>4. \A d \in Calls : pc'[d] # "idle" => package[d] \in Packages /\ rule[d] \in Rules
      BY <2>1, <2>5
    <3> QED BY <3>2, <3>3, <3>4
  <2>8. NoLeftover'
    BY <2>5
  <2>9. FileIsThere'
    BY <2>2, <2>4, <2>5
  <2>7. ASSUME Clean', NEW d \in Calls
        PROVE  /\ pc'[d] \in {"configure", "branch", "edit"} => tree' = base'
               /\ pc'[d] \in {"add", "commit"} => AgreeBut(package'[d], tree', base')
               /\ pc'[d] = "push" => AgreeBut(package'[d], head', base')
    BY <2>3, <2>4, <2>5, <2>7
  <2> QED BY <2>6, <2>7, <2>8, <2>9
<1>6. ASSUME NEW c \in Calls, Add(c) \/ Commit(c) PROVE Goal
  BY <1>6 DEF Add, Commit
<1>7. ASSUME NEW c \in Calls, Push(c) \/ CheckoutFails(c) \/ CommitFails(c) \/ PushRejected(c)
      PROVE  Goal
  BY <1>7 DEF Push, CheckoutFails, CommitFails, PushRejected
<1>8. ASSUME NEW c \in Calls,
             FindPr(c) \/ HttpFails(c) \/ OpenPr(c) \/ OpenPrRefused(c) \/ Comment(c)
      PROVE  Goal
  BY <1>8 DEF FindPr, HttpFails, OpenPr, OpenPrRefused, Comment
<1>9. ASSUME NEW c \in Calls, GitFails(c) PROVE Goal
  BY <1>9, FaultCounts DEF GitFails
<1>10. ASSUME Reviewing PROVE Goal
  <2>1. UNCHANGED <<work, lock, pc, request>>
    BY <1>10 DEF Reviewing, Merge, MergeOther, OpenByHand, Close, Amend, EditMain
  <2> QED BY <2>1 DEF AgreeBut
<1>11. ASSUME NEW h \in Hooks, Webhook(h) \/ RequestReload(h) \/ Copy(h) \/ CopyNothing(h)
       PROVE  Goal
  BY <1>11 DEF Webhook, RequestReload, Copy, CopyNothing
<1>12. ASSUME NEW h \in Hooks, RefreshFails(h) PROVE Goal
  BY <1>12, FaultCounts DEF RefreshFails
<1>13. ASSUME NEW a \in Reloaders, Reload(a) PROVE Goal
  BY <1>13 DEF Reload, ReadLocal, SwapLive, Reloaders
<1>14. ASSUME FirstTick \/ Tick \/ WebhookLost \/ UNCHANGED vars PROVE Goal
  BY <1>14 DEF FirstTick, Tick, WebhookLost, vars
<1>15. ASSUME Crash PROVE Goal
  BY <1>15, FaultCounts DEF Crash
<1> HIDE DEF Goal
<1>16. /\ Calls \subseteq Actors
       /\ Hooks \subseteq Actors
       /\ Hooks \subseteq Reloaders
       /\ Poller \in Reloaders
  BY DEF Reloaders
<1>17. ASSUME NEW c \in Calls, Proceed(c) \/ Fails(c) PROVE Goal
  BY <1>17, <1>2, <1>3, <1>4, <1>5, <1>6, <1>7, <1>8, <1>9, <1>16 DEF Proceed, Fails, Refresh
<1>18. ASSUME NEW h \in Hooks, HookProceed(h) PROVE Goal
  BY <1>18, <1>2, <1>3, <1>11, <1>13, <1>16 DEF HookProceed, Refresh
<1>19. ASSUME Poll PROVE Goal
  BY <1>19, <1>13, <1>14, <1>16 DEF Poll
<1>20. Goal
  BY <1>1, <1>10, <1>11, <1>12, <1>14, <1>15, <1>17, <1>18, <1>19 DEF Next
<1> QED BY <1>20 DEF Goal

-----------------------------------------------------------------------------
(* What has been on the default branch, and the branches of the proposals. *)

LEMMA NextReviewed ==
    ASSUME PullInv, [Next]_vars
    PROVE  Reviewed'
<1>t. /\ GitHubTypeOK /\ LockHeld /\ NoLeftover /\ Reviewed
      /\ Poller \notin Calls \cup Hooks /\ Calls \cap Hooks = {} /\ Nobody \notin Actors
  BY GitHubAssumption DEF PullInv, GitHubAssumption
<1>m. /\ count'.faults = 0 => count.faults = 0
      /\ mains \subseteq mains'
      /\ main' \in mains'
  BY Counted
<1>n. Trusted' => Trusted
  BY <1>m DEF Trusted
<1>r. Reloaders = Hooks \cup {Poller} /\ Reloaders \subseteq Actors
  BY DEF Reloaders, Actors
<1>1. ASSUME UNCHANGED <<tree, seen, local, live>>,
             \A a \in Reloaders : pc'[a] \in {"configure", "copy", "swap"} => pc'[a] = pc[a]
      PROVE  Reviewed'
  BY <1>1, <1>m, <1>n, <1>t, <1>r DEF Reviewed
<1> USE DEF remote, work, request, server, history, Go, Ends
<1>2. ASSUME NEW c \in Calls,
             \/ \E p \in Packages, r \in Rules : Propose(c, p, r)
             \/ Acquire(c) \/ CheckoutNew(c) \/ CheckoutFails(c) \/ Add(c) \/ Commit(c)
             \/ CommitFails(c) \/ Push(c) \/ PushRejected(c) \/ FindPr(c) \/ OpenPr(c)
             \/ OpenPrRefused(c) \/ Comment(c) \/ Fails(c) \/ Configure(c)
      PROVE  Reviewed'
  <2>1. UNCHANGED <<tree, seen, local, live>>
    BY <1>2 DEF Propose, Acquire, CheckoutNew, CheckoutFails, Add, Commit, CommitFails, Push,
       PushRejected, FindPr, OpenPr, OpenPrRefused, Comment, Fails, GitFails, HttpFails,
       Configure
  <2>2. \A a \in Reloaders : pc'[a] = pc[a]
    BY <1>2, <1>t, <1>r
    DEF Propose, Acquire, CheckoutNew, CheckoutFails, Add, Commit, CommitFails, Push,
       PushRejected, FindPr, OpenPr, OpenPrRefused, Comment, Fails, GitFails, HttpFails,
       Configure, GitHubTypeOK
  <2> QED BY <2>1, <2>2, <1>1
<1>3. ASSUME NEW a \in Actors, Clone(a) \/ Reset(a) \/ Configure(a) PROVE Reviewed'
  <2>1. pc[a] \in {"refresh", "configure"} /\ lock = a
    BY <1>3, <1>t DEF Clone, Reset, Configure, LockHeld, Working
  <2>2. \A b \in Actors \ {a} : pc'[b] = pc[b] /\ pc[b] \notin Working
    BY <1>3, <1>t, <2>1 DEF Clone, Reset, Configure, LockHeld, GitHubTypeOK
  <2>3. Trusted => tree' \in mains \/ pc[a] = "configure"
    <3>1. CASE Clone(a)
      BY <3>1, <1>t DEF Clone, Reviewed
    <3>2. CASE Reset(a)
      <4>1. count.faults = 0 => tree = NoFile \/ tracked
        BY <3>2, <1>t, <2>1, <2>2 DEF NoLeftover, Reset, Working, Actors
      <4>2. tree' = main \/ (main = NoFile /\ tree' = tree /\ ~tracked)
        BY <3>2 DEF Reset
      <4> QED BY <4>1, <4>2, <1>t DEF Reviewed, Trusted
    <3> QED BY <1>3, <3>1, <3>2 DEF Configure
  <2>4. Trusted => \A h \in Hooks : pc'[h] \in {"configure", "copy"} => tree' \in mains
    <3>1. \A h \in Hooks : pc'[h] \in {"configure", "copy"} => h = a
      BY <2>2, <1>r DEF Working
    <3>2. pc[a] = "configure" /\ a \in Hooks => (Trusted => tree' \in mains)
      BY <1>3, <1>t DEF Reviewed, Clone, Reset, Configure
    <3> QED BY <2>3, <3>1, <3>2
  <2>5. \A b \in Reloaders : pc'[b] = "swap" => pc[b] = "swap"
    BY <1>3, <1>t, <1>r, <2>2 DEF Clone, Reset, Configure, GitHubTypeOK, Refreshed
  <2>6. UNCHANGED <<seen, local, live>>
    BY <1>3 DEF Clone, Reset, Configure
  <2> QED BY <2>4, <2>5, <2>6, <1>m, <1>n, <1>t DEF Reviewed
<1>4. ASSUME NEW c \in Calls, Edit(c) PROVE Reviewed'
  <2>1. \A h \in Hooks : pc'[h] = pc[h] /\ pc[h] \notin {"configure", "copy"}
    BY <1>4, <1>t DEF Edit, LockHeld, Working, Actors, GitHubTypeOK
  <2>2. \A b \in Reloaders : pc'[b] = pc[b]
    BY <1>4, <1>t, <1>r DEF Edit, GitHubTypeOK
  <2>3. UNCHANGED <<seen, local, live>>
    BY <1>4 DEF Edit
  <2> QED BY <2>1, <2>2, <2>3, <1>m, <1>n, <1>t DEF Reviewed
<1>5. ASSUME Reviewing \/ WebhookLost \/ FirstTick \/ UNCHANGED vars PROVE Reviewed'
  <2>1. UNCHANGED <<tree, seen, local, live, pc>>
    BY <1>5 DEF Reviewing, Merge, MergeOther, OpenByHand, Close, Amend, EditMain, WebhookLost,
       FirstTick, vars
  <2> QED BY <2>1, <1>1
<1>6. ASSUME NEW a \in Reloaders,
             \/ Acquire(a) \/ CopyNothing(a) \/ Webhook(a) \/ RefreshFails(a)
             \/ RequestReload(a) \/ (a = Poller /\ Tick)
      PROVE  Reviewed'
  <2>1. UNCHANGED <<tree, seen, local, live>>
    BY <1>6 DEF Acquire, CopyNothing, Webhook, RefreshFails, RequestReload, Tick
  <2>2. pc' \in {[pc EXCEPT ![a] = s] : s \in {"refresh", "reload", "lock"}}
    BY <1>6 DEF Acquire, CopyNothing, Webhook, RefreshFails, RequestReload, Tick
  <2>3. \A b \in Reloaders : pc'[b] \in {"configure", "copy", "swap"} => pc'[b] = pc[b]
    BY <2>2, <1>t, <1>r DEF GitHubTypeOK
  <2> QED BY <2>1, <2>3, <1>1
<1>7. ASSUME NEW h \in Hooks, Copy(h) PROVE Reviewed'
  <2>1. local'.content = tree /\ (Trusted => tree \in mains)
    BY <1>7, <1>t DEF Copy, Reviewed
  <2>2. \A b \in Reloaders : pc'[b] \in {"configure", "copy", "swap"} => pc'[b] = pc[b]
    BY <1>7, <1>t, <1>r DEF Copy, GitHubTypeOK
  <2>3. UNCHANGED <<tree, seen, live>>
    BY <1>7 DEF Copy
  <2> QED BY <2>1, <2>2, <2>3, <1>m, <1>n, <1>t, <1>r DEF Reviewed
<1>8. ASSUME NEW a \in Reloaders, ReadLocal(a) PROVE Reviewed'
  <2>1. /\ seen' = [seen EXCEPT ![a] = local.content]
        /\ pc' = [pc EXCEPT ![a] = "swap"]
        /\ UNCHANGED <<tree, local, live>>
    BY <1>8 DEF ReadLocal
  <2> QED BY <2>1, <1>m, <1>n, <1>t, <1>r DEF Reviewed, GitHubTypeOK
<1>9. ASSUME NEW a \in Reloaders, SwapLive(a) PROVE Reviewed'
  <2>1. /\ live' = seen[a]
        /\ seen' = [seen EXCEPT ![a] = Empty]
        /\ pc' = [pc EXCEPT ![a] = "idle"]
        /\ pc[a] = "swap"
        /\ UNCHANGED <<tree, local>>
    BY <1>9 DEF SwapLive
  <2> QED BY <2>1, <1>m, <1>n, <1>t, <1>r DEF Reviewed, GitHubTypeOK
<1>10. ASSUME Crash PROVE Reviewed'
  <2>1. live' = local.content /\ UNCHANGED <<tree, local>> /\ \A a \in Reloaders : pc'[a] = "idle"
    BY <1>10, <1>r DEF Crash
  <2> QED BY <2>1, <1>m, <1>n, <1>t, <1>r DEF Reviewed
<1> QED
  <2>1. Calls \subseteq Actors /\ Hooks \subseteq Reloaders /\ Poller \in Reloaders
        /\ Hooks \subseteq Actors
    BY DEF Actors, Reloaders
  <2>2. ASSUME NEW c \in Calls, Proceed(c) PROVE Reviewed'
    BY <2>1, <2>2, <1>2, <1>3, <1>4 DEF Proceed, Refresh
  <2>3. ASSUME NEW h \in Hooks, HookProceed(h) PROVE Reviewed'
    BY <2>1, <2>3, <1>3, <1>6, <1>7, <1>8, <1>9 DEF HookProceed, Refresh, Reload
  <2>4. ASSUME Poll PROVE Reviewed'
    BY <2>1, <2>4, <1>5, <1>6, <1>8, <1>9 DEF Poll, Reload
  <2> QED BY <2>1, <2>2, <2>3, <2>4, <1>2, <1>5, <1>6, <1>10 DEF Next

LEMMA NextPulls ==
    ASSUME PullInv, [Next]_vars
    PROVE  PullsHaveBranches' /\ PullsAreForOnePackage'
<1>t. /\ GitHubTypeOK /\ LockHeld /\ FileIsThere /\ TreeIsOwn /\ PullsHaveBranches
      /\ PullsAreForOnePackage
  BY DEF PullInv
<1>n. NoBranch \notin Branch /\ NoFile \notin Content
  BY GitHubAssumption DEF GitHubAssumption
<1>m. count'.faults = 0 => count.faults = 0
  BY Counted
<1> DEFINE Goal == PullsHaveBranches' /\ PullsAreForOnePackage'
<1>1. ASSUME UNCHANGED <<pulls, branch>> PROVE Goal
  BY <1>1, <1>t, <1>m DEF PullsHaveBranches, PullsAreForOnePackage
<1>2. ASSUME NEW c \in Calls, Push(c) PROVE Goal
  <2>1. /\ package[c] \in Packages
        /\ Clean => AgreeBut(package[c], head, base)
        /\ head \in Content
        /\ RulesOf(head) = head
    BY <1>2, <1>t, <1>n DEF Push, LockHeld, TreeIsOwn, FileIsThere, RulesOf
  <2>2. /\ branch' = [branch EXCEPT ![package[c]] = [base |-> base, content |-> head]]
        /\ pulls' = pulls
        /\ package[c] \notin pulls
        /\ count' = count
    BY <1>2, <1>t DEF Push, PullsHaveBranches
  <2>3. PullsHaveBranches'
    BY <2>1, <2>2, <1>t DEF PullsHaveBranches, GitHubTypeOK
  <2>4. PullsAreForOnePackage'
    BY <2>1, <2>2, <1>t DEF PullsAreForOnePackage, AgreeBut, Clean, GitHubTypeOK
  <2> QED BY <2>3, <2>4
<1>3. ASSUME NEW c \in Calls, OpenPr(c) PROVE Goal
  <2>1. branch' = branch /\ pulls' = pulls \cup {package[c]} /\ branch[package[c]] # NoBranch
        /\ count' = count
    BY <1>3 DEF OpenPr, Acceptable
  <2> QED BY <2>1, <1>t DEF PullsHaveBranches, PullsAreForOnePackage
<1>4. ASSUME NEW p \in Packages, OpenByHand(p) PROVE Goal
  BY <1>4, <1>t, <1>m DEF OpenByHand, Acceptable, PullsHaveBranches, PullsAreForOnePackage
<1>5. ASSUME NEW p \in Packages, Merge(p) \/ Close(p) PROVE Goal
  <2>1. pulls' = pulls \ {p} /\ branch' \in {branch, [branch EXCEPT ![p] = NoBranch]}
    BY <1>5 DEF Merge, Close
  <2> QED
    BY <2>1, <1>t, <1>m DEF PullsHaveBranches, PullsAreForOnePackage, GitHubTypeOK
<1>6. ASSUME NEW p \in Packages, NEW r \in Rules \cup {NoRule}, Amend(p, r) PROVE Goal
  <2>1. branch[p] \in Branch /\ p \in pulls /\ pulls' = pulls
    BY <1>6, <1>t DEF Amend, PullsHaveBranches, GitHubTypeOK
  <2>2. \A q \in Packages \ {p} : branch'[q] = branch[q]
    BY <1>6, <1>t DEF Amend, GitHubTypeOK
  <2>3. branch'[p] = [base |-> branch[p].base,
                      content |-> [branch[p].content EXCEPT ![p] = r]]
    BY <1>6, <1>t, <2>1 DEF Amend, Branch, GitHubTypeOK
  <2>4. branch'[p] \in Branch
    BY <2>1, <2>3 DEF Branch, Content
  <2>5. PullsHaveBranches'
    BY <2>1, <2>2, <2>4, <1>n, <1>t DEF PullsHaveBranches, GitHubTypeOK
  <2>6. branch[p].base # NoFile \/ count'.faults = 0 =>
          \A q \in Packages \ {p} : branch'[p].content[q] = RulesOf(branch'[p].base)[q]
    BY <2>1, <2>3, <1>t, <1>n, <1>m DEF PullsAreForOnePackage, Branch, Content
  <2>7. branch'[p].base = branch[p].base
    BY <2>3
  <2> QED BY <2>2, <2>5, <2>6, <2>7, <1>t, <1>m DEF PullsAreForOnePackage
<1>7. ASSUME NEW c \in Calls,
             \/ \E p \in Packages, r \in Rules : Propose(c, p, r)
             \/ Refresh(c) \/ CheckoutNew(c) \/ CheckoutFails(c) \/ Edit(c) \/ Add(c)
             \/ Commit(c) \/ CommitFails(c) \/ PushRejected(c) \/ FindPr(c)
             \/ OpenPrRefused(c) \/ Comment(c) \/ Fails(c)
      PROVE  Goal
  <2>1. UNCHANGED <<pulls, branch>>
    BY <1>7 DEF remote, Propose, Refresh, Acquire, Clone, Configure, Reset, CheckoutNew,
       CheckoutFails, Edit, Add, Commit, CommitFails, PushRejected, FindPr, OpenPrRefused,
       Comment, Fails, GitFails, HttpFails
  <2> QED BY <1>1, <2>1
<1>8. ASSUME NEW h \in Hooks,
             Webhook(h) \/ HookProceed(h) \/ RefreshFails(h) \/ RequestReload(h)
      PROVE  Goal
  <2>1. UNCHANGED <<pulls, branch>>
    BY <1>8 DEF remote, Webhook, HookProceed, Refresh, Acquire, Clone, Configure, Reset, Copy,
       CopyNothing, Reload, ReadLocal, SwapLive, RefreshFails, RequestReload
  <2> QED BY <1>1, <2>1
<1>9. ASSUME WebhookLost \/ Poll \/ Crash \/ UNCHANGED vars PROVE Goal
  <2>1. UNCHANGED <<pulls, branch>>
    BY <1>9 DEF vars, remote, WebhookLost, Poll, FirstTick, Tick, Reload, ReadLocal, SwapLive,
       Crash
  <2> QED BY <1>1, <2>1
<1>10. ASSUME NEW file, MergeOther \/ EditMain(file) PROVE Goal
  BY <1>10, <1>1 DEF MergeOther, EditMain
<1> HIDE DEF Goal
<1>11. ASSUME Reviewing PROVE Goal
  BY <1>11, <1>4, <1>5, <1>6, <1>10 DEF Reviewing
<1>12. ASSUME NEW c \in Calls, Proceed(c) PROVE Goal
  BY <1>12, <1>2, <1>3, <1>7 DEF Proceed
<1>13. Goal
  BY <1>7, <1>8, <1>9, <1>11, <1>12 DEF Next
<1> QED BY <1>13 DEF Goal

-----------------------------------------------------------------------------

LEMMA NextPullInv == PullInv /\ [Next]_vars => PullInv'
BY NextTypeOK, NextCloneInv, NextReviewed, NextPulls DEF PullInv

\* Whoever uses the clone holds the lock, and what it is about to push or to
\* swap in is of one package, or has been on the default branch; a file that git
\* does not track is only left behind by a fault.
THEOREM PullInvariant == Spec => []PullInv
BY InitPullInv, NextPullInv, PTL DEF Spec

\* Every variable of GitHub keeps its type.
THEOREM GitHubTypeCorrect == Spec => []GitHubTypeOK
<1>1. PullInv => GitHubTypeOK
  BY DEF PullInv
<1> QED BY <1>1, PullInvariant, PTL

\* Whatever the server uses or keeps on disk has been on the default branch,
\* although proposals, webhooks and reloads share one clone and one file and any
\* step may fail; without a fault always, with faults as long as the default branch
\* has always had a registry file.
THEOREM OnlyReviewedGoesLive == Spec => []OnlyReviewedIsLive
<1>1. PullInv => OnlyReviewedIsLive
  BY DEF PullInv, Reviewed, Trusted, OnlyReviewedIsLive
<1> QED BY <1>1, PullInvariant, PTL

\* A branch changes the rule of its own package and nothing else, unless it was
\* made after a fault from a default branch that has no registry file.
THEOREM BranchesAreForOnePackage == Spec => []PullsAreForOnePackage
<1>1. PullInv => PullsAreForOnePackage
  BY DEF PullInv
<1> QED BY <1>1, PullInvariant, PTL

\* What a review has made of an open pull request is never pushed over: the push
\* needs that its branch is not on the remote, and an open request has one.
THEOREM ReviewsAreKept == Spec => ReviewIsKept
<1>1. PullInv /\ [Next]_vars =>
        (\A c \in Calls, p \in pulls : pc[c] = "push" /\ pc'[c] # "push" =>
           branch'[p] = branch[p])
  <2> SUFFICES ASSUME PullInv, [Next]_vars, NEW c \in Calls, NEW p \in pulls,
                      pc[c] = "push", pc'[c] # "push"
               PROVE  branch'[p] = branch[p]
    OBVIOUS
  <2>t. GitHubTypeOK /\ PullsHaveBranches
    BY DEF PullInv
  <2>1. ASSUME NEW d \in Calls, Push(d) PROVE branch'[p] = branch[p]
    <3>1. package[d] # p
      BY <2>1, <2>t DEF Push, PullsHaveBranches
    <3> QED BY <2>1, <3>1, <2>t DEF Push, GitHubTypeOK
  <2>2. ASSUME Reviewing PROVE FALSE
    BY <2>2 DEF Reviewing, Merge, MergeOther, OpenByHand, Close, Amend, EditMain
  <2>3. CASE \/ \E d \in Calls :
                 \/ \E q \in Packages, r \in Rules : Propose(d, q, r)
                 \/ Refresh(d) \/ CheckoutNew(d) \/ CheckoutFails(d) \/ Edit(d) \/ Add(d)
                 \/ Commit(d) \/ CommitFails(d) \/ PushRejected(d) \/ FindPr(d) \/ OpenPr(d)
                 \/ OpenPrRefused(d) \/ Comment(d) \/ Fails(d)
             \/ \E h \in Hooks :
                  Webhook(h) \/ HookProceed(h) \/ RefreshFails(h) \/ RequestReload(h)
             \/ WebhookLost \/ Poll \/ Crash \/ UNCHANGED vars
    BY <2>3 DEF vars, remote, Propose, Refresh, Acquire, Clone, Configure, Reset,
       CheckoutNew, CheckoutFails, Edit, Add, Commit, CommitFails, PushRejected, FindPr,
       OpenPr, OpenPrRefused, Comment, Fails, GitFails, HttpFails, Webhook, WebhookLost,
       HookProceed, Copy, CopyNothing, Reload, ReadLocal, SwapLive, RefreshFails,
       RequestReload, Poll, FirstTick, Tick, Crash
  <2> QED BY <2>1, <2>2, <2>3 DEF Next, Proceed
<1> QED BY PullInvariant, <1>1, PTL DEF Spec, ReviewIsKept

=============================================================================
