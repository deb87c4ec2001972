------------------------------- MODULE GitHub -------------------------------
(***************************************************************************)
(* GitHubProposer (proposer/github.py) and the way back through the        *)
(* webhook (api/v1/registry.py): proposals share one shallow clone under   *)
(* a lock, push a branch per package, and open a pull request after the    *)
(* lock; a reviewer merges it; the webhook fetches the default branch into *)
(* REGISTRY_PATH and reloads.                                              *)
(*                                                                         *)
(* git and GitHub are external and modelled by what they answer.  The      *)
(* clone is made with --depth 1, hence with --single-branch, so it has a   *)
(* remote-tracking branch for the default branch only: a proposal branch   *)
(* that exists on the remote can be fetched, but "origin/<branch>" cannot  *)
(* be checked out, and --force-with-lease expects it not to exist.  The    *)
(* default branch may have no registry file; a file that git does not      *)
(* track survives its resets.                                              *)
(*                                                                         *)
(* Only the refresh of a webhook runs under the lock; what follows it, the *)
(* reload, may overlap those of other webhooks, of the endpoint and of the *)
(* poller.  Validation and the marking of rows are RegistryReload's; here  *)
(* every version validates.                                                *)
(***************************************************************************)
EXTENDS Naturals

CONSTANTS
    Calls,        \* proposals in progress at once
    Hooks,        \* handlers of webhooks, and of POST /registry/reload
    Poller,       \* the task that looks at the mtime
    Packages,
    Rules,
    NoRule,       \* the package is not in the registry, nothing is asked for
    NoBranch,     \* the branch is not on the remote
    NoFile,       \* there is no registry file
    Nobody,       \* nobody holds the lock
    MaxRequests,  \* bound: proposals, merges of other requests, reloads asked for
    MaxReviews,   \* bound: what reviewers do beside merging
    MaxFaults     \* bound: failing git and HTTP calls, lost deliveries, crashes

Actors == Calls \cup Hooks \cup {Poller}
Reloaders == Hooks \cup {Poller}

Content == [Packages -> Rules \cup {NoRule}]
File == Content \cup {NoFile}
Branch == [base : File, content : Content]

ASSUME GitHubAssumption ==
    /\ Calls \cap Hooks = {}
    /\ Poller \notin Calls \cup Hooks
    /\ Nobody \notin Actors
    /\ NoRule \notin Rules
    /\ NoBranch \notin Branch
    /\ NoFile \notin Content
    /\ MaxRequests \in Nat
    /\ MaxReviews \in Nat
    /\ MaxFaults \in Nat

VARIABLES
    \* the remote
    main,      \* the registry file on the default branch
    branch,    \* the proposal branch of each package
    pulls,     \* the packages with an open pull request
    merges,    \* deliveries for merged pull requests on their way
    \* the shared clone
    clone,     \* what there is of it
    tree,      \* the registry file in its working tree
    tracked,   \* it is in the index
    head,      \* the registry file in its last commit
    base,      \* the one it was refreshed to
    lock,      \* GitHubProposer._lock
    \* the calls and the reloads
    pc, package, rule,
    seen,      \* the document a reload has read
    \* the server
    local,     \* REGISTRY_PATH; json: startup can parse it
    live,      \* the registry in memory
    poll,      \* _last_mtime (0: the poller has not looked yet), mtime of its tick
    \* history and bounds
    mains,     \* what the default branch has held, and what was deployed
    overlapped, \* two handlers have been at their swap at the same time
    count      \* requests, reviews, direct edits and faults so far

remote == <<main, branch, pulls, merges>>
work == <<clone, tree, tracked, head, base>>
request == <<package, rule>>
server == <<local, live, poll>>
history == <<mains, overlapped>>
vars == <<remote, work, lock, pc, request, seen, server, history, count>>

PcStates == {"idle", "lock", "refresh", "configure", "branch", "edit", "add", "commit",
             "push", "find", "open", "comment", "copy", "reload", "swap"}
Empty == [p \in Packages |-> NoRule]

Init ==
    /\ main \in {Empty, NoFile}
    /\ branch = [p \in Packages |-> NoBranch]
    /\ pulls = {}
    /\ merges = 0
    /\ clone = "absent"
    /\ tree = NoFile
    /\ tracked = FALSE
    /\ head = NoFile
    /\ base = NoFile
    /\ lock = Nobody
    /\ pc = [a \in Actors |-> "idle"]
    /\ package = [c \in Calls |-> NoRule]
    /\ rule = [c \in Calls |-> NoRule]
    /\ seen = [r \in Reloaders |-> Empty]
    /\ local = [content |-> Empty, json |-> TRUE, mtime |-> 1]
    /\ live = Empty
    /\ poll = [last |-> 0, mtime |-> 0]
    /\ mains = {main, Empty}
    /\ overlapped = FALSE
    /\ count = [requests |-> 0, reviews |-> 0, edits |-> 0, faults |-> 0]

-----------------------------------------------------------------------------

Go(a, next) == pc' = [pc EXCEPT ![a] = next]
Ends(c) ==
    /\ Go(c, "idle")
    /\ package' = [package EXCEPT ![c] = NoRule]
    /\ rule' = [rule EXCEPT ![c] = NoRule]
Fault == count.faults < MaxFaults /\ count' = [count EXCEPT !.faults = @ + 1]
Review == count.reviews < MaxReviews /\ count' = [count EXCEPT !.reviews = @ + 1]
Request == count.requests < MaxRequests /\ count' = [count EXCEPT !.requests = @ + 1]

\* Calls and handlers are slots: of the free ones, any may be taken.
Free(slots) == CHOOSE a \in slots : pc[a] = "idle"

Propose(c, p, r) ==
    /\ pc[c] = "idle"
    /\ c = Free(Calls)
    /\ Request
    /\ package' = [package EXCEPT ![c] = p]
    /\ rule' = [rule EXCEPT ![c] = r]
    /\ Go(c, "lock")
    /\ UNCHANGED <<remote, work, lock, seen, server, history>>

\* Mutant: nobody waits for the lock.
AcquireUnlocked(a) ==
    /\ pc[a] = "lock"
    /\ lock' = a
    /\ Go(a, "refresh")
    /\ UNCHANGED <<remote, work, request, seen, server, history, count>>

Acquire(a) ==
    /\ pc[a] = "lock"
    /\ lock = Nobody
    /\ lock' = a
    /\ Go(a, "refresh")
    /\ UNCHANGED <<remote, work, request, seen, server, history, count>>

\* _clone_or_refresh: what follows it in propose and in refresh_local_yaml.
Refreshed(a) == IF a \in Hooks THEN "copy" ELSE "branch"

\* git clone --depth 1 ...
Clone(a) ==
    /\ pc[a] = "refresh"
    /\ clone = "absent"
    /\ clone' = "unconfigured"
    /\ tree' = main
    /\ tracked' = (main # NoFile)
    /\ head' = main
    /\ base' = main
    /\ Go(a, "configure")
    /\ UNCHANGED <<remote, lock, request, seen, server, history, count>>

\* ... git config user.name and user.email.
Configure(a) ==
    /\ pc[a] = "configure"
    /\ clone' = "ready"
    /\ Go(a, Refreshed(a))
    /\ UNCHANGED <<remote, tree, tracked, head, base, lock, request, seen, server, history, count>>

\* Mutant: the clone is fetched and not reset.
ResetForgotten(a) ==
    /\ pc[a] = "refresh"
    /\ clone # "absent"
    /\ Go(a, Refreshed(a))
    /\ UNCHANGED <<remote, work, lock, request, seen, server, history, count>>

\* git fetch, checkout and reset --hard to the default branch: what the index has
\* goes, a file that git does not track stays unless the default branch has one.
Reset(a) ==
    /\ pc[a] = "refresh"
    /\ clone # "absent"
    /\ tree' = IF tracked \/ main # NoFile THEN main ELSE tree
    /\ tracked' = (main # NoFile)
    /\ head' = main
    /\ base' = main
    /\ Go(a, Refreshed(a))
    /\ UNCHANGED <<remote, clone, lock, request, seen, server, history, count>>

\* The proposal branch is not on the remote, or cannot be fetched, which the
\* code takes for the same.
CheckoutNew(c) ==
    /\ pc[c] = "branch"
    /\ \/ branch[package[c]] = NoBranch /\ UNCHANGED count
       \/ branch[package[c]] # NoBranch /\ Fault
    /\ Go(c, "edit")
    /\ UNCHANGED <<remote, work, lock, request, seen, server, history>>

\* The branch is fetched, and git does not know origin/<branch>.
CheckoutFails(c) ==
    /\ pc[c] = "branch"
    /\ branch[package[c]] # NoBranch
    /\ lock' = Nobody
    /\ Ends(c)
    /\ UNCHANGED <<remote, work, seen, server, history, count>>

\* What a file says; without one, _edit_yaml starts a new document.
RulesOf(file) == IF file = NoFile THEN Empty ELSE file

\* The file is written, or says it already.
Edit(c) ==
    /\ pc[c] = "edit"
    /\ tree' = [RulesOf(tree) EXCEPT ![package[c]] = rule[c]]
    /\ Go(c, "add")
    /\ UNCHANGED <<remote, clone, tracked, head, base, lock, request, seen, server, history, count>>

Add(c) ==
    /\ pc[c] = "add"
    /\ tracked' = TRUE
    /\ Go(c, "commit")
    /\ UNCHANGED <<remote, clone, tree, head, base, lock, request, seen, server, history, count>>

Commit(c) ==
    /\ pc[c] = "commit"
    /\ clone = "ready"
    /\ tree # head
    /\ head' = tree
    /\ Go(c, "push")
    /\ UNCHANGED <<remote, clone, tree, tracked, base, lock, request, seen, server, history, count>>

\* There is nothing to commit, which git says on stdout, or git does not know
\* who commits.
CommitFails(c) ==
    /\ pc[c] = "commit"
    /\ clone # "ready" \/ tree = head
    /\ lock' = Nobody
    /\ Ends(c)
    /\ UNCHANGED <<remote, work, seen, server, history, count>>

\* Mutant: the push is not leased.
PushForced(c) ==
    /\ pc[c] = "push"
    /\ branch' = [branch EXCEPT ![package[c]] = [base |-> base, content |-> head]]
    /\ lock' = Nobody
    /\ Go(c, "find")
    /\ UNCHANGED <<main, pulls, merges, work, request, seen, server, history, count>>

\* git push --force-with-lease.
Push(c) ==
    /\ pc[c] = "push"
    /\ branch[package[c]] = NoBranch
    /\ branch' = [branch EXCEPT ![package[c]] = [base |-> base, content |-> head]]
    /\ lock' = Nobody
    /\ Go(c, "find")
    /\ UNCHANGED <<main, pulls, merges, work, request, seen, server, history, count>>

PushRejected(c) ==
    /\ pc[c] = "push"
    /\ branch[package[c]] # NoBranch
    /\ lock' = Nobody
    /\ Ends(c)
    /\ UNCHANGED <<remote, work, seen, server, history, count>>

\* A git command fails: the proposal ends, the working tree stays as it is.
GitFails(c) ==
    /\ pc[c] \in {"refresh", "configure", "branch", "edit", "add", "commit", "push"}
    /\ Fault
    /\ lock' = Nobody
    /\ Ends(c)
    /\ UNCHANGED <<remote, work, seen, server, history>>

\* _find_open_pr, after the lock; an answer other than 200 is no answer.
FindPr(c) ==
    /\ pc[c] = "find"
    /\ \/ package[c] \in pulls /\ Go(c, "comment") /\ UNCHANGED count
       \/ package[c] \notin pulls /\ Go(c, "open") /\ UNCHANGED count
       \/ package[c] \in pulls /\ Go(c, "open") /\ Fault
    /\ UNCHANGED <<remote, work, lock, request, seen, server, history>>

\* GitHub accepts a pull request for a branch that differs from its base and
\* has none open.
Acceptable(p) ==
    /\ p \notin pulls
    /\ branch[p] # NoBranch
    /\ branch[p].content # branch[p].base

OpenPr(c) ==
    /\ pc[c] = "open"
    /\ Acceptable(package[c])
    /\ pulls' = pulls \cup {package[c]}
    /\ Ends(c)
    /\ UNCHANGED <<main, branch, merges, work, lock, seen, server, history, count>>

OpenPrRefused(c) ==
    /\ pc[c] = "open"
    /\ ~Acceptable(package[c])
    /\ Ends(c)
    /\ UNCHANGED <<remote, work, lock, seen, server, history, count>>

\* A refused comment is only logged.
Comment(c) ==
    /\ pc[c] = "comment"
    /\ Ends(c)
    /\ UNCHANGED <<remote, work, lock, seen, server, history, count>>

HttpFails(c) ==
    /\ pc[c] \in {"find", "open", "comment"}
    /\ Fault
    /\ Ends(c)
    /\ UNCHANGED <<remote, work, lock, seen, server, history>>

-----------------------------------------------------------------------------
(* The reviewers.                                                          *)

MainBecomes(file) == main' = file /\ mains' = mains \cup {file}

\* A three-way merge, of a file that is on both sides or on neither; the branch
\* may be deleted with it.
Merge(p) ==
    /\ p \in pulls
    /\ main = NoFile <=> branch[p].base = NoFile
    /\ MainBecomes([q \in Packages |->
                      IF branch[p].content[q] # RulesOf(branch[p].base)[q]
                      THEN branch[p].content[q] ELSE RulesOf(main)[q]])
    /\ pulls' = pulls \ {p}
    /\ branch' \in {branch, [branch EXCEPT ![p] = NoBranch]}
    /\ merges' = merges + 1
    /\ UNCHANGED <<work, lock, pc, request, seen, server, overlapped, count>>

\* A pull request about something else in the repository.
MergeOther ==
    /\ Request
    /\ merges' = merges + 1
    /\ UNCHANGED <<main, branch, pulls, work, lock, pc, request, seen, server, history>>

\* A reviewer edits the rule, or takes it out, before merging,
Amend(p, r) ==
    /\ p \in pulls
    /\ Review
    /\ branch' = [branch EXCEPT ![p].content[p] = r]
    /\ UNCHANGED <<main, pulls, merges, work, lock, pc, request, seen, server, history>>

\* opens the request of a pushed branch by hand,
OpenByHand(p) ==
    /\ Acceptable(p)
    /\ Review
    /\ pulls' = pulls \cup {p}
    /\ UNCHANGED <<main, branch, merges, work, lock, pc, request, seen, server, history>>

\* turns the request down,
Close(p) ==
    /\ p \in pulls
    /\ Review
    /\ pulls' = pulls \ {p}
    /\ branch' \in {branch, [branch EXCEPT ![p] = NoBranch]}
    /\ UNCHANGED <<main, merges, work, lock, pc, request, seen, server, history>>

\* or pushes to the default branch, of which the webhook ignores the delivery.
EditMain(file) ==
    /\ count.requests < MaxRequests
    /\ count' = [count EXCEPT !.requests = @ + 1, !.edits = @ + 1]
    /\ MainBecomes(file)
    /\ UNCHANGED <<branch, pulls, merges, work, lock, pc, request, seen, server, overlapped>>

-----------------------------------------------------------------------------
(* The way back.                                                           *)

\* Mutant: a delivery that never was is handled.
WebhookForged(h) ==
    /\ pc[h] = "idle"
    /\ merges' = merges - 1
    /\ Go(h, "lock")
    /\ UNCHANGED <<main, branch, pulls, work, lock, request, seen, server, history, count>>

\* A delivery for a merged pull request; every other event is ignored.
Webhook(h) ==
    /\ pc[h] = "idle"
    /\ h = Free(Hooks)
    /\ merges > 0
    /\ merges' = merges - 1
    /\ Go(h, "lock")
    /\ UNCHANGED <<main, branch, pulls, work, lock, request, seen, server, history, count>>

\* The delivery does not arrive, or its signature is refused.
WebhookLost ==
    /\ merges > 0
    /\ merges' = merges - 1
    /\ Fault
    /\ UNCHANGED <<main, branch, pulls, work, lock, pc, request, seen, server, history>>

\* Mutant: the webhook does not release the lock.
CopyLocked(h) ==
    /\ pc[h] = "copy"
    /\ tree # NoFile
    /\ local' = [content |-> tree, json |-> FALSE, mtime |-> local.mtime + 1]
    /\ Go(h, "reload")
    /\ UNCHANGED <<remote, work, lock, request, seen, live, poll, history, count>>

\* refresh_local_yaml: the merged file replaces REGISTRY_PATH ...
Copy(h) ==
    /\ pc[h] = "copy"
    /\ tree # NoFile
    /\ local' = [content |-> tree, json |-> FALSE, mtime |-> local.mtime + 1]
    /\ lock' = Nobody
    /\ Go(h, "reload")
    /\ UNCHANGED <<remote, work, request, seen, live, poll, history, count>>

\* ... if there is one ...
CopyNothing(h) ==
    /\ pc[h] = "copy"
    /\ tree = NoFile
    /\ lock' = Nobody
    /\ Go(h, "reload")
    /\ UNCHANGED <<remote, work, request, seen, server, history, count>>

\* ... or something fails, which is logged.
RefreshFails(h) ==
    /\ pc[h] \in {"refresh", "configure", "copy"}
    /\ Fault
    /\ lock' = Nobody
    /\ Go(h, "reload")
    /\ UNCHANGED <<remote, work, request, seen, server, history>>

\* POST /registry/reload.
RequestReload(h) ==
    /\ pc[h] = "idle"
    /\ h = Free(Hooks)
    /\ Request
    /\ Go(h, "reload")
    /\ UNCHANGED <<remote, work, lock, request, seen, server, history>>

\* A tick of the poller: it remembers the mtime at its first look, and reloads
\* when it has grown.
FirstTick ==
    /\ pc[Poller] = "idle"
    /\ poll.last = 0
    /\ poll' = [poll EXCEPT !.last = local.mtime]
    /\ UNCHANGED <<remote, work, lock, pc, request, seen, local, live, history, count>>

Tick ==
    /\ pc[Poller] = "idle"
    /\ poll.last # 0
    /\ local.mtime > poll.last
    /\ poll' = [poll EXCEPT !.mtime = local.mtime]
    /\ Go(Poller, "reload")
    /\ UNCHANGED <<remote, work, lock, request, seen, local, live, history, count>>

\* reload_registry in its two halves, of whoever runs it.
ReadLocal(a) ==
    /\ pc[a] = "reload"
    /\ seen' = [seen EXCEPT ![a] = local.content]
    /\ overlapped' = (overlapped \/ (a \in Hooks /\ \E h \in Hooks : pc[h] = "swap"))
    /\ Go(a, "swap")
    /\ UNCHANGED <<remote, work, lock, request, server, mains, count>>

SwapLive(a) ==
    /\ pc[a] = "swap"
    /\ live' = seen[a]
    /\ seen' = [seen EXCEPT ![a] = Empty]
    /\ poll' = IF a = Poller THEN [last |-> poll.mtime, mtime |-> 0] ELSE poll
    /\ Go(a, "idle")
    /\ UNCHANGED <<remote, work, lock, request, local, history, count>>

\* The server stops and starts again, with the clone as it was; it does not
\* start from a refreshed file (see FlowRestart), and GitHub does not repeat a
\* delivery.
Crash ==
    /\ local.json
    /\ Fault
    /\ lock' = Nobody
    /\ pc' = [a \in Actors |-> "idle"]
    /\ package' = [c \in Calls |-> NoRule]
    /\ rule' = [c \in Calls |-> NoRule]
    /\ seen' = [a \in Reloaders |-> Empty]
    /\ live' = local.content
    /\ poll' = [last |-> 0, mtime |-> 0]
    /\ UNCHANGED <<remote, work, local, history>>

-----------------------------------------------------------------------------

Refresh(a) == Acquire(a) \/ Clone(a) \/ Configure(a) \/ Reset(a)

Proceed(c) ==
    \/ Refresh(c)
    \/ CheckoutNew(c)
    \/ CheckoutFails(c)
    \/ Edit(c)
    \/ Add(c)
    \/ Commit(c)
    \/ CommitFails(c)
    \/ Push(c)
    \/ PushRejected(c)
    \/ FindPr(c)
    \/ OpenPr(c)
    \/ OpenPrRefused(c)
    \/ Comment(c)

Fails(c) == GitFails(c) \/ HttpFails(c)

Reviewing ==
    \/ \E p \in Packages :
           \/ Merge(p)
           \/ OpenByHand(p)
           \/ Close(p)
           \/ \E r \in Rules \cup {NoRule} : Amend(p, r)
           \/ \E r \in Rules : EditMain([RulesOf(main) EXCEPT ![p] = r])
    \/ MergeOther
    \/ EditMain(NoFile)

Reload(a) == ReadLocal(a) \/ SwapLive(a)
HookProceed(h) == Refresh(h) \/ Copy(h) \/ CopyNothing(h) \/ Reload(h)
Poll == FirstTick \/ Tick \/ Reload(Poller)

Next ==
    \/ \E c \in Calls :
           \/ \E p \in Packages, r \in Rules : Propose(c, p, r)
           \/ Proceed(c)
           \/ Fails(c)
    \/ Reviewing
    \/ \E h \in Hooks :
           \/ Webhook(h)
           \/ HookProceed(h)
           \/ RefreshFails(h)
           \/ RequestReload(h)
    \/ WebhookLost
    \/ Poll
    \/ Crash

Spec == Init /\ [][Next]_vars

\* Deliveries that are not lost arrive, git and HTTP calls end, and the poller
\* ticks.  The requests being finitely many, it is enough that something of this
\* happens as long as something can.
Progress ==
    \/ \E c \in Calls : Proceed(c)
    \/ \E h \in Hooks : Webhook(h) \/ HookProceed(h)
    \/ Poll

FairSpec == Spec /\ WF_vars(Progress)

-----------------------------------------------------------------------------
(* Properties.                                                             *)

GitHubTypeOK ==
    /\ main \in File
    /\ branch \in [Packages -> Branch \cup {NoBranch}]
    /\ pulls \subseteq Packages
    /\ merges \in Nat
    /\ clone \in {"absent", "unconfigured", "ready"}
    /\ {tree, head, base} \subseteq File
    /\ tracked \in BOOLEAN
    /\ lock \in Actors \cup {Nobody}
    /\ pc \in [Actors -> PcStates]
    /\ package \in [Calls -> Packages \cup {NoRule}]
    /\ rule \in [Calls -> Rules \cup {NoRule}]
    /\ seen \in [Reloaders -> Content]
    /\ local \in [content : Content, json : BOOLEAN, mtime : Nat]
    /\ live \in Content
    /\ poll \in [last : Nat, mtime : Nat]
    /\ mains \subseteq File
    /\ overlapped \in BOOLEAN
    /\ count \in [requests : 0..MaxRequests, reviews : 0..MaxReviews,
                  edits : Nat, faults : 0..MaxFaults]

\* github.py:3: "orgs that want PR review on every registry change": whatever the
\* server uses or keeps on disk has been on the default branch (or was deployed
\* with it), although proposals, webhooks and reloads share one working tree and
\* one file, and any step may fail.  Excepted are the faults of a server whose
\* default branch was ever without a registry file: there the file of a proposal
\* that dies before its git add survives the next reset and is copied.
OnlyReviewedIsLive ==
    NoFile \notin mains \/ count.faults = 0 => {local.content, live} \subseteq mains

\* A pull request proposes the rule of its package and nothing else, although its
\* branch starts in a tree that other proposals, finished or failed, used.  The
\* same exception: a branch made after a fault from a default branch without a
\* registry file may take a failed proposal's rule along.
PullsAreForOnePackage ==
    \A p \in Packages :
        branch[p] # NoBranch /\ (branch[p].base # NoFile \/ count.faults = 0) =>
            \A q \in Packages \ {p} : branch[p].content[q] = RulesOf(branch[p].base)[q]

\* What a reviewer may have changed on an open pull request is never
\* overwritten by a push.
ReviewIsKept ==
    [][\A c \in Calls, p \in pulls : pc[c] = "push" /\ pc'[c] # "push" =>
           branch'[p] = branch[p]]_vars

\* git-backed-approvals.md:140: "The server pulls the merged YAML": as long as no
\* delivery is lost, nothing fails and nobody edits the default branch directly,
\* the file on disk ends up as the one on the default branch, however deliveries,
\* reloads and proposals in the same clone interleave; and so does memory, with a
\* poller in the middle of an older read too, unless two handlers ever held what
\* they had read at the same time (the older may then be the last to swap: the
\* file's mtime does not change again, and the poller keeps quiet).
MainReachesServer ==
    []<>(\/ count.faults + count.edits > 0
         \/ main = NoFile
         \/ main = local.content /\ (overlapped \/ main = live))

=============================================================================
