------------------------------ MODULE LocalGit ------------------------------
(***************************************************************************)
(* LocalGitProposer (proposer/local_git.py): write the rule through the    *)
(* LocalFileProposer, under its lock, then git add, git commit and git     *)
(* rev-parse in a worker thread, outside any lock, so that the git         *)
(* commands of concurrent proposals interleave, and may collide on         *)
(* .git/index.lock.  A commit takes the whole index, which the operator    *)
(* uses too.                                                               *)
(***************************************************************************)
EXTENDS Naturals

CONSTANTS
    Calls,        \* proposals in progress at once
    Packages,
    Rules,
    NoRule,       \* the package is not in the registry, nothing is asked for
    NoCall,       \* nobody holds the lock
    MaxProposals, \* bound: proposals
    MaxStaged,    \* bound: other files the operator stages
    MaxTroubles   \* bound: collisions and crashes

ASSUME LocalGitAssumption ==
    /\ NoRule \notin Rules
    /\ NoRule \notin Packages
    /\ NoCall \notin Calls
    /\ MaxProposals \in Nat
    /\ MaxStaged \in Nat
    /\ MaxTroubles \in Nat

VARIABLES
    file,      \* the registry file in the working tree
    index,     \* the git index: the registry file and the operator's own files
    head,      \* the tree of the last commit
    lock,      \* LocalFileProposer._lock
    pc,        \* where each proposal is
    package,   \* what it proposes ...
    rule,
    doc,       \* ... the document it is about to write ...
    outcome,   \* ... and how the last one of this call ended
    proposed,  \* proposals so far
    troubles   \* collisions and crashes so far

vars == <<file, index, head, lock, pc, package, rule, doc, outcome, proposed, troubles>>
request == <<package, rule>>

Content == [Packages -> Rules \cup {NoRule}]
Tree == [rules : Content, other : 0..MaxStaged]
PcStates == {"idle", "lock", "read", "write", "add", "commit", "sha"}
Outcomes == {"none", "applied", "refused", "nothing", "failed"}

Empty == [p \in Packages |-> NoRule]
FirstTree == [rules |-> Empty, other |-> 0]

Init ==
    /\ file = Empty
    /\ index = FirstTree
    /\ head = FirstTree
    /\ lock = NoCall
    /\ pc = [c \in Calls |-> "idle"]
    /\ package = [c \in Calls |-> NoRule]
    /\ rule = [c \in Calls |-> NoRule]
    /\ doc = [c \in Calls |-> Empty]
    /\ outcome = [c \in Calls |-> "none"]
    /\ proposed = 0
    /\ troubles = 0

-----------------------------------------------------------------------------

Go(c, next) == pc' = [pc EXCEPT ![c] = next]
Ends(c, how) == Go(c, "idle") /\ outcome' = [outcome EXCEPT ![c] = how]

Propose(c, p, r) ==
    /\ pc[c] = "idle"
    /\ proposed < MaxProposals
    /\ proposed' = proposed + 1
    /\ package' = [package EXCEPT ![c] = p]
    /\ rule' = [rule EXCEPT ![c] = r]
    /\ outcome' = [outcome EXCEPT ![c] = "none"]
    /\ Go(c, "lock")
    /\ UNCHANGED <<file, index, head, lock, doc, troubles>>

\* Mutant: nobody waits for the lock.
AcquireUnlocked(c) ==
    /\ pc[c] = "lock"
    /\ lock' = c
    /\ Go(c, "read")
    /\ UNCHANGED <<file, index, head, request, doc, outcome, proposed, troubles>>

\* LocalFileProposer.propose: the lock ...
Acquire(c) ==
    /\ pc[c] = "lock"
    /\ lock = NoCall
    /\ lock' = c
    /\ Go(c, "read")
    /\ UNCHANGED <<file, index, head, request, doc, outcome, proposed, troubles>>

\* ... the document with the rule in it ...
Read(c) ==
    /\ pc[c] = "read"
    /\ doc' = [doc EXCEPT ![c] = [file EXCEPT ![package[c]] = rule[c]]]
    /\ Go(c, "write")
    /\ UNCHANGED <<file, index, head, lock, request, outcome, proposed, troubles>>

\* ... its atomic write ...
Write(c) ==
    /\ pc[c] = "write"
    /\ file' = doc[c]
    /\ lock' = NoCall
    /\ Go(c, "add")
    /\ UNCHANGED <<index, head, request, doc, outcome, proposed, troubles>>

\* ... or the document does not validate, or the disk refuses it.
WriteFails(c) ==
    /\ pc[c] = "write"
    /\ lock' = NoCall
    /\ Ends(c, "refused")
    /\ UNCHANGED <<file, index, head, request, doc, proposed, troubles>>

\* Mutant: git add stages the document this proposal has written.
AddOwn(c) ==
    /\ pc[c] = "add"
    /\ index' = [index EXCEPT !.rules = doc[c]]
    /\ Go(c, "commit")
    /\ UNCHANGED <<file, head, lock, request, doc, outcome, proposed, troubles>>

\* git add -- <registry>
Add(c) ==
    /\ pc[c] = "add"
    /\ index' = [index EXCEPT !.rules = file]
    /\ Go(c, "commit")
    /\ UNCHANGED <<file, head, lock, request, doc, outcome, proposed, troubles>>

\* git commit -m <message>
Commit(c) ==
    /\ pc[c] = "commit"
    /\ index # head
    /\ head' = index
    /\ Go(c, "sha")
    /\ UNCHANGED <<file, index, lock, request, doc, outcome, proposed, troubles>>

\* Mutant: a commit of nothing ends with a status nobody knows.
NothingSkipped(c) ==
    /\ pc[c] = "commit"
    /\ index = head
    /\ Ends(c, "skipped")
    /\ UNCHANGED <<file, index, head, lock, request, doc, proposed, troubles>>

\* git says "nothing to commit" on stdout; the code looks for it on stderr.
NothingToCommit(c) ==
    /\ pc[c] = "commit"
    /\ index = head
    /\ Ends(c, "nothing")
    /\ UNCHANGED <<file, index, head, lock, request, doc, proposed, troubles>>

HeadSha(c) ==
    /\ pc[c] = "sha"
    /\ Ends(c, "applied")
    /\ UNCHANGED <<file, index, head, lock, request, doc, proposed, troubles>>

\* Another proposal's git command holds .git/index.lock.
Collide(c) ==
    /\ pc[c] \in {"add", "commit"}
    /\ \E d \in Calls \ {c} : pc[d] \in {"add", "commit"}
    /\ troubles < MaxTroubles
    /\ troubles' = troubles + 1
    /\ Ends(c, "failed")
    /\ UNCHANGED <<file, index, head, lock, request, doc, proposed>>

\* The operator runs git add on a file of their own.
Stage ==
    /\ index.other < MaxStaged
    /\ index' = [index EXCEPT !.other = @ + 1]
    /\ UNCHANGED <<file, head, lock, pc, request, doc, outcome, proposed, troubles>>

\* The server stops: its proposals are gone, the working tree stays.
Crash ==
    /\ troubles < MaxTroubles
    /\ troubles' = troubles + 1
    /\ lock' = NoCall
    /\ pc' = [c \in Calls |-> "idle"]
    /\ outcome' = [c \in Calls |-> "none"]
    /\ UNCHANGED <<file, index, head, request, doc, proposed>>

Step(c) ==
    \/ \E p \in Packages, r \in Rules : Propose(c, p, r)
    \/ Acquire(c)
    \/ Read(c)
    \/ Write(c)
    \/ WriteFails(c)
    \/ Add(c)
    \/ Commit(c)
    \/ NothingToCommit(c)
    \/ HeadSha(c)
    \/ Collide(c)

Next == (\E c \in Calls : Step(c)) \/ Stage \/ Crash

Spec == Init /\ [][Next]_vars

-----------------------------------------------------------------------------
(* Properties.                                                             *)

LocalGitTypeOK ==
    /\ file \in Content
    /\ index \in Tree
    /\ head \in Tree
    /\ lock \in Calls \cup {NoCall}
    /\ pc \in [Calls -> PcStates]
    /\ package \in [Calls -> Packages \cup {NoRule}]
    /\ rule \in [Calls -> Rules \cup {NoRule}]
    /\ doc \in [Calls -> Content]
    /\ outcome \in [Calls -> Outcomes]
    /\ proposed \in 0..MaxProposals
    /\ troubles \in 0..MaxTroubles

\* Only a collision or a crash leaves a written rule out of the history: with
\* neither, the last commit holds the registry file as soon as no git command
\* is on its way, however the add and commit of concurrent proposals interleave.
Quiet == \A c \in Calls : pc[c] \notin {"add", "commit"}

WrittenIsCommitted == Quiet /\ troubles = 0 => head.rules = file

\* A proposal that has ended as applied stays in the last commit, under this
\* rule or a later one: no other proposal's write, add or commit takes the
\* package out of the registry again, collisions, failures and crashes included.
AppliedStays ==
    \A c \in Calls : outcome[c] = "applied" => head.rules[package[c]] # NoRule

=============================================================================
