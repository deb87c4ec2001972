---------------------------- MODULE ApprovalFlow ----------------------------
(***************************************************************************)
(* How a package gets from a request into the registry when the proposer   *)
(* is LocalFileProposer: the calls that file a request (an /evaluate whose *)
(* license is unknown, POST /approval-requests) or propose a rule outright *)
(* (POST /registry/proposals), the approval_requests row each one upserts, *)
(* the background task that hands the rule to the proposer, the proposer's *)
(* lock around its read-modify-write of REGISTRY_PATH, and, from           *)
(* RegistryReload, the poller and the reloads that bring the file back     *)
(* into memory and flip the rows.                                          *)
(*                                                                         *)
(* A call slot stands for a request together with its background task.     *)
(***************************************************************************)
EXTENDS RegistryReload

CONSTANTS
    Calls,     \* requests in progress at once
    NoCall,    \* nobody holds the proposer's lock
    NoOne,     \* a call that files no row: an operator's proposal
    MaxAsks    \* bound: calls begun

ASSUME FlowAssumption ==
    /\ NoCall \notin Calls
    /\ NoOne \notin Requesters
    /\ MaxAsks \in Nat
    /\ \A c \in Edits : c.by = "operator"

VARIABLES
    step,      \* where each call is
    about,     \* the package each call is about
    asker,     \* whose row it files
    found,     \* the upsert's SELECT found a row
    base,      \* the version its proposer read
    lock,      \* LocalFileProposer._lock: the call that holds it
    asks       \* calls begun so far

flowVars == <<step, about, asker, found, base, lock, asks>>
allVars == <<vars, flowVars>>

Steps == {"idle", "evaluating", "filing", "storing", "queued", "editing"}

FlowInit ==
    /\ Init
    /\ step = [c \in Calls |-> "idle"]
    /\ about = [c \in Calls |-> NoPackage]
    /\ asker = [c \in Calls |-> NoOne]
    /\ found = [c \in Calls |-> FALSE]
    /\ base = [c \in Calls |-> 0]
    /\ lock = NoCall
    /\ asks = 0

-----------------------------------------------------------------------------
(* The requests.                                                           *)

Go(c, next) == step' = [step EXCEPT ![c] = next]

\* A call about p begins; q is the requester whose row it will file.
Begin(c, p, q, first) ==
    /\ server = "serving"
    /\ step[c] = "idle"
    /\ asks < MaxAsks
    /\ asks' = asks + 1
    /\ Go(c, first)
    /\ about' = [about EXCEPT ![c] = p]
    /\ asker' = [asker EXCEPT ![c] = q]
    /\ UNCHANGED <<vars, found, base, lock>>

\* Mutant: nobody frees the lock.
DoneKeepsLock(c) ==
    /\ Go(c, "idle")
    /\ about' = [about EXCEPT ![c] = NoPackage]
    /\ asker' = [asker EXCEPT ![c] = NoOne]
    /\ found' = [found EXCEPT ![c] = FALSE]
    /\ base' = [base EXCEPT ![c] = 0]
    /\ UNCHANGED <<lock, asks>>

\* The call and its background task are over.
Done(c) ==
    /\ Go(c, "idle")
    /\ about' = [about EXCEPT ![c] = NoPackage]
    /\ asker' = [asker EXCEPT ![c] = NoOne]
    /\ found' = [found EXCEPT ![c] = FALSE]
    /\ base' = [base EXCEPT ![c] = 0]
    /\ lock' = IF lock = c THEN NoCall ELSE lock
    /\ UNCHANGED asks

\* GET /evaluate with the registry of this moment, which is the one the whole
\* evaluation uses.  Only those that may end in an automatic request are
\* followed: the package is unknown to a registry that queues unknown
\* licenses.
Check(c) ==
    /\ live # 0 /\ reviewing
    /\ \E p \in Packages \ Keys(live), q \in Requesters : Begin(c, p, q, "evaluating")

\* PyPI and OSV have answered: the license is unknown and no CVE blocks ...
AutoRequest(c) ==
    /\ step[c] = "evaluating"
    /\ Go(c, "filing")
    /\ UNCHANGED <<vars, about, asker, found, base, lock, asks>>

\* ... or the verdict needs no request.
Answer(c) ==
    /\ step[c] = "evaluating"
    /\ Done(c)
    /\ UNCHANGED vars

\* POST /approval-requests asks about any package, a registered one included.
Request(c) ==
    \E p \in Packages, q \in Requesters : Begin(c, p, q, "filing")

\* POST /registry/proposals: straight to the proposer.
Propose(c) == \E p \in Packages : Begin(c, p, NoOne, "queued")

-----------------------------------------------------------------------------
(* AuditStore.upsert_approval_request.                                     *)

Row(c) == rows[about[c]][asker[c]]

Lookup(c) ==
    /\ step[c] = "filing"
    /\ Go(c, "storing")
    /\ found' = [found EXCEPT ![c] = Row(c) # "none"]
    /\ UNCHANGED <<vars, about, asker, base, lock, asks>>

\* UPDATE the row found, or INSERT a new one; then create_task the proposer.
Store(c) ==
    /\ step[c] = "storing"
    /\ found[c] \/ Row(c) = "none"
    /\ SetPending(about[c], asker[c])
    /\ Go(c, "queued")
    /\ UNCHANGED <<regVars, callVars, faults, about, asker, found, base, lock, asks>>

\* INSERT meets a row another call has inserted since the SELECT: the unique
\* index raises IntegrityError and the caller gets a 500.
StoreConflict(c) ==
    /\ step[c] = "storing"
    /\ ~found[c]
    /\ Row(c) # "none"
    /\ Done(c)
    /\ UNCHANGED vars

\* Mutant: the database's error is swallowed and the proposer called.
StoreFailSwallowed(c) ==
    /\ step[c] \in {"filing", "storing"}
    /\ faults < MaxFaults
    /\ faults' = faults + 1
    /\ Go(c, "queued")
    /\ UNCHANGED <<regVars, callVars, rows, about, asker, found, base, lock, asks>>

\* The database refuses, also a 500.
StoreFail(c) ==
    /\ step[c] \in {"filing", "storing"}
    /\ faults < MaxFaults
    /\ faults' = faults + 1
    /\ Done(c)
    /\ UNCHANGED <<regVars, callVars, rows>>

-----------------------------------------------------------------------------
(* LocalFileProposer.propose.                                              *)

\* Mutant: the document is read without the lock.
BeginEditUnlocked(c) ==
    /\ step[c] = "queued"
    /\ lock' = c
    /\ base' = [base EXCEPT ![c] = Mtime]
    /\ Go(c, "editing")
    /\ UNCHANGED <<vars, about, asker, found, asks>>

\* Take the lock and read the document.
BeginEdit(c) ==
    /\ step[c] = "queued"
    /\ lock = NoCall
    /\ lock' = c
    /\ base' = [base EXCEPT ![c] = Mtime]
    /\ Go(c, "editing")
    /\ UNCHANGED <<vars, about, asker, found, asks>>

\* A missing file is an empty document, whose policy is unstated.
Document(v) ==
    IF v = 0 THEN [keys |-> {}, kind |-> "yaml", review |-> TRUE, by |-> "operator"]
    ELSE disk[v]

Merged(doc, p) ==
    [keys |-> doc.keys \cup {p}, kind |-> "yaml", review |-> doc.review, by |-> "proposer"]

\* Mutant: the request is forgotten before its rule is written.
WriteEditForgotten(c) ==
    /\ step[c] = "editing"
    /\ Document(base[c]).kind # "broken"
    /\ Done(c)
    /\ Write(Merged(Document(base[c]), NoPackage))
    /\ UNCHANGED <<server, live, reviewing, lastMtime, seen, skipped, callVars, rows, faults>>

\* The merged document validates: replace the file by its YAML.  A document
\* whose one fault was the rule replaced may validate as well.
WriteEdit(c) ==
    /\ step[c] = "editing"
    /\ Document(base[c]).kind # "broken"
    /\ Write(Merged(Document(base[c]), about[c]))
    /\ Done(c)
    /\ UNCHANGED <<server, live, reviewing, lastMtime, seen, skipped, callVars, rows, faults>>

\* It does not: ProposerError, logged by the background task.
RefuseEdit(c) ==
    /\ step[c] = "editing"
    /\ ~Validates(Document(base[c]))
    /\ Done(c)
    /\ UNCHANGED vars

\* An OSError while reading or writing.
EditFail(c) ==
    /\ step[c] = "editing"
    /\ faults < MaxFaults
    /\ faults' = faults + 1
    /\ Done(c)
    /\ UNCHANGED <<regVars, callVars, rows>>

-----------------------------------------------------------------------------

\* A crash also loses the calls, their background tasks and the lock.
CrashAll ==
    /\ Crash
    /\ step' = [c \in Calls |-> "idle"]
    /\ about' = [c \in Calls |-> NoPackage]
    /\ asker' = [c \in Calls |-> NoOne]
    /\ found' = [c \in Calls |-> FALSE]
    /\ base' = [c \in Calls |-> 0]
    /\ lock' = NoCall
    /\ UNCHANGED asks

\* What a call does once it has begun, without a fault.
Proceed(c) ==
    \/ AutoRequest(c)
    \/ Answer(c)
    \/ Lookup(c)
    \/ Store(c)
    \/ StoreConflict(c)
    \/ BeginEdit(c)
    \/ WriteEdit(c)
    \/ RefuseEdit(c)

CallStep(c) ==
    \/ Check(c)
    \/ Request(c)
    \/ Propose(c)
    \/ Proceed(c)
    \/ StoreFail(c)
    \/ EditFail(c)

\* The part of RegistryReload that is not refined here.
RegistryStep ==
    \/ ServerStep
    \/ Publish
    \/ \E c \in Reloaders : RequestReload(c)
    \/ \E c \in Callers : MarkFail(c)

FlowNext ==
    \/ \E c \in Calls : CallStep(c)
    \/ RegistryStep /\ UNCHANGED flowVars
    \/ CrashAll

FlowSpec == FlowInit /\ [][FlowNext]_allVars

\* The lock is a FIFO asyncio.Lock, so a queued task gets it in the end.
FlowFairness ==
    /\ WF_allVars(Start /\ UNCHANGED flowVars)
    /\ WF_allVars(FirstTick /\ UNCHANGED flowVars)
    /\ WF_allVars(LateFirstTick /\ UNCHANGED flowVars)
    /\ WF_allVars(PollTick /\ UNCHANGED flowVars)
    /\ \A c \in Callers : WF_allVars(Reload(c) /\ UNCHANGED flowVars)
    /\ \A c \in Calls : SF_allVars(Proceed(c))

FairFlowSpec == FlowSpec /\ FlowFairness

-----------------------------------------------------------------------------
(* Properties.                                                             *)

FlowTypeOK ==
    /\ TypeOK
    /\ step \in [Calls -> Steps]
    /\ about \in [Calls -> Packages \cup {NoPackage}]
    /\ asker \in [Calls -> Requesters \cup {NoOne}]
    /\ found \in [Calls -> BOOLEAN]
    /\ base \in [Calls -> 0..Len(disk)]
    /\ lock \in Calls \cup {NoCall}
    /\ asks \in 0..MaxAsks

\* LocalFileProposer's lock: while a proposal edits the document it has read,
\* nobody but an operator replaces the file.
EditsBuildOnProposals ==
    \A c \in Calls : step[c] = "editing" =>
        \A v \in (base[c] + 1)..Len(disk) : disk[v].by = "operator"

\* No proposal is lost to another one: between two consecutive writes of the
\* proposer no package disappears from the registry file.
ProposalsAccumulate ==
    \A v \in 2..Len(disk) :
        disk[v].by = "proposer" /\ disk[v - 1].by = "proposer" =>
            disk[v - 1].keys \subseteq disk[v].keys

\* "The audit row is durable even if the proposer hits a transient outage":
\* whoever waits for the proposer has its row in the database.
AcceptedIsStored ==
    \A c \in Calls :
        step[c] \in {"queued", "editing"} /\ asker[c] # NoOne => Row(c) # "none"

Awaiting(p, q) ==
    server = "serving" /\ rows[p][q] = "PENDING_REVIEW" /\ p \notin Keys(live)

\* Nothing fails, only the poller reloads, the operator's file validates (of one
\* that only startup takes the proposer refuses every edit, and the rows wait for
\* ever) and, once it is there, is left to the proposer; no write slips past the
\* first look.
Undisturbed ==
    /\ faults = 0
    /\ ~skipped
    /\ \A v \in 1..Len(disk) : Validates(disk[v]) /\ (v > 1 => disk[v].by = "proposer")

\* End to end, undisturbed: a request that is pending for a package the server
\* does not know becomes APPROVED.
PendingGetsApproved ==
    []Undisturbed =>
        \A p \in Packages, q \in Requesters :
            Awaiting(p, q) ~> (rows[p][q] = "APPROVED")

\* getting-started.md: "On restart the server reads the same file from disk,
\* picking up the most recent state".
RestartReadsFile ==
    (server = "down" /\ Mtime > 0 /\ Validates(disk[Mtime])) ~> (server = "serving")

=============================================================================
