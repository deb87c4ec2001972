--------------------------- MODULE RegistryReload ---------------------------
(***************************************************************************)
(* The life of the registry inside one lex-align server: the file at       *)
(* REGISTRY_PATH, the in-memory Registry (state.registry), the reloads     *)
(* that carry the one into the other (reloader.py), the mtime poller, the  *)
(* start of the server (main.py lifespan), and the approval_requests rows  *)
(* a reload flips to APPROVED.                                             *)
(*                                                                         *)
(* The server is one asyncio process: an action is the code between two    *)
(* awaits, and a crash can fall between any two actions.  The file is the  *)
(* history of its contents: version v is disk[v], its mtime is v, and 0    *)
(* means that the file does not exist.  Data are abstracted to what the    *)
(* reload tells apart: the packages a content registers, and which of the  *)
(* two loaders (startup, reload) accept it.                                *)
(***************************************************************************)
EXTENDS Naturals, Sequences

CONSTANTS
    Packages,    \* normalized package names
    Requesters,  \* (project, requester) pairs that file requests
    Reloaders,   \* POST /registry/reload and webhook calls that may run at once
    Poller,      \* the RegistryPoller task
    NoPackage,   \* the reload is marking no package
    Edits,       \* the contents an operator may put at REGISTRY_PATH
    MaxEdits,    \* bound: versions of the file after which an operator stops
    MaxFaults    \* bound: crashes and failed database calls

\* json, yaml: accepted by validate_registry, and written in that syntax;
\* lax: JSON that Registry.from_dict takes but validate_registry refuses
\*      (for instance a deprecated rule without a replacement);
\* broken: refused by both.
Kinds == {"json", "yaml", "lax", "broken"}
\* review: unknown_license_policy is missing or "pending_approval".  Startup
\* then queues unknown licenses for review; validate_registry turns a missing
\* policy into "block" and refuses the other.
Content == [keys : SUBSET Packages, kind : Kinds, review : BOOLEAN,
            by : {"operator", "proposer"}]

ASSUME ConstantsAssumption ==
    /\ Poller \notin Reloaders
    /\ NoPackage \notin Packages
    /\ Edits \subseteq Content
    /\ MaxEdits \in Nat
    /\ MaxFaults \in Nat

VARIABLES
    disk,       \* the contents REGISTRY_PATH has had, oldest first
    server,     \* "down", "starting" (lifespan), "serving"
    live,       \* the version state.registry was built from; 0 is None
    reviewing,  \* state.registry queues unknown licenses for review
    lastMtime,  \* RegistryPoller._last_mtime; 0 is None
    seen,       \* the mtime of the poller's current tick
    skipped,    \* history: the poller remembered an mtime it never loaded
    pc,         \* where each reload_registry call is
    got,        \* the version each call has read
    todo,       \* the added packages each call has still to mark
    marking,    \* the package between the SELECT and the UPDATE of a mark
    picked,     \* the requesters whose rows that SELECT returned
    rows,       \* approval_requests: the status of each row
    faults      \* the crashes and database failures so far

regVars == <<disk, server, live, reviewing, lastMtime, seen, skipped>>
callVars == <<pc, got, todo, marking, picked>>
vars == <<regVars, callVars, rows, faults>>

Callers == Reloaders \cup {Poller}
RowStatus == {"none", "PENDING_REVIEW", "APPROVED"}
PcValues == {"idle", "reading", "read", "marking", "picked"}

Mtime == Len(disk)
Validates(c) == c.kind \in {"json", "yaml"}  \* _read_yaml, validate_registry
Boots(c) == c.kind \in {"json", "lax"}       \* json.loads, Registry.from_dict
Keys(v) == IF v = 0 THEN {} ELSE disk[v].keys
Pending(p) == {q \in Requesters : rows[p][q] = "PENDING_REVIEW"}

ForAllCalls(value) == [c \in Callers |-> value]

\* The server is down; the file is missing or is an operator's.
Init ==
    /\ disk \in {<<>>} \cup {<<c>> : c \in Edits}
    /\ server = "down"
    /\ live = 0
    /\ reviewing = FALSE
    /\ lastMtime = 0
    /\ seen = 0
    /\ skipped = FALSE
    /\ pc = ForAllCalls("idle")
    /\ got = ForAllCalls(0)
    /\ todo = ForAllCalls({})
    /\ marking = ForAllCalls(NoPackage)
    /\ picked = ForAllCalls({})
    /\ rows = [p \in Packages |-> [q \in Requesters |-> "none"]]
    /\ faults = 0

-----------------------------------------------------------------------------
(* The file and the rows, as the reload sees them change.                  *)

Write(content) == disk' = Append(disk, content)

\* An operator, a git checkout or the webhook's refresh replaces the file.
Publish ==
    /\ Len(disk) < MaxEdits
    /\ \E c \in Edits : Write(c)
    /\ UNCHANGED <<server, live, reviewing, lastMtime, seen, skipped, callVars, rows, faults>>

SetPending(p, q) == rows' = [rows EXCEPT ![p][q] = "PENDING_REVIEW"]

\* upsert_approval_request commits a new or a repeated request.
FileRequest ==
    /\ server = "serving"
    /\ \E p \in Packages, q \in Requesters : SetPending(p, q)
    /\ UNCHANGED <<regVars, callVars, faults>>

-----------------------------------------------------------------------------
(* Process life.                                                           *)

\* load_registry: a missing file gives no registry, a file json.loads or
\* from_dict refuses raises out of the lifespan and the process exits.
Start ==
    /\ server = "down"
    /\ Mtime > 0 => Boots(disk[Mtime])
    /\ server' = "starting"
    /\ live' = Mtime
    /\ reviewing' = (Mtime > 0 /\ disk[Mtime].review)
    /\ UNCHANGED <<disk, lastMtime, seen, skipped, callVars, rows, faults>>

\* A stop or a crash: the memory goes, the file and the database stay.
Lose ==
    /\ server' = "down"
    /\ live' = 0
    /\ reviewing' = FALSE
    /\ lastMtime' = 0
    /\ seen' = 0
    /\ skipped' = FALSE
    /\ pc' = ForAllCalls("idle")
    /\ got' = ForAllCalls(0)
    /\ todo' = ForAllCalls({})
    /\ marking' = ForAllCalls(NoPackage)
    /\ picked' = ForAllCalls({})
    /\ UNCHANGED <<disk, rows>>

Crash ==
    /\ server # "down"
    /\ faults < MaxFaults
    /\ faults' = faults + 1
    /\ Lose

-----------------------------------------------------------------------------
(* RegistryPoller._run.                                                    *)

\* The first look at an existing file only remembers its mtime.
Remember ==
    /\ lastMtime' = Mtime
    /\ skipped' = (Mtime # live)

\* The poller's task runs its first tick before the first request is served.
FirstTick ==
    /\ server = "starting"
    /\ server' = "serving"
    /\ Remember
    /\ UNCHANGED <<disk, live, reviewing, seen, callVars, rows, faults>>

LateFirstTick ==
    /\ server = "serving"
    /\ lastMtime = 0
    /\ Mtime > 0
    /\ Remember
    /\ UNCHANGED <<disk, server, live, reviewing, seen, callVars, rows, faults>>

PollTick ==
    /\ server = "serving"
    /\ pc[Poller] = "idle"
    /\ lastMtime > 0
    /\ Mtime > lastMtime
    /\ seen' = Mtime
    /\ pc' = [pc EXCEPT ![Poller] = "reading"]
    /\ UNCHANGED <<disk, server, live, reviewing, lastMtime, skipped,
                   got, todo, marking, picked, rows, faults>>

-----------------------------------------------------------------------------
(* reload_registry, one call of which is c.                                *)

\* The endpoint and the webhook; without a file reload_registry returns.
RequestReload(c) ==
    /\ server = "serving"
    /\ pc[c] = "idle"
    /\ Mtime > 0
    /\ pc' = [pc EXCEPT ![c] = "reading"]
    /\ UNCHANGED <<regVars, got, todo, marking, picked, rows, faults>>

\* asyncio.to_thread(_read_yaml, path): the file as it is at that moment.
ReadFile(c) ==
    /\ pc[c] = "reading"
    /\ pc' = [pc EXCEPT ![c] = "read"]
    /\ got' = [got EXCEPT ![c] = Mtime]
    /\ UNCHANGED <<regVars, todo, marking, picked, rows, faults>>

\* Mutant: the poller forgets the tick's mtime and takes the file's of now.
LeaveWithMtime(c, ok) ==
    /\ pc' = [pc EXCEPT ![c] = "idle"]
    /\ got' = [got EXCEPT ![c] = 0]
    /\ todo' = [todo EXCEPT ![c] = {}]
    /\ marking' = [marking EXCEPT ![c] = NoPackage]
    /\ picked' = [picked EXCEPT ![c] = {}]
    /\ lastMtime' = IF ok /\ c = Poller THEN Mtime ELSE lastMtime
    /\ seen' = IF c = Poller THEN 0 ELSE seen

\* reload_registry leaves: the poller keeps the tick's mtime if ok.
Leave(c, ok) ==
    /\ pc' = [pc EXCEPT ![c] = "idle"]
    /\ got' = [got EXCEPT ![c] = 0]
    /\ todo' = [todo EXCEPT ![c] = {}]
    /\ marking' = [marking EXCEPT ![c] = NoPackage]
    /\ picked' = [picked EXCEPT ![c] = {}]
    /\ lastMtime' = IF ok /\ c = Poller THEN seen ELSE lastMtime
    /\ seen' = IF c = Poller THEN 0 ELSE seen

\* Mutant: the loop over the added packages ends with the first one that has
\* rows to flip.
ContinueOnce(c, rest) ==
    IF rest = {} \/ pc[c] = "picked" THEN Leave(c, TRUE)
    ELSE /\ pc' = [pc EXCEPT ![c] = "marking"]
         /\ todo' = [todo EXCEPT ![c] = rest]
         /\ marking' = [marking EXCEPT ![c] = NoPackage]
         /\ picked' = [picked EXCEPT ![c] = {}]
         /\ UNCHANGED <<got, lastMtime, seen>>

\* The loop over the added packages goes on with rest.
Continue(c, rest) ==
    IF rest = {} THEN Leave(c, TRUE)
    ELSE /\ pc' = [pc EXCEPT ![c] = "marking"]
         /\ todo' = [todo EXCEPT ![c] = rest]
         /\ marking' = [marking EXCEPT ![c] = NoPackage]
         /\ picked' = [picked EXCEPT ![c] = {}]
         /\ UNCHANGED <<got, lastMtime, seen>>

Reject(c) ==
    /\ pc[c] = "read"
    /\ ~Validates(disk[got[c]])
    /\ Leave(c, FALSE)
    /\ UNCHANGED <<disk, server, live, reviewing, skipped, rows, faults>>

\* Mutant: the swap comes before the validation.
InstallUnchecked(c) ==
    /\ pc[c] = "read"
    /\ live' = got[c]
    /\ reviewing' = FALSE
    /\ Continue(c, Keys(got[c]) \ Keys(live))
    /\ UNCHANGED <<disk, server, skipped, rows, faults>>

\* Mutant: what is validated is read once more before the swap.
InstallReadAgain(c) ==
    /\ pc[c] = "read"
    /\ Validates(disk[got[c]])
    /\ live' = Mtime
    /\ reviewing' = FALSE
    /\ Continue(c, Keys(Mtime) \ Keys(live))
    /\ UNCHANGED <<disk, server, skipped, rows, faults>>

\* Diff against the current registry, swap, and enter the marking loop.
Install(c) ==
    /\ pc[c] = "read"
    /\ Validates(disk[got[c]])
    /\ live' = got[c]
    /\ reviewing' = FALSE
    /\ Continue(c, Keys(got[c]) \ Keys(live))
    /\ UNCHANGED <<disk, server, skipped, rows, faults>>

\* mark_approved_by_package: SELECT the pending rows of one package ...
MarkSelect(c) ==
    /\ pc[c] = "marking"
    /\ \E p \in todo[c] :
         IF Pending(p) = {} THEN Continue(c, todo[c] \ {p})
         ELSE /\ pc' = [pc EXCEPT ![c] = "picked"]
              /\ todo' = [todo EXCEPT ![c] = @ \ {p}]
              /\ marking' = [marking EXCEPT ![c] = p]
              /\ picked' = [picked EXCEPT ![c] = Pending(p)]
              /\ UNCHANGED <<got, lastMtime, seen>>
    /\ UNCHANGED <<disk, server, live, reviewing, skipped, rows, faults>>

\* Mutant: an UPDATE of the requesters' rows for every package.
MarkUpdateAll(c) ==
    /\ pc[c] = "picked"
    /\ rows' = [p \in Packages |->
                  [q \in Requesters |-> IF q \in picked[c] THEN "APPROVED" ELSE rows[p][q]]]
    /\ Continue(c, todo[c])
    /\ UNCHANGED <<disk, server, live, reviewing, skipped, faults>>

\* ... then UPDATE the rows it returned, by id.
MarkUpdate(c) ==
    /\ pc[c] = "picked"
    /\ rows' = [rows EXCEPT ![marking[c]] =
                  [q \in Requesters |-> IF q \in picked[c] THEN "APPROVED" ELSE @[q]]]
    /\ Continue(c, todo[c])
    /\ UNCHANGED <<disk, server, live, reviewing, skipped, faults>>

\* A database call raises: the endpoint answers 500, the poller logs it.
MarkFail(c) ==
    /\ pc[c] \in {"marking", "picked"}
    /\ faults < MaxFaults
    /\ faults' = faults + 1
    /\ Leave(c, FALSE)
    /\ UNCHANGED <<disk, server, live, reviewing, skipped, rows>>

Reload(c) ==
    \/ ReadFile(c)
    \/ Reject(c)
    \/ Install(c)
    \/ MarkSelect(c)
    \/ MarkUpdate(c)

\* What the server does of itself, that is, without a request or a fault.
ServerStep ==
    \/ Start
    \/ FirstTick
    \/ LateFirstTick
    \/ PollTick
    \/ \E c \in Callers : Reload(c)

Next ==
    \/ ServerStep
    \/ Publish
    \/ FileRequest
    \/ Crash
    \/ \E c \in Reloaders : RequestReload(c)
    \/ \E c \in Callers : MarkFail(c)

Spec == Init /\ [][Next]_vars

\* The supervisor restarts the process, the event loop runs every task that
\* is ready and the poller's timer fires; nobody has to edit or ask.
ServerFairness ==
    /\ WF_vars(Start)
    /\ WF_vars(FirstTick)
    /\ WF_vars(LateFirstTick)
    /\ WF_vars(PollTick)
    /\ \A c \in Callers : WF_vars(Reload(c))

FairSpec == Spec /\ ServerFairness

-----------------------------------------------------------------------------
(* Properties.                                                             *)

TypeOK ==
    /\ disk \in Seq(Content)
    /\ server \in {"down", "starting", "serving"}
    /\ live \in 0..Len(disk)
    /\ reviewing \in BOOLEAN
    /\ lastMtime \in 0..Len(disk)
    /\ seen \in 0..Len(disk)
    /\ skipped \in BOOLEAN
    /\ pc \in [Callers -> PcValues]
    /\ got \in [Callers -> 0..Len(disk)]
    /\ todo \in [Callers -> SUBSET Packages]
    /\ marking \in [Callers -> Packages \cup {NoPackage}]
    /\ picked \in [Callers -> SUBSET Requesters]
    /\ rows \in [Packages -> [Requesters -> RowStatus]]
    /\ faults \in 0..MaxFaults

\* No evaluation ever sees a registry built from a content both loaders refuse.
LiveLoadable == live # 0 => disk[live].kind # "broken"

\* An approval row says APPROVED only for a package that a valid version of
\* the file has registered, however reloads, requests and crashes interleave
\* with the SELECT and the UPDATE of mark_approved_by_package.
ApprovedWereRegistered ==
    \A p \in Packages, q \in Requesters :
        rows[p][q] = "APPROVED" =>
            \E v \in 1..Len(disk) : Validates(disk[v]) /\ p \in disk[v].keys

\* While the poller is the only one to reload, the mtime it has recorded is
\* never ahead of the registry in memory: a failed or rejected reload leaves
\* _last_mtime where it was, so the edit is tried again at the next tick.
PollerNeverSkips ==
    server = "serving" /\ ~skipped => live >= lastMtime

\* While the poller is the only one to reload, the registry in memory follows
\* the file: if no write slipped in before the poller's first look, memory
\* ends up at the last version, when that version is valid (reloader.py: "a
\* backstop for missed webhooks").
EditsReachMemory ==
    []~skipped =>
        <>[](server = "serving" /\ Mtime > 0 /\ Validates(disk[Mtime]) => live = Mtime)

\* Every row that is pending when a reload still has its package to mark is
\* flipped (the reload's docstring: matching PENDING_REVIEW rows become
\* APPROVED), unless the process or the database fails.
AddedRowsAreFlipped ==
    \A p \in Packages, q \in Requesters, c \in Callers :
        (rows[p][q] = "PENDING_REVIEW" /\ p \in todo[c])
            ~> (rows[p][q] = "APPROVED" \/ faults > 0)

\* The registry as its readers are promised it: see RegistryService.
Service == INSTANCE RegistryService WITH
    published <- disk, up <- (server # "down"), current <- live,
    Contents <- Content,
    Initial <- Edits,
    Bootable <- {c \in Content : Boots(c)},
    Accepted <- {c \in Content : Validates(c)}

\* While the poller is the only one to reload, RegistryReload implements it.
ServiceSpec == Service!Spec

\* However many reloads run at once, and whatever an operator does to the file
\* between their reads, validations and swaps, it implements what is left of
\* that: memory only ever changes for a content that was validated itself
\* ("Validation failed; keeping previous registry").
RacyServiceSpec == Service!RacySpec

=============================================================================
