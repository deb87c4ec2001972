# lex-align: models, checks and proofs

lex-align is a dependency-policy server (FastAPI, one asyncio process) and a
thin client. An agent asks the server whether it may add a Python package; the
server answers from a *registry* (a file of rules), the package's license (PyPI)
and its vulnerabilities (OSV), writes one audit row per answer, and turns
requests for unknown packages into *proposals* that change the registry file.
This directory models that program in TLA+, checks the models with TLC and
proves the theorems that matter most with TLAPS. Paths below are relative to
`src/src/lex_align_server/` unless they say otherwise.

## 1. Inventory

| Component | State it keeps | Operations | Interacts with |
| --- | --- | --- | --- |
| Registry, startup and reload (`registry.py`, `registry_schema.py`, `reloader.py`, `main.py`) | the file at `REGISTRY_PATH`; `state.registry`; `RegistryPoller._last_mtime` | load at startup, poller tick, `POST /registry/reload`, reload by webhook | flips rows of `approval_requests`; evaluations read `state.registry` |
| Approval flow (`api/v1/evaluate.py`, `api/v1/approval_requests.py`, `api/v1/registry.py`, `proposer/local_file.py`) | rows of `approval_requests`, background tasks, the proposer's lock | automatic and explicit requests, operator proposals, read-modify-write of the file | audit store, registry file, reload |
| Evaluation (`evaluate.py`, `licenses.py`, `cve.py`, `cache.py`) | two kinds of Redis entries | registry, license, CVE and license-policy gates | PyPI, OSV, Redis, `state.registry` |
| CVE scanner (`cve_scanner.py`) | the walk in progress | tick, alert | registry, the evaluations' cache, OSV, audit store |
| Local git proposer (`proposer/local_git.py`) | working tree, index, commits | write, `add`, `commit`, `rev-parse` | the file proposer's lock, git |
| GitHub proposer and webhook (`proposer/github.py`, `api/v1/registry.py`) | a shared shallow clone, its lock | refresh, branch, push, pull request; on a merge: refresh, copy, reload | git, GitHub, the reload |
| Audit store and reports (`audit.py`, `api/v1/reports.py`) | `audit_log`, `approval_requests` | record, upsert, mark, denial reports, triage panel, project summary, agents | evaluation, scanner, reload |
| Client gates (`src/src/lex_align_client/claude_hooks.py`, `precommit.py`, `audit.py`, `pyproject_utils.py`, `api.py`) | `pyproject.toml` in tree and index | PreToolUse hook, pre-commit hook, `lex-align-client audit` | `/evaluate` |
| Policy in full (`registry.py`, `registry_schema.py`) | none | compile, validate, version comparison | loaders, evaluation |
| Deployment: `init.py`, `quickstart.py`, `cli.py`, `check_config.py`, `proposer/loader.py`, the lifespan in `main.py` | `registry.yml`, `registry.json`, init's marker | init, quickstart, registry compile, check-config, serve, compose up, restart | settings, git, file system, loaders, proposers |
| Client installers (`src/src/lex_align_client/settings.py`, `claudemd.py`, `cli.py`) | `.claude/settings.json` and its script, `CLAUDE.md`, `.git/hooks/pre-commit` | init, uninstall, status | the user, who edits the same files |
| Authentication (`auth.py`, `authn/`), configuration and health | none | per request | all endpoints |
| Dashboards (`dashboards/`) | none | HTML over the endpoints | reports |
| Client commands and status | `.lexalign.toml` | queries | API |

What is hard in each, and what makes it correct:

- **Reload.** Every `await` of `reload_registry` lets another reload, an edit or
  a request in; a crash may fall between the swap and the marking. Correct when
  nothing invalid gets into memory, memory ends at the last valid content, and
  rows are approved only and always for what the reload has added.
- **Approval flow.** The answer, the row, the background task and the file write
  are separate steps of concurrent calls, then the poller has to bring the file
  back. Correct when no proposal overwrites another, a request is stored before
  its proposal, and a pending request ends APPROVED.
- **Evaluation.** Five awaits on three services that fail; the cache is shared
  and keyed more coarsely than the questions; the registry is swapped meanwhile.
  Correct when one registry decides, the cache holds what OSV said, and a known
  critical vulnerability blocks in the end.
- **Scanner.** Shares one cache key with unpinned evaluations. Correct when
  alerts are made for all that is known and only for that.
- **Local git.** `add` and `commit` run outside the lock in worker threads and
  use one index. Correct when what is written is committed and stays.
- **GitHub.** Proposals and the webhook share one working tree; pull requests are
  opened after the lock is released; deliveries are lost. Correct when only what
  was reviewed becomes live, a branch changes one package, and merges arrive.
- **Audit.** Reports read in several awaits while rows arrive, expire and get
  approved. Correct when nobody who waits is missed and denials are counted once.
- **Client gates.** Questions one after the other against a server that changes
  its mind and goes down. Correct when nothing passes that was denied all along.
- **Policy.** Versions are compared as tuples of what digits they contain, and a
  package has as many keys as spellings. Correct when the answer is the one PEP 440
  gives and when compiling a document does not change what it says.
- **Deployment.** Five pieces of code read the same environment and the same two
  files, each in its own way, and every command may overwrite what another wrote.
  Correct when a checked configuration starts with the predicted back end, a
  restart keeps it, and a file holds what proposals wrote into it.
- **Installers.** Each command reads files the user edits too, changes them in memory
  and truncates and writes them, and may die at any step. Correct when what is
  installed is there once and whole, a finished command has done what it says, and
  the user's own edits stay.

`PROJECT.json` lists each hazard at the line where it bites, with the properties
that watch it.

## 2. Modules

| Module | Models | Built on |
| --- | --- | --- |
| `RegistryService` | abstract: the registry readers are promised, and what is left of it when reloads overlap | |
| `RegistryReload` | file, startup, poller, reloads, marking of rows | refines `RegistryService` |
| `ApprovalFlow` | calls, rows, background tasks, `LocalFileProposer` | extends `RegistryReload` |
| `Evaluate` | `/evaluate` for one package, both caches, three services | |
| `CveScanner` | the scanner beside evaluations | extends `Evaluate` |
| `LocalGit` | `LocalGitProposer` | |
| `GitHub` | `GitHubProposer`, pull requests, webhook, poller | |
| `AuditReports` | writes of the store, triage panel | |
| `Reports` | security and legal report, project summary | extends `AuditReports` |
| `ClientGates` | both hooks of the client and its audit command | |
| `Policy` | documents, validation, compilation, merging, lookup, versions (operators) | |
| `Deployment` | commands, check-config, start, proposals and reloads in one directory | extends `Policy` |
| `Installers` | init and uninstall of the client | |
| `ApprovalFlow_proofs`, `CveScanner_proofs`, `LocalGit_proofs`, `GitHub_proofs`, `Reports_proofs`, `ClientGates_proofs`, `Deployment_proofs`, `Installers_proofs` | theorems; each extends the module it is named for, and is about the module that one extends too: `RegistryReload`, `Evaluate`, `AuditReports`, `Policy` | |

`MC<Module>` gives the values TLC needs that a cfg cannot write. Definitions
named as mutants in their comment are plausible bugs; `PROJECT.json` says which
property notices each.

How the models correspond to the code:

- **One action is the code between two awaits.** The server is one asyncio
  process, so that code runs undisturbed; what `asyncio.to_thread` runs is an
  action of its own, at whose time the file is read or written. A crash may
  fall between any two actions; it empties memory and keeps files, database
  and the remote repository.
- **`RegistryReload`.** The file is the sequence of its contents; the mtime is the
  number of the content, so it grows with every write. A content is the set of
  packages it registers and a kind: which of the two loaders takes it
  (`Registry.from_dict` on JSON at startup, `validate_registry` on YAML at a
  reload). `Start` is the lifespan; `FirstTick`/`LateFirstTick` the first look of
  `_run`, which only remembers; `ReadFile`, `Reject`, `Install` and
  `MarkSelect`/`MarkUpdate` are `reload_registry` and
  `mark_approved_by_package`; `RequestReload` the endpoint.
- **`ApprovalFlow`.** A call slot is a request together with its background task:
  `Check`/`AutoRequest` is an evaluation whose license is unknown, `Request`
  `POST /approval-requests`, `Propose` an operator's proposal. `Lookup`, `Store`,
  `StoreConflict` and `StoreFail` are `upsert_approval_request`; `BeginEdit`,
  `WriteEdit`, `RefuseEdit` and `EditFail` are `LocalFileProposer.propose` under
  its lock.
- **`Evaluate`.** Versions are numbers and a CVSS score is a rank, 0 meaning that
  OSV gives no numeric score. `Lookup`, `LicenseVerdict`, `CveBlocks` and `Decide`
  are the gates in their order; the steps of `resolve_license` and `resolve_cves`
  are actions; an outage is the other outcome of a step that calls a service in
  `Failing`. `asOf` remembers what OSV knew when it answered. How version
  strings become tuples, and documents rules, is `Policy`'s subject.
- **`CveScanner`.** One package of the walk; the others only delay it or end the
  tick (`Break`: the database refuses an alert, the server stops). OSV down counts
  as no vulnerability and the tick goes on with the next package (`ScanOutage`);
  Redis down is a miss when it is read and nothing when it is written, which
  `JsonCache` does not tell. The scan interval (24 h) is longer than the TTL (6 h),
  so the scanner's own entry has expired at its next tick.
- **`LocalGit`.** Trees are maps from packages to rules plus the operator's other
  files; `add` copies the working file to the index, `commit` the whole index to
  `head`. Git prints "nothing to commit" on stdout (seen with git 2.39), so the
  no-op branch, which looks at stderr, is not taken and such a proposal fails.
- **`GitHub`.** git and GitHub are external and modelled by their answers. A
  `--depth 1` clone follows one branch (seen with git): after
  `fetch origin <branch>` there is no `origin/<branch>`, which decides what the
  checkout and `--force-with-lease` do. A second push while a request is open is
  therefore impossible, and the comment on an open request is only reached when a
  reviewer opens the request of a pushed branch by hand (`OpenByHand`). `Reset` is
  fetch, checkout and `reset --hard`: what is in the index goes, a file that git
  does not track stays when the default branch has no registry file, with which it
  may start. The clone's lock covers a webhook's refresh only: `Hooks` are handlers
  that reload after it, `Poller` ticks on a newer mtime, and each reload is a read
  and a swap. Validation and the rows are `RegistryReload`'s.
- **`AuditReports`.** A window of 30 days is a prefix of expired rows that may
  grow at any time. The panel's three awaits and the final filter are four
  actions. `steady` remembers who waited, who had never asked and which rows there
  were when the panel began, and who first asked between its two queries of the
  requests. One reload marks its rows before the next swaps; overlapping reloads
  are in `RegistryReload`.
- **`Reports`.** Every query of a report is an await and an action, named for the
  part of the answer it computes; `report` is the answer so far, with the history
  a property needs (denials and rows when it began). `Limit` stands for the 100 latest
  rows, `TopLimit` for the ten projects the legal report names (`LIMIT 10`; which of
  those with as many denials is SQLite's choice). Between the last query and the
  answer nothing else runs. A report and the panel are not read at the same time:
  both only read, so neither can see the other.
- **`ClientGates`.** A document is a list of dependencies, `Garbled` or `Absent`;
  every question of a gate is an action. What the agent's tool writes in the end may
  differ from the document `apply_edit` made of its edit (`EndEdit`). `editing` is the
  agent's edit at the PreToolUse hook, `checking` the commit or the audit in progress. `Overlap` lets
  an edit and a check be in progress at once; the theorems cover that too.
- **`Policy`.** A version is its epoch, its release numbers and a phase (dev,
  pre-release, final, post), perhaps with a `v` in front; `Numbers` and
  `VersionTuple` are what `_version_tuple` makes of it, the operators below what PEP
  440 orders by. Phases are spelled in PEP 440's normal form, and the local part,
  which the code cuts off first, is left out. A document is the sequence of its
  entries, its keys distinct as a mapping's are; `Rules` is the last entry of a
  normalized name, `Compile` the same entries sorted by key (`sort_keys=True`),
  `Merge` the rule a proposal adds.
- **`Deployment`.** One command or handler is one step, since what can come between
  its parts is the subject of the other modules. A file is absent, JSON (which YAML
  takes as well), block YAML, or garbled. `site` is what the machine offers (git,
  working tree, origin, permissions, place of the audit database) and `Settings`
  the environments; `Backend`, `ProposerLoads` and `Boots` are the loader and the
  lifespan, `ChecksPass` and `PredictAutodetect` are check-config. `mounted` is the
  bundle's container, whose read-only bind mount refuses a proposal.
- **`Installers`.** A command is the sequence of its writes. Those of `settings.json`
  and of the hook are steps of their own from reading to writing (`ReadSettings`,
  `SaveInstalled`, `SaveRemoved`; `ReadPrecommit`, `WritePrecommit`, `DropPrecommit`),
  with what was read in `loaded` and `existing`, and the chmod of the hook comes
  after its write (`ChmodPrecommit`) and may fail; a hook that has the marker is left
  as it is, its mode too (`KeepPrecommit`). In a worktree `.git` is a file and
  `mkdir` raises (`MkdirRaises`). `Die` ends a command before its next step or right
  after `write_text` has truncated the file; what is written comes in one piece. The
  user adds entries and lines between any two steps, to those of lex-align and with
  the text of its markers too, and leaves `settings.json` unparsable.

## 3. What the runs show

| Run | Question | Bounds |
| --- | --- | --- |
| `ReloadSafety` | A reload request beside the poller: memory changes only for what was itself validated, rows approved only for registered packages, and, without a fault, always for added ones | 2 packages, 1 requester, 3 contents of 4 forms, 1 crash or failed database call |
| `ReloadRace` | *Violated:* the older of two overlapping reloads wins for good (section 6) | 1 package, 3 contents |
| `ApprovalFlow` | No proposal is lost to another, a request is stored before its proposal and ends APPROVED, memory follows the file, and the whole implements `RegistryService` | 2 calls, 2 packages, 2 contents of an operator out of 4 forms, one of which startup takes and validation refuses, 1 fault, 2 calls begun |
| `FlowRestart` | *Violated:* a server that has applied a proposal starts again (section 6) | 1 call, 1 package |
| `EvaluatePolicies` | Whatever is let through satisfies one registry as a whole | 1 call, 2 releases, 6 registries, every service failing |
| `CveScanner` | Cache entries and alerts are what OSV said; a complete tick alerts for what was known; a scored critical vulnerability ends up blocking | 1 call, 1 release, 1 disclosure, Redis and OSV failing |
| `LocalGit` | What is written is committed, what was applied stays | 3 proposals, 2 at once, 2 packages and rules, 2 collisions or crashes |
| `PullRequests` | Only what the default branch has held is live; a branch is for one package; an open pull request is not pushed over; merges reach the disk, and memory but for overlapping handlers | 2 proposals at once, 2 handlers and the poller, 2 packages, 2 proposals, merges of other requests, reloads or direct edits, 1 review, 1 fault |
| `AuditReports` | The panel misses nobody who waits; totals, latest rows, hot packages, top projects and the summary agree with the denials given, whatever happens between their queries | 2 projects, 1 package under 2 spellings, 2 audit rows, the latest 1 shown and 1 project named, 1 row of requests, reports of one project and of all |
| `ClientGates` | No edit, commit or audit passes with what was denied all the while | 2 names, 2 versions, 4 documents, 2 changes of verdict or server |
| `Deployment` | What check-config promises holds; a restart keeps the back end; proposals and compilations say in force what they should; versions are judged as PEP 440 does, but on a bound and after an epoch or a v | 5 machines, 15 environments, 2 names in 3 spellings, 1 edit, 2 proposals, 12 versions |
| `Installers` | Installed once, whole and executable, removed, the user's edits kept, cut off at any step | 2 events, 2 entries an event, 3 edits, without git, in a repository or in a worktree |

Why the bounds are enough to be interesting: two calls are the smallest number
that can overlap on a lock, a cache entry or an index, and a third proposal
starts from the state those two left behind. Two packages distinguish "this
package's row or rule" from "another's". Three contents are needed to write one
between a reload's read and its swap and one more after it. One fault reaches
every error path, since every fault may fall at every step; two faults matter
where a recovery can fail again (`LocalGit`). Two audit rows are few: with two
spellings they cover both, and the third denial that changes the *reason* of a
row only, never whether it is listed, is left out. `Deployment` has one machine for
each answer the loader distinguishes, an environment for each error of
`load_proposer`, and documents in which both loaders and both orders of keys
disagree. Three edits let a user of `Installers` glue a line to the block, add an
entry of their own, and break `settings.json`, in any order with two commands.

The bounds that appear in guards are `MaxEdits`, `MaxFaults`, `MaxAsks`,
`MaxVersion`, `MaxReports`, `MaxBroken`, `MaxProposals`, `MaxStaged`,
`MaxTroubles`, `MaxReviews`, `MaxRequests`, `MaxRows`, `MaxChanges` and `MaxEntries`,
the sizes `Limit` and `TopLimit` and the inputs `Scopes` of reports, and the switch
`Overlap`; each is explained where it is declared.
`CHECK_DEADLOCK FALSE` is set where the system may stop: a server whose file
startup refuses stays down (`Reload*`, `ApprovalFlow`, `FlowRestart`), proposals
run out (`LocalGit`, `PullRequests`), and on some machines no command works and
no setting starts (`Deployment`). `SYMMETRY` is used in
`LocalGit`, `AuditReports` (the projects) and `Installers` (the events), none of
which has a liveness property. `AuditReports` also has a `CONSTRAINT`, `WhatIsRead`:
while a query is under way, what it does not look at is left out, the requests of a
denial report and the second project of the panel.

**Fairness.** `RegistryReload` and `ApprovalFlow`: weak fairness of `Start`
(`docker-compose.yml`: `restart: unless-stopped`), of the poller's steps (a timer)
and of every reload and call in progress (the event loop runs each ready task),
strong fairness where a call waits for an `asyncio.Lock`, which is FIFO. Nobody
is assumed to edit, ask or request. `CveScanner`: a call goes on (every outbound
request has a timeout) and each cache entry expires; nobody has to ask, and no
tick has to come.
`GitHub`: weak fairness of `Progress`, the union of what the server, git and the
poller do next and of the arrival of deliveries that are not lost; reviewers need
not act. The requests being bounded, it is the same as fairness of each of them: none
of these steps can be taken for ever without the others. The other modules state no
liveness.

## 4. What is proved

For every value of the constants, from `ConstantsAssumption` (the poller is no
reload caller, `NoPackage` is no package, operators' contents have the declared
form), `FlowAssumption`, `LocalGitAssumption` and `GitHubAssumption` (the null
values are distinct, the bounds are numbers, an operator's contents are marked as
theirs), `AuditAssumption` and `ReportsAssumption` (each spelling has a package, the
server's own project is none of the callers', a report is of one project or of all),
`EvaluateAssumption` and `ScannerAssumption` (a null value, the types of the services'
answers), `GatesAssumption` (documents are lists of dependencies, and
not the two special ones), `NamesAssumption` and `DeploymentAssumption` (an order
of the keys, the types of what operators and environments supply, the keys of a
document distinct):

| Theorem | Says |
| --- | --- |
| `TypeCorrect`, `FlowTypeCorrect` | the types of both modules |
| `LiveIsLoadable` | memory is never built from a content both loaders refuse |
| `ApprovedOnlyIfRegistered` | APPROVED only for a package a valid content has registered |
| `PollerNeverSkipsAlone` | if `Reloaders = {}`, the recorded mtime never runs ahead of memory |
| `PollerAloneImplementsService` | if `Reloaders = {}`, `RegistryReload` implements `RegistryService` |
| `RacesSwapValidContents`, `FlowSwapsValidContents` | for any number of reloads, both implement `RegistryService!RacySpec`: memory changes only for a valid content, if perhaps an older one |
| `FlowApprovesRegistered` | in `ApprovalFlow` too, only registered packages are APPROVED and memory is loadable |
| `FlowImplementsService` | if `Reloaders = {}`, all of `ApprovalFlow` implements `RegistryService` |
| `LockProtectsEdits` | while a proposal edits, only operators replace the file |
| `NoProposalLost` | no package of one write of the proposer is missing from its next |
| `RequestsAreDurable` | who waits for the proposer has its row stored |
| `LocalGitTypeCorrect` | the types of `LocalGit` |
| `WritesAreCommitted` | without a collision or a crash, what was written is committed once git is quiet |
| `AppliedProposalsStay` | an applied proposal keeps its package in the last commit |
| `GitHubTypeCorrect` | the types of `GitHub` |
| `OnlyReviewedGoesLive` | what the server uses or keeps on disk has been on the default branch, without a fault or with a registry file always there |
| `BranchesAreForOnePackage` | a proposal branch changes the rule of its own package only, with the same exception |
| `ReviewsAreKept` | no proposal pushes over the branch of an open pull request |
| `EvaluateTypeCorrect`, `ScannerTypeCorrect` | the types of `Evaluate` and `CveScanner` |
| `VerdictsAreOfOneRegistry` | what is let through satisfies the registry the call began with |
| `CachedIsOsvs` | what is cached for a version is what OSV said of it, never an outage |
| `AlertsRestOnOsv` | every alert rests on an answer of OSV at the threshold of its tick |
| `DueAlertsComeOut` | a tick that ends has alerted for what OSV knew when it began, with the stated exceptions |
| `ReportsTypes` | the types of `AuditReports` and `Reports` |
| `PanelIsComplete` | the triage panel shows every package that waits while it is read, but one first asked for between its two queries of the requests |
| `ReportsSayWhatCallersWereTold` | totals, latest rows, hot packages, named and unnamed projects and summary agree with the denials given |
| `GatesTypeCorrect` | the types of `ClientGates` |
| `EditGateIsTight`, `CommitGateIsTight`, `AuditGateIsTight` | no gate lets a name pass that was denied all the while, also when they overlap, with the stated exceptions |
| `TuplesFollowPep440` | two versions without an epoch or a v are ordered as tuples as PEP 440 orders them, unless one is the other in another spelling |
| `SatisfiesIsPep440` | so `_version_satisfies` is PEP 440's answer for such versions, but on the bounds |
| `DeploymentTypeCorrect` | the types of `Deployment` |
| `ChecksAreRight` | a checked single-team configuration starts, and the predicted back end is the chosen one, with the stated exceptions |
| `BackendIsStable` | a restart keeps the back end, with the stated exception |
| `WrittenProposalsAreInForce` | a file proposals wrote validates and has their rules in force |
| `CompilingKeepsRules` | a compiled document says what its source says, unless a name is spelled twice |
| `OnlyKnownErrors` | whatever registry is live, versions are judged as PEP 440 does, but on the bounds and where an epoch or a v is read as the first number |
| `InstallersTypes` | the types of `Installers` |
| `InstallsAreWhole` | each event has one entry, the hook one block, and neither is without what it runs, in every state |
| `CommandsDoTheirWork` | a command that ran to its end has installed or removed what it reports, with the stated exceptions |
| `EditsAreKept` | no command loses what is the user's alone, but for what is saved between its read and its write, and what passes for the block |

The inductive invariants:

- `ReloadInv` adds to the properties what a call in progress *carries*: what it
  has read exists, every package it has still to mark was registered by a valid
  content, and the rows between `SELECT` and `UPDATE` are of such a package.
  Without these the UPDATE step could approve anything. Contents are never
  removed from the history, so "registered once" is stable (`RegisteredStable`).
- `PollerInv` adds, for the poller alone, that the content it has read is no
  older than the tick's mtime and than memory. It is false with a second reload,
  which is what `ReloadRace` shows, and so the theorem has the premise.
- `FlowInv` adds `EditorsHoldLock`: a call that edits holds the lock, so two
  never edit at once, and the holder knows that only an operator can have written
  after its read; and that a call in progress has a package and, if it files a
  row, a requester.
- Nothing in `ReloadInv` and `PollerInv` needs the file and the rows to change as
  `RegistryReload` changes them. They are proved for `OpenNext`, in which others
  write any content, store any row and suffer faults of their own; `FlowStepIsOpen`
  shows that each step of `ApprovalFlow` is one of those, for which `FlowInv` has
  to say that an edit is about a package. So the registry keeps its promise inside
  the flow, and the flow implements `RegistryService`.
- `GitInv` says for `LocalGit` that the lock holder alone is between read and write
  and writes the file of now with its rule in it; that without trouble, if the
  file is not in the index, somebody is about to `add`, and if the index is not
  committed, somebody is about to `commit`; and that a package in the last commit
  is in the index and one in the index is in the file, which is why no unlocked
  `add` or `commit` of another proposal can take it out.
- `PullInv` says for `GitHub` that whoever uses the clone holds the lock; that
  without a fault a file git does not track is there only while a proposal is about
  to add it (`NoLeftover`), which is why a reset leaves nothing behind; that at
  each point of a proposal that began in a clean tree, tree, head and base differ in
  its own package at most; that what a handler is about to copy, and what anybody is
  about to swap in, has been on the default branch; and that an open pull request
  has a branch, so that a push, which needs that there is none, cannot touch it.
- `EvaluateInv` says what is in the cache and what a call is about to store: an
  answer of OSV about that version, at a time no later than now; and what a call
  carries: its registry does not block the package at the lookup, and a verdict
  other than a denial is the decision of that registry on the license and the
  score the call has fetched. `ScannerInv` adds that a tick walks a registry, that
  what it holds or has alerted for is an answer of OSV, and that an alert reaches
  the threshold of the registry walked. OSV only learns, so an answer of a time
  stays the answer of that time (`ScoreStays`). `DueInv` is about an alert that is
  due: nothing is cached that the tick could take for an answer, and what it finds
  or would find blocks, since scores only grow (`ScoreGrows`).
- `AuditInv` says that the denials given and the rows that record them correspond
  one to one, that who waits is pending and no reload in progress will mark it, and
  what the panel owes them after each of its awaits. `ReportInv` says of what a
  report has read so far that it lies *between* the denials given when it began and
  those given by now, so that no query has to see the store another has seen. The
  counts are cardinalities of sets of rows: `SameCardinality` carries a bijection
  between rows and denials over to them, `LatestFacts` says which rows a `LIMIT`
  can hide, and that a project is left out only for `TopLimit` others. `PanelInv` says
  at each await of the panel what it has found and what it still can find: who waited
  is among the explicit ones; who had never asked and has not asked since has no row
  of requests until the last query, which therefore cannot subtract it.
- `GatesInv` says that every name a gate is done with *passes*, that the commit
  gate's document is the index (nobody stages while the hook runs), that what is
  remembered as refused all the while is refused now, and that the edit gate asks
  about no name twice, without which an error it has met could be forgotten.
- `DeploymentInv` says that each rule proposals wrote is carried by its file, which
  validates (`WrittenInv`); that `compiled` means registry.json is a sorted
  arrangement of registry.yml; and `BackendSurvivesRestart`, which is inductive: a
  command only ever adds files, and a file that exists can only take git's answer
  away. Two facts about documents carry it: sorting keeps the entries, hence every
  name spelled once (`CompileFacts`), and a merge puts its rule in and keeps the
  rules of other names (`MergeFacts`).
- `InstallersInv` says what a command has already done, by the writes it has left
  (`TodoInv`, `InitProgress`, `UninstallProgress`): the script is there before an
  entry that runs it and goes after the last one (`OursInv`), the block in the hook
  is whole whenever the file is there (`BlockInv`). `HeldInv` says the same of what a command has
  read and will write back, which the user may have changed on disk since; `ModeInv`
  that a hook with the block is executable, unless the chmod is still to come or was
  skipped, by a failure or a death. The lemmas under it are about
  sequences of lines and entries: what selecting, inserting, dropping and appending
  do to those of lex-align and to those of the user.
- The version theorems have no invariant: comparing zero-padded releases is
  comparing the tuples, unless one is a prefix of the other and the rest zeros.

The refinement maps `published` to the history of the file, `up` to "not down"
and `current` to the content memory was built from; the abstract service may
start, stop, move its registry forward to a newer valid content, and nothing
else. Its racy form may move to any valid content. Every step of the code is one of
the racy service (`StepMapsToRacyService`: what a call installs it has validated
itself, and it runs only while the server serves); with the poller alone memory
never moves back (`PollerMovesForward`), so the swaps are advances.

Types of `RegistryReload` and `Evaluate`, `LiveIsLoadable`, `PollerNeverSkipsAlone`,
`LockProtectsEdits` and the invariants themselves are properties no run lists;
they are checked by the proofs alone.

Every invariant and every action property of the passing runs is the statement of
a theorem, and so are the refinements.

**Model-checked only.** Liveness: `EditsReachMemory`, `PendingGetsApproved`,
`AddedRowsAreFlipped`, `CriticalEndsUpBlocked` and `MainReachesServer`. Their proofs
need ENABLED for the fairness, which TLAPS does not reason about. The library's
induction theorems take a predicate, which none of the provers at hand can
instantiate; where a proof needs induction over sequences (`Installers_proofs`) it
is stated for a set (`NumberInduction`, `SequenceInduction`) and derived from the
well-foundedness of the numbers.

## 5. Not modelled

- The scanner's counters, which are only shown.
- The license breakdown, the agents report, the list of approval requests, and the
  rankings and buckets, which are computed from the latest rows of a report.
- The webhook's signature: a delivery that is refused changes nothing.
- More than one reload request beside the poller in the runs (the theorems have
  any number).
- In the client: the session brief, agent detection, the automatic request the
  hook files, a project without `.lexalign.toml`; `check`, `request-approval` and
  `status` as commands (single calls of the API).
- On the server: `selftest` (a probe), the stubs that print an admin key, the other
  files init lays out, check-config's warnings about cache and authentication,
  health, and the identity of a request, which decides nothing modelled here. Of
  the read-only bind mount only that it refuses a proposal.
- What else `CLAUDE.md` says: init appends its section in one step of `Installers`,
  and what the user saves between its read and its write is not looked at there.
- Strings inside documents: which document `apply_edit` makes of an edit, and which
  one the agent's tool, are inputs of `ClientGates`. Which version an installer
  resolves a specifier to: a version there is what `extract_pinned_version` returns.
- Dashboards: HTML pages over the modelled endpoints.

## 6. Where the code and its documents differ

Two runs show a disagreement that lasts:

- `ReloadRace`: `src/_drafts/git-backed-approvals.md:152` promises that reload
  endpoint and poller recover a missed webhook. `reload_registry` swaps what it
  has read without looking whether a newer content was loaded meanwhile
  (`reloader.py:110`); the poller has recorded the newer mtime and stays quiet.
- `FlowRestart`: `src/_drafts/getting-started.md:45` promises that a restart reads
  the same file. `LocalFileProposer` writes YAML into `REGISTRY_PATH`
  (`proposer/local_file.py:123`), startup parses JSON (`registry.py:114`).

Others were met while modelling. The models do what the code does; a property
that is affected states its exception.

- `reloader.py:13-15` says rows are flipped for every package the new registry
  contains; `:105` marks added packages only.
- `reloader.py:67` calls an unchanged reload a no-op; a missing
  `unknown_license_policy` means "pending_approval" at startup (`registry.py:75`)
  and "block" after a reload (`registry_schema.py:67`).
- `git-backed-approvals.md:89` has the watcher reload a proposal; when the file
  did not exist at startup, the poller's first look only remembers the mtime of
  the one the proposal creates (`reloader.py:187`).
- `proposer/local_file.py:73-77` validates the whole document before it writes it.
  Startup takes documents validation refuses: "pending_approval" as the policy for
  unknown licenses (`registry_schema.py:67`), a deprecated package without a
  replacement (`:131`). On such a file every proposal fails and every request
  waits for ever. `PendingGetsApproved` asks for files that validate.
- `git-backed-approvals.md:149-152` promises a flag of `/health` after a failed
  reload; `api/v1/health.py` has none.
- `evaluate.py:7-9`: a new critical CVE still blocks; one that OSV reports with a
  CVSS vector and no number has no score and never blocks (`cve.py:44`,
  `registry.py:90-93`). `CriticalKnown` asks for a score.
- The license cache is keyed without a version (`licenses.py:186`): a release is
  judged by the license of the one another caller asked about, and an unpinned
  evaluation takes that one for the latest (`licenses.py:122`).
- `src/docs/dashboards.md:165`: alerts are at most a cycle behind. An unpinned
  evaluation while PyPI is down stores under "latest", and a tick takes that for
  fresh (`cve.py:166`); and when OSV does not answer a tick, `resolve_cves` returns no
  vulnerability and the alert waits for the next tick. `DueAlertsAreWritten` excepts
  both.
- `dashboards.md:163`: a scan warms the cache for everyone; it stores under
  "latest", evaluations look up a version (`cve_scanner.py:118`).
- `cve_scanner.py:120` scans "latest known versions"; the query names no version,
  so fixed vulnerabilities of old releases raise alerts.
- `proposer/local_git.py:121-123` treats "nothing to commit" as success, but looks
  for it on stderr (`:129`); git prints it on stdout.
- `proposer/local_git.py:3-5,110-111`: one commit per change, and no other file
  rides along. `git commit` takes the whole index: other proposals' changes
  (`:60`) and what the operator has staged (`:124`).
- `git-backed-approvals.md:152-158`: a missed webhook is recoverable; only the
  webhook fetches the repository (`reloader.py:85`), so it waits for the next
  merge. `:241` subscribes to pushes; every event but `pull_request` is ignored
  (`api/v1/registry.py:274`). `MainReachesServer` excepts both.
- `proposer/github.py:239-241`: the hard reset keeps leftover state of a previous call
  from poisoning a run. It leaves a file git does not track: on a default branch
  without a registry file, that of a proposal that died before `git add` (`:294`) is
  read by the next proposal (`:268`), whose branch takes the rule along, and copied
  by the next webhook (`:192`), unreviewed. `OnlyReviewedIsLive` and
  `PullsAreForOnePackage` except it.
- `proposer/github.py:182-185`: the webhook refreshes the file so that the reload sees
  the merge. The reload runs outside the lock (`api/v1/registry.py:297`): of two
  handlers the one that read the older file may swap last, and the poller, which
  has recorded the newer mtime, stays quiet. `MainReachesServer` promises the file
  only where two handlers have overlapped.
- `proposer/github.py:9-11`: a second proposal amends the branch; on a shallow
  clone the checkout of `origin/<branch>` fails (`:257`), and so does the proposal.
- `audit.py:849-850`: a package with an explicit request is in the pending panel;
  the subtracted requests have any status (`:837`), so a package approved and then
  dropped is in neither list. `PanelMissesNobody` is about packages asked for
  since they were dropped, and about those never asked for.
- `api/v1/registry.py:115-126`: the panel's two streams together show what waits. They
  are read one after the other (`:131-132`): a package that is first asked for after
  the query of the pending requests and before the one of all requests
  (`audit.py:836-838`) is pending too late for the first list and requested too
  early for the second. The next panel has it. `PanelMissesNobody` names this as its
  exception.
- `audit.py:568`: the legal report names ten projects only, and does not say that
  there are more. `ReportsAddUp` says which may be missing.
- `audit.py:814`: pre-screened packages were always allowed; one or two denials
  are pre-screened too (`:197`).
- `audit.py:458-463`: hot packages include provisional verdicts; the query asks
  for the category "cve", which those rows do not have (`:616`).
- `dashboards.md:115`: CVE denials by severity; only the latest 100 rows are
  bucketed (`audit.py:467`).
- `dashboards.md:159-161`: alerts show in the client's status; they are recorded
  under the server's own project (`audit.py:306`), and the client filters by its.
- `audit.py:31-32`: an alert is no decision; the project summary counts it as an
  evaluation (`:937`).
- `audit.py:426`: every row by license; rows without one are left out (`:527`).
- `src/src/lex_align_client/claude_hooks.py:163-165`: DENIED packages are not
  added; an error other than an outage ends the questions, and under `fail_open`
  the edit goes ahead after a DENIED (`:233`). `EditGateHolds` excepts it.
- `pyproject_utils.py:57` simulates how an edit affects the file, replacing the first
  occurrence (`:63`, `:67`). A tool that replaces every one (`replace_all`), or edits a
  file that has changed since, may write another document, with names nobody asked
  about. `EditGateHolds` is about tools that write what was simulated.
- `claude_hooks.py:156` asks before version bumps; only added names are
  (`pyproject_utils.py:45`).
- `precommit.py:4-6` reads the staged document; it returns 0 when the working tree
  has none (`:73`). `CommitGateHolds` excepts it. Of two entries for one package
  only the last is asked about (`pyproject_utils.py:38`).
- `src/docs/single-user-quickstart.md:34`: quickstart again is idempotent. It always
  compiles `registry.json` anew (`quickstart.py:86-89`), over the proposals the
  server has written there; they were never in `registry.yml`.
- `single-user-quickstart.md:122-126`: the watcher picks up edits of `registry.yml`;
  the server it starts watches `registry.json` (`quickstart.py:127`).
- `cli.py:117-123`: `quickstart --no-serve` prints a command with
  `REGISTRY_PATH=registry.yml`, and block YAML does not start (`registry.py:114`).
  For the same reason `src/_drafts/getting-started.md:56-58` shows a check-config run
  in which every check of a `registry.yml` is fine and after which nothing starts;
  `CheckedConfigBoots` excepts it.
- `proposer/loader.py:16` and `git-backed-approvals.md:82`: a `REGISTRY_PATH` inside a
  working tree gives `local_git`. `git -C` gets the file itself once it exists
  (`:139`), which is no directory, and the choice falls to `local_file`; check-config
  still announces `local_git` (`check_config.py:288`). `PredictionAgrees` and
  `BackendSurvivesRestart` except it.
- `git-backed-approvals.md:88-89`: `init` and `docker compose up` give `local_file`,
  and Approve writes the YAML; the bundle mounts `registry.json` read-only
  (`_assets/docker-compose.yml:19`), where the write fails.
- `proposer/loader.py:87-95`: a token in `GITHUB_TOKEN` counts only when
  `REGISTRY_REPO_URL` is not set; the path inside the repository is never detected,
  since `registry_file_path` has a default (`config.py`).
- `registry.py:172-183` takes the leading digits of each part: of `1!1.0` the epoch, so
  that it is below a `max_version` of 2.0, which PEP 440 has it above; of `v2.0`
  nothing, so that it is below a `min_version` of 1.0. `VersionErrorsAreKnown` and the
  theorems except versions written like this, and the bounds.
- `src/docs/for-agents.md:213`: version-constrained is allowed if the version
  satisfies; without a version it always is (`registry.py:151`).
- `quickstart.py:16` describes a marker that keeps the two kinds of setup apart;
  nobody reads it.
- `src/src/lex_align_client/settings.py:93` takes any command that mentions lex-align
  for its own: install skips the event, status says installed, uninstall removes the
  user's entry. `:58-65`: a `settings.json` that does not parse counts as empty and is
  overwritten. `CommandsTakeEffect` and `UserEditsSurvive` except these, and what the
  next three say.
- `settings.py:192,198`: a line of the user's with the text of the marker passes for the
  block: init installs nothing, status says installed, and uninstall drops it and
  what follows up to a blank line, as it drops the lines right below the block
  (`:197-207`). An append after a line `exit 0` (`:176`) is never reached.
- `settings.py:174-183`: init is idempotent (`:1`). One that dies between writing the hook
  and its chmod leaves a hook git ignores; every later init finds the marker,
  returns at `:175`, and says that the hook is installed.
- `settings.py:88-103,107-116,173-177,191-208`: each file is read, changed in memory and
  written back; what the user saves in between is overwritten.
- `settings.py:157-161`: in a worktree `.git` is a file, `.git/hooks` cannot be made, and
  init ends in an exception with the Claude hooks installed. It has not run to its
  end, and `CommandsTakeEffect` says nothing of it.

## 7. Plan

The order follows the weight of the behaviour. Done: the registry's life and the
approval flow, evaluation, scanner, both git proposers, audit store, the client's
gates and installers, versions and documents, the deployment's commands and choices,
and the proofs of every safety property the runs check. To come:

1. Proofs: abstract specifications of the cache that `Evaluate` and the scanner share
   and of the branches of `GitHub`, with their refinements.
2. In `Reports`: license breakdown and agents report; reloads that overlap the panel.
   In `GitHub`: a branch whose pull request was never opened blocks its package;
   liveness of a proposal.
3. In `ClientGates`: the automatic request of the hook, composed with `ApprovalFlow`.
