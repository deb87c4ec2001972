----------------------------- MODULE Deployment -----------------------------
(***************************************************************************)
(* One directory from the first command to the running server: the         *)
(* registry in its two forms (registry.yml, registry.json), the commands   *)
(* that write them (init, quickstart, registry compile), check-config, the *)
(* start of the server under the settings of its environment (main.py      *)
(* lifespan, load_registry, load_authenticator, load_proposer), and the    *)
(* proposals and reloads of the server that runs.                          *)
(*                                                                         *)
(* Each command and each handler is one step here; what can happen inside  *)
(* a proposal or a reload is the subject of RegistryReload, LocalGit and   *)
(* GitHub.                                                                 *)
(***************************************************************************)
EXTENDS Policy

CONSTANTS
    Settings,    \* the environments the server may be given
    Sites,       \* the machines and directories it may be run in
    Example,     \* the entries of registry.example.yml
    Edits,       \* the documents an operator may put into registry.yml
    Lax,         \* the entries of a hand-written registry.json
    Proposals,   \* the rules an approved proposal may carry
    Versions,    \* the versions evaluations ask about
    Absent,      \* no such file, no registry
    MaxEdits,    \* bound: edits of registry.yml
    MaxProposals \* bound: proposals

\* json: what json.loads takes (and YAML 1.1 too); yaml: block style, which
\* only the YAML loader takes; garbled: neither does.
Document == [form : {"json", "yaml", "garbled"}, entries : Seq(Entry)]
Garbled == [form |-> "garbled", entries |-> <<>>]
Yaml(entries) == [form |-> "yaml", entries |-> entries]
Json(entries) == [form |-> "json", entries |-> entries]
Paths == {"yml", "json"}

\* REGISTRY_PATH, REGISTRY_PROPOSER, REGISTRY_REPO_URL, the token in
\* REGISTRY_REPO_TOKEN or only in GITHUB_TOKEN, and the authentication:
\* switched off, or a back end that loads or does not.
Setting == [path : Paths \cup {"unset"},
            explicit : {"", "log_only", "local_file", "local_git", "github", "typo"},
            repo : BOOLEAN,
            token : {"none", "setting", "environment"},
            auth : {"off", "loads", "raises"}]
\* git on PATH; the directory inside a working tree, whose origin is on
\* GitHub; the directory writable; where the audit database goes.
Site == [git : BOOLEAN, tree : BOOLEAN, origin : BOOLEAN, writable : BOOLEAN,
         audit : {"writable", "no_parent", "read_only"}]
\* The container of the bundle's image: no git, /etc/lexalign writable.
Container == [git |-> FALSE, tree |-> FALSE, origin |-> FALSE, writable |-> TRUE,
              audit |-> "writable"]
Backends == {"log_only", "local_file", "local_git", "github"}

ASSUME DeploymentAssumption ==
    /\ Settings \subseteq Setting /\ Settings # {}
    /\ Sites \subseteq Site
    /\ Example \in Seq(Entry) /\ ValidEntries(Example)
    /\ Edits \subseteq {d \in Document : d.form \in {"yaml", "garbled"}}
    /\ Lax \subseteq {d \in Document : d.form = "json"}
    /\ DistinctKeys(Example) /\ \A d \in Edits \cup Lax : DistinctKeys(d.entries)
    /\ Absent \notin Document
    /\ Proposals \subseteq Rule
    /\ Versions \subseteq {v \in Version : IsGiven(v)}
    /\ MaxEdits \in Nat /\ MaxProposals \in Nat

VARIABLES
    site,       \* the machine and the directory
    file,       \* registry.yml and registry.json
    marked,     \* init's .lexalign-server.toml is there
    server,     \* "down", "up"
    settings,   \* the settings of the last start
    mounted,    \* the server runs in the container, on a read-only mount
    backend,    \* the proposer of the last start
    live,       \* state.registry: the rule of each name, or Absent
    written,    \* history: the rules proposals wrote into each file since
                \*   a command or an operator wrote it
    compiled,   \* history: registry.json is the compiled registry.yml
    edits, proposed

serverVars == <<server, settings, mounted, backend, live>>
vars == <<site, file, marked, serverVars, written, compiled, edits, proposed>>

Exists(p) == p \in Paths /\ file[p] # Absent
Parses(d) == d.form \in {"json", "yaml"}              \* yaml.safe_load
Validates(d) == Parses(d) /\ ValidEntries(d.entries)  \* validate_registry

-----------------------------------------------------------------------------
(* proposer/loader.py.  The path tried with `git -C` is the registry file, *)
(* if it exists, and git refuses a path that is not a directory: a tree is *)
(* only ever detected around a file that is still to be created.           *)

GitAnswers(s, at) == at.git /\ at.tree /\ ~Exists(s.path)

\* Mutant: the tree is looked for without asking whether git is there.
AutodetectBlindly(s, at) ==
    CASE s.repo -> "github"
      [] ~s.repo /\ s.path = "unset" -> "log_only"
      [] ~s.repo /\ s.path # "unset" ->
           IF at.tree /\ ~Exists(s.path) THEN "local_git"
           ELSE IF at.writable THEN "local_file" ELSE "log_only"
\* Mutant: a missing file is not replaced by its directory.
AutodetectFileOnly(s, at) ==
    CASE s.repo -> "github"
      [] ~s.repo /\ ~Exists(s.path) -> "log_only"
      [] ~s.repo /\ Exists(s.path) -> IF at.writable THEN "local_file" ELSE "log_only"

Autodetect(s, at) ==
    CASE s.repo -> "github"
      [] ~s.repo /\ s.path = "unset" -> "log_only"
      [] ~s.repo /\ s.path # "unset" ->
           IF GitAnswers(s, at) THEN "local_git"
           ELSE IF at.writable THEN "local_file" ELSE "log_only"

Backend(s, at) == IF s.explicit # "" THEN s.explicit ELSE Autodetect(s, at)

\* The repository of the GitHub back end: the one set, or the origin.
HasRepo(s, at) == s.repo \/ (s.path # "unset" /\ GitAnswers(s, at) /\ at.origin)
\* GITHUB_TOKEN is looked at only where the repository is detected.
HasToken(s) ==
    s.token = "setting" \/ (s.token = "environment" /\ ~s.repo /\ s.path # "unset")

\* Mutant: an unknown name is taken for a custom back end.
ProposerLoadsAnything(s, at) ==
    Backend(s, at) \in {"local_git", "github"} => at.git

\* load_proposer returns instead of raising.
ProposerLoads(s, at) ==
    LET b == Backend(s, at)
    IN  /\ b \in Backends
        /\ b \in {"local_file", "local_git"} => s.path # "unset"
        /\ b \in {"local_git", "github"} => at.git
        /\ b = "github" => HasRepo(s, at) /\ HasToken(s)

\* The lifespan reaches its yield: the audit database opens, load_registry
\* finds no file or JSON, and the authenticator and the proposer load.
Boots(s, at) ==
    /\ at.audit # "read_only"
    /\ Exists(s.path) => file[s.path].form = "json"
    /\ s.auth # "raises"
    /\ ProposerLoads(s, at)

-----------------------------------------------------------------------------
(* check_config.py: no check fails (a warning lets the run pass).          *)

CheckRegistryPath(s, at) ==
    s.path # "unset" /\ (Exists(s.path) \/ at.writable)
CheckRegistryYaml(s) == Exists(s.path) => Validates(file[s.path])
CheckAuditPath(at) == at.audit = "writable"
ChecksPass(s, at) ==
    CheckRegistryPath(s, at) /\ CheckRegistryYaml(s) /\ CheckAuditPath(at)

\* _predict_autodetect looks for .git from the file upwards.
PredictAutodetect(s, at) ==
    CASE s.repo -> "github"
      [] ~s.repo /\ s.path = "unset" -> "log_only"
      [] ~s.repo /\ s.path # "unset" ->
           IF at.tree THEN "local_git"
           ELSE IF at.writable THEN "local_file" ELSE "log_only"

-----------------------------------------------------------------------------
(* The files.                                                              *)

NoneWritten == [n \in Names |-> NoRule]

Init ==
    /\ site \in Sites
    /\ file \in [yml : {Absent} \cup Edits, json : {Absent} \cup Lax]
    /\ marked = FALSE
    /\ server = "down"
    /\ settings = CHOOSE s \in Settings : TRUE  \* no start yet
    /\ mounted = FALSE
    /\ backend = "log_only"
    /\ live = Absent
    /\ written = [p \in Paths |-> NoneWritten]
    /\ compiled = FALSE
    /\ edits = 0
    /\ proposed = 0

EditRegistry ==
    /\ edits < MaxEdits
    /\ \E d \in Edits : file' = [file EXCEPT !.yml = d]
    /\ written' = [written EXCEPT !.yml = NoneWritten]
    /\ compiled' = FALSE
    /\ edits' = edits + 1
    /\ UNCHANGED <<site, marked, serverVars, proposed>>

\* registry.yml becomes "yml" and registry.json what "yml" compiles to.
CompileInto(yml) ==
    /\ \E c \in Compile(yml.entries) : file' = [yml |-> yml, json |-> Json(c)]
    /\ written' = [yml |-> IF yml = file.yml THEN written.yml ELSE NoneWritten,
                   json |-> NoneWritten]
    /\ compiled' = TRUE

\* lex-align-server registry compile registry.yml registry.json
RegistryCompile ==
    /\ site.writable
    /\ Exists("yml")
    /\ Validates(file.yml)
    /\ CompileInto(file.yml)
    /\ UNCHANGED <<site, marked, serverVars, edits, proposed>>

\* _write, for registry.yml: an existing file is kept unless forced.
Materialized(force) == IF Exists("yml") /\ ~force THEN file.yml ELSE Yaml(Example)

\* init_target: only a forced run, or one without registry.json, compiles, and
\* the marker is written last.  What does not validate is never the example,
\* so a run that fails there has changed neither file.
InitBundle(force) ==
    LET yml == Materialized(force)
    IN  /\ site.writable
        /\ ~marked \/ force
        /\ IF force \/ ~Exists("json")
           THEN Validates(yml) /\ CompileInto(yml)
           ELSE /\ file' = [file EXCEPT !.yml = yml]
                /\ compiled' = (compiled /\ yml = file.yml)
                /\ UNCHANGED written
        /\ marked' = TRUE
        /\ UNCHANGED <<site, serverVars, edits, proposed>>

-----------------------------------------------------------------------------
(* The server.                                                             *)

RulesOf(d) == Rules(d.entries)

\* create_app's lifespan under settings s on "at", with the files as they are.
StartServer(s, at, asMounted) ==
    /\ server = "down"
    /\ Boots(s, at)
    /\ server' = "up"
    /\ settings' = s
    /\ mounted' = asMounted
    /\ backend' = Backend(s, at)
    /\ live' = IF Exists(s.path) THEN RulesOf(file[s.path]) ELSE Absent

Serve ==
    /\ \E s \in Settings : StartServer(s, site, FALSE)
    /\ UNCHANGED <<site, file, marked, written, compiled, edits, proposed>>

\* docker compose up: registry.json is bind-mounted read-only.
ComposeUp ==
    /\ marked
    /\ Exists("json")
    /\ \E s \in Settings :
         s.path = "json" /\ StartServer(s, Container, TRUE)
    /\ UNCHANGED <<site, file, marked, written, compiled, edits, proposed>>

\* quickstart compiles always; the server it then starts (a step of its own,
\* Serve with path "json") may fail to bind if one is up already.
Quickstart(force) ==
    LET yml == Materialized(force)
    IN  /\ site.writable
        /\ Validates(yml)
        /\ CompileInto(yml)
        /\ UNCHANGED <<site, marked, serverVars, edits, proposed>>

\* LocalFileProposer.propose, and LocalGitProposer.propose around it (its
\* commit comes after the write).  The other back ends leave the file.
Propose ==
    /\ proposed < MaxProposals
    /\ server = "up"
    /\ backend \in {"local_file", "local_git"}
    /\ site.writable /\ ~mounted           \* else os.replace raises
    /\ LET p == settings.path
           old == IF Exists(p) THEN file[p] ELSE Yaml(<<>>)
       IN  \E n \in Names, r \in Proposals :
             LET new == Merge(old.entries, n, r)
             IN  /\ Parses(old)
                 /\ ValidEntries(new)
                 /\ file' = [file EXCEPT ![p] = Yaml(new)]
                 /\ written' = [written EXCEPT ![p][n] = r]
    /\ compiled' = FALSE
    /\ proposed' = proposed + 1
    /\ UNCHANGED <<site, marked, serverVars, edits>>

\* reload_registry.
Reload ==
    /\ server = "up"
    /\ Exists(settings.path)
    /\ Validates(file[settings.path])
    /\ live' = RulesOf(file[settings.path])
    /\ UNCHANGED <<site, file, marked, server, settings, mounted, backend, written,
                   compiled, edits, proposed>>

Stop ==
    /\ server = "up"
    /\ server' = "down"
    /\ live' = Absent
    /\ UNCHANGED <<site, file, marked, settings, mounted, backend, written, compiled,
                   edits, proposed>>

Next ==
    \/ EditRegistry \/ RegistryCompile \/ Serve \/ ComposeUp \/ Propose \/ Reload \/ Stop
    \/ \E force \in BOOLEAN : InitBundle(force) \/ Quickstart(force)

Spec == Init /\ [][Next]_vars

-----------------------------------------------------------------------------
(* Properties.                                                             *)

\* Type correctness.  The settings of the last start picked a back end that
\* has everything it needs.
DeploymentTypeOK ==
    /\ site \in Sites
    /\ file \in [Paths -> {Absent} \cup Document]
    /\ \A p \in Paths : Exists(p) => DistinctKeys(file[p].entries)
    /\ marked \in BOOLEAN /\ mounted \in BOOLEAN /\ compiled \in BOOLEAN
    /\ server \in {"down", "up"}
    /\ settings \in Settings
    /\ backend \in Backends
    /\ live # Absent => server = "up" /\ live \in [Names -> Rule \cup {NoRule}]

\* An environment of the single-team kind (no GitHub, authentication off,
\* the proposer left to the detection or set to a file one) in which no check
\* fails starts the server; the exception is a registry file in block YAML,
\* which the checks accept and load_registry does not.
CheckedConfigBoots ==
    \A s \in Settings :
      /\ s.explicit \in {"", "log_only", "local_file"} /\ ~s.repo /\ s.auth = "off"
      /\ ChecksPass(s, site)
      => \/ Boots(s, site)
         \/ Exists(s.path) /\ file[s.path].form = "yaml"

\* check-config names the back end the loader would choose, except inside a
\* working tree where git cannot answer: git is missing, or the registry file
\* exists.
PredictionAgrees ==
    \A s \in Settings :
      \/ PredictAutodetect(s, site) = Autodetect(s, site)
      \/ s.path # "unset" /\ site.tree /\ (~site.git \/ Exists(s.path))

\* check-config says whether the server starts and which back end it gets.
CheckConfigIsRight == CheckedConfigBoots /\ PredictionAgrees

\* A server restarted in its directory with its settings keeps its back end,
\* whatever has been edited, compiled and proposed meanwhile; the exception is
\* a back end found through git while the registry file did not exist yet.
BackendSurvivesRestart ==
    \/ server = "down" \/ mounted
    \/ Backend(settings, site) = backend /\ ProposerLoads(settings, site)
    \/ /\ backend \in {"local_git", "github"}
       /\ site.tree
       /\ Exists(settings.path)

\* What the proposer has written into a file stays in force: the file is one
\* the next reload accepts, and each rule written since an operator or a
\* command last wrote the file is the rule of its name, unless the file
\* spells the name in a second way further down.
ProposalsAreInForce ==
    \A p \in Paths, n \in Names :
      written[p][n] # NoRule =>
        /\ Validates(file[p])
        /\ \/ RulesOf(file[p])[n] = written[p][n]
           \/ SpelledTwice(file[p].entries, n)

\* The compiled registry enforces what the YAML it was compiled from does,
\* unless a name is spelled twice: compiling sorts the keys, and the last
\* spelling wins.
CompiledIsEquivalent ==
    compiled =>
      \A n \in Names :
        \/ RulesOf(file.json)[n] = RulesOf(file.yml)[n]
        \/ SpelledTwice(file.yml.entries, n)

\* A pinned version of a version-constrained package gets the answer PEP 440
\* gives, unless it is a bound of the rule under another spelling (padded
\* with zeros, or one of its pre-, post- or development releases), or it or a
\* bound is written with an epoch or a v, which are read as the first number.
VersionErrorsAreKnown ==
    live # Absent =>
      \A n \in Names, v \in Versions :
        live[n] # NoRule /\ live[n].status = "version-constrained" =>
          \/ (Lookup(live, n, v) = "allow") = PepSatisfies(v, live[n])
          \/ OnTheBoundary(v, live[n].min)
          \/ OnTheBoundary(v, live[n].max)
          \/ Misread(v) \/ Misread(live[n].min) \/ Misread(live[n].max)

=============================================================================
