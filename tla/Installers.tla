----------------------------- MODULE Installers -----------------------------
(***************************************************************************)
(* What lex-align-client init and uninstall do to a project (client cli.py,*)
(* settings.py, claudemd.py): the hooks in .claude/settings.json, the      *)
(* wrapper script they run, CLAUDE.md, and the git pre-commit hook.  A     *)
(* command is a sequence of writes; settings.json and the hook, which      *)
(* the user edits too, are read first, changed in memory and written back. *)
(* The user may act, and the process may die, between any two steps; a     *)
(* death may also cut a write off.  What else CLAUDE.md says is left out.  *)
(*                                                                         *)
(* settings.json is Absent, Broken (json.loads raises) or the entries of   *)
(* each event, an entry being the set of its commands: "lex" is ours,      *)
(* "mention" a command of the user's with lex-align in its text.  The      *)
(* pre-commit hook is Absent or its lines: "cmd" and "mention" are the     *)
(* user's, the latter with the text of the marker in it, "marker" and      *)
(* "body" the block of lex-align.                                          *)
(***************************************************************************)
EXTENDS Naturals, Sequences

CONSTANTS
    Events,      \* SessionStart, PreToolUse, SessionEnd
    Absent, Broken,
    MaxEntries,  \* bound: entries of an event when the user adds one
    MaxEdits     \* bound: the user's edits

Parts == {"hooks", "md", "precommit"}  \* init without --no-claude-hooks, ...
Commands == {"lex", "mention", "user"}
UsersLines == {"cmd", "mention"}
Lines == UsersLines \cup {"blank", "marker", "body"}

ASSUME InstallersAssumption ==
    /\ Absent # Broken
    /\ Absent \notin Seq(Lines) /\ Absent \notin Seq({"user", "section"})
    /\ \A s \in {Absent, Broken} : s \notin [Events -> Seq(SUBSET Commands)]
    /\ MaxEntries \in Nat /\ MaxEdits \in Nat

VARIABLES
    repo,      \* .git: "none", "directory", or "file" (a worktree's)
    settings,  \* .claude/settings.json
    script,    \* .claude/lex-align-hook.py: "none", "ours", or "cut" (empty)
    md,        \* CLAUDE.md: its parts, in order
    hook,      \* .git/hooks/pre-commit
    executable,  \* its mode: git runs no other
    todo,      \* the writes the running command has still to do
    phase,     \* of the first of them: "start", "read" or "written"
    loaded,    \* settings.json as the running command has read it
    existing,  \* and the pre-commit hook
    parts,     \* the parts it was called for
    finished,  \* history: the command that ran to its end last, with no other
               \*   begun since
    skipped,   \* history: the last block written was not made executable
    edits

fileVars == <<settings, script, md, hook, executable>>
heldVars == <<phase, loaded, existing>>
vars == <<repo, fileVars, todo, heldVars, parts, finished, skipped, edits>>

NoEntries == [e \in Events |-> <<>>]
NothingHeld == phase = "start" /\ loaded = NoEntries /\ existing = Absent

Init ==
    /\ repo \in {"none", "directory", "file"}
    /\ settings = Absent
    /\ script = "none"
    /\ md \in {Absent, <<"user">>}
    /\ hook = Absent
    /\ executable = FALSE
    /\ todo = <<>>
    /\ NothingHeld
    /\ parts = {}
    /\ finished = "none"
    /\ skipped = FALSE
    /\ edits = 0

-----------------------------------------------------------------------------
(* Parts of a sequence: where it has an element of S, and what it has at   *)
(* the places of I, in their order.                                        *)

Where(s, S) == {i \in 1..Len(s) : s[i] \in S}

At(s, I) ==
    LET upto[i \in 0..Len(s)] ==
            IF i = 0 THEN <<>>
            ELSE IF i \in I THEN Append(upto[i - 1], s[i]) ELSE upto[i - 1]
    IN  upto[Len(s)]

Only(s, S) == At(s, Where(s, S))

-----------------------------------------------------------------------------
(* settings.json.                                                          *)

Loads(s) == s \notin {Absent, Broken}
\* _load_settings: a file that does not parse counts as empty.
Load(s) == IF Loads(s) THEN s ELSE NoEntries

\* The entries with a command in which _LEX_MARKER occurs.
Lex == {entry \in SUBSET Commands : entry \cap {"lex", "mention"} # {}}
NotLex == (SUBSET Commands) \ Lex
AnyLex(entries) == Where(entries, Lex) # {}

\* Mutant: an event that has entries of its own is left alone.
InstallHooksIfNone(d) ==
    [e \in Events |-> IF d[e] # <<>> THEN d[e] ELSE <<{"lex"}>>]

InstallHooks(d) ==
    [e \in Events |->
       IF AnyLex(d[e]) THEN d[e] ELSE Append(d[e], {"lex"})]

\* Mutant: an event that has an entry of ours is dropped as a whole.
RemoveEvents(d) == [e \in Events |-> IF AnyLex(d[e]) THEN <<>> ELSE d[e]]

RemoveHooks(d) ==
    [e \in Events |-> Only(d[e], NotLex)]

-----------------------------------------------------------------------------
(* The pre-commit hook.                                                    *)

\* str.rstrip: the lines up to the last one that is not blank.
Stripped(h) ==
    LET Ends == {i \in 0..Len(h) : i > 0 => h[i] # "blank"}
    IN  SubSeq(h, 1, CHOOSE i \in Ends : \A j \in Ends : j <= i)

\* _PRECOMMIT_MARKER in text.
Marked == {"marker", "mention"}
HasBlock(h) == h # Absent /\ Where(h, Marked) # {}

\* The lines that start a new file are left out.
InstallPrecommit(h) ==
    IF HasBlock(h) THEN h
    ELSE (IF h = Absent THEN <<>> ELSE Stripped(h)) \o <<"blank", "marker", "body">>

\* What passes for the block: from a line with the marker in it to the next
\* blank line, that one included.
InBlock(h, i) ==
    \E m \in 1..i : h[m] \in Marked /\ \A j \in (m + 1)..(i - 1) : h[j] # "blank"

RemovePrecommit(h) ==
    IF ~HasBlock(h) THEN h
    ELSE Stripped(At(h, {i \in 1..Len(h) : ~InBlock(h, i)}))

-----------------------------------------------------------------------------
(* The commands.                                                           *)

\* cli.py init: the writes in their order.
Begin(for, writes) ==
    /\ todo = <<>>
    /\ todo' = writes
    /\ parts' = for
    /\ finished' = "none"
    /\ UNCHANGED <<repo, fileVars, heldVars, skipped, edits>>

\* Mutant: nobody looks for .git.
InitWritesAnywhere(for) ==
    <<"write script", "install hooks", "install md", "install precommit", "end init">>

InitWrites(for) ==
    (IF "hooks" \in for THEN <<"write script", "install hooks">> ELSE <<>>)
    \o (IF "md" \in for THEN <<"install md">> ELSE <<>>)
    \o (IF "precommit" \in for /\ repo # "none" THEN <<"install precommit">> ELSE <<>>)
    \o <<"end init">>

BeginInit == \E for \in SUBSET Parts : Begin(for, InitWrites(for))

\* Mutant: the script goes first.
UninstallScriptFirst ==
    <<"unlink script", "remove hooks", "remove precommit", "end uninstall">>

\* cli.py uninstall: remove_claude_hooks, remove_precommit.
UninstallWrites ==
    <<"remove hooks", "unlink script", "remove precommit", "end uninstall">>

BeginUninstall == Begin(Parts, UninstallWrites)

Doing(write) == todo # <<>> /\ Head(todo) = write
LetGo == phase' = "start" /\ loaded' = NoEntries /\ existing' = Absent
Done == todo' = Tail(todo) /\ LetGo /\ UNCHANGED <<repo, parts, edits>>

WriteScript ==
    /\ Doing("write script") /\ Done
    /\ script' = "ours"
    /\ UNCHANGED <<settings, md, hook, executable, finished, skipped>>

ReadSettings ==
    /\ Doing("install hooks") \/ Doing("remove hooks")
    /\ phase = "start"
    /\ phase' = "read"
    /\ loaded' = Load(settings)
    /\ UNCHANGED <<repo, fileVars, todo, existing, parts, finished, skipped, edits>>

SaveInstalled ==
    /\ Doing("install hooks") /\ phase = "read" /\ Done
    /\ settings' = InstallHooks(loaded)
    /\ UNCHANGED <<script, md, hook, executable, finished, skipped>>

SaveRemoved ==
    /\ Doing("remove hooks") /\ phase = "read" /\ Done
    /\ settings' = RemoveHooks(loaded)
    /\ UNCHANGED <<script, md, hook, executable, finished, skipped>>

UnlinkScript ==
    /\ Doing("unlink script") /\ Done
    /\ script' = "none"
    /\ UNCHANGED <<settings, md, hook, executable, finished, skipped>>

HasSection(doc) == Where(doc, {"section"}) # {}

\* install_claude_md: appended unless its heading is there.
InstallMd ==
    /\ Doing("install md") /\ Done
    /\ md' = CASE md = Absent -> <<"section">>
               [] md # Absent /\ HasSection(md) -> md
               [] md # Absent /\ ~HasSection(md) -> Append(md, "section")
    /\ UNCHANGED <<settings, script, hook, executable, finished, skipped>>

Stop == todo' = <<>> /\ LetGo /\ parts' = {} /\ UNCHANGED <<repo, finished, edits>>

\* .git/hooks cannot be made below a .git that is a file: mkdir raises.
MkdirRaises ==
    /\ Doing("install precommit") /\ repo = "file"
    /\ Stop
    /\ UNCHANGED <<fileVars, skipped>>

\* install_precommit returns early on a file with the marker in it, the mode
\* left as it is, remove_precommit on one without.
KeepPrecommit ==
    /\ phase = "start"
    /\ \/ Doing("install precommit") /\ repo # "file" /\ HasBlock(hook)
       \/ Doing("remove precommit") /\ ~HasBlock(hook)
    /\ Done
    /\ UNCHANGED <<fileVars, finished, skipped>>

ReadPrecommit ==
    /\ phase = "start"
    /\ \/ Doing("install precommit") /\ repo # "file" /\ ~HasBlock(hook)
       \/ Doing("remove precommit") /\ HasBlock(hook)
    /\ phase' = "read"
    /\ existing' = hook
    /\ UNCHANGED <<repo, fileVars, todo, loaded, parts, finished, skipped, edits>>

\* A file that is new is not executable, one that is not keeps its mode.
WritePrecommit ==
    /\ Doing("install precommit") /\ phase = "read"
    /\ phase' = "written"
    /\ existing' = Absent
    /\ hook' = InstallPrecommit(existing)
    /\ UNCHANGED <<repo, settings, script, md, executable, todo, loaded, parts,
                   finished, skipped, edits>>

\* chmod is tried: an OSError (a file of someone else's) is passed over.
ChmodPrecommit ==
    /\ Doing("install precommit") /\ phase = "written" /\ Done
    /\ \/ executable' = TRUE /\ skipped' = FALSE
       \/ UNCHANGED executable /\ skipped' = TRUE
    /\ UNCHANGED <<settings, script, md, hook, finished>>

DropPrecommit ==
    /\ Doing("remove precommit") /\ phase = "read" /\ Done
    /\ hook' = RemovePrecommit(existing)
    /\ UNCHANGED <<settings, script, md, executable, finished, skipped>>

Finish ==
    /\ Doing("end init") \/ Doing("end uninstall")
    /\ Done
    /\ finished' = IF Doing("end init") THEN "init" ELSE "uninstall"
    /\ UNCHANGED <<fileVars, skipped>>

\* The process dies before its next step, or in the middle of a write:
\* write_text has truncated the file, and what is written comes in one piece.
Die ==
    /\ todo # <<>>
    /\ Stop
    /\ \/ UNCHANGED fileVars
       \/ /\ Doing("write script")
          /\ script' = "cut"
          /\ UNCHANGED <<settings, md, hook, executable>>
       \/ /\ Doing("install hooks") \/ Doing("remove hooks")
          /\ phase = "read"
          /\ settings' = Broken
          /\ UNCHANGED <<script, md, hook, executable>>
       \/ /\ Doing("install md")
          /\ md # Absent => ~HasSection(md)
          /\ md' = <<>>
          /\ UNCHANGED <<settings, script, hook, executable>>
       \/ /\ Doing("install precommit") \/ Doing("remove precommit")
          /\ phase = "read"
          /\ hook' = <<>>
          /\ UNCHANGED <<settings, script, md, executable>>
    /\ skipped' = (skipped \/ phase = "written")

-----------------------------------------------------------------------------
(* The user.                                                               *)

Edit ==
    /\ edits < MaxEdits
    /\ edits' = edits + 1
    /\ UNCHANGED <<repo, script, md, todo, heldVars, parts, finished, skipped>>

\* A line at the end of the hook, with or without a blank line before it; a
\* new hook may lack the mode.
AppendLine ==
    /\ repo = "directory"
    /\ \E line \in UsersLines, gap \in {<<>>, <<"blank">>} :
         hook' = (IF hook = Absent THEN <<>> ELSE hook) \o gap \o <<line>>
    /\ IF hook = Absent THEN executable' \in BOOLEAN ELSE UNCHANGED executable
    /\ Edit
    /\ UNCHANGED settings

\* An entry of the user's own, or a command in the entry of ours.
AddHook ==
    /\ settings # Broken
    /\ \E e \in Events :
         LET old == Load(settings)[e]
         IN  \/ /\ Len(old) < MaxEntries
                /\ \E c \in {"user", "mention"} :
                     settings' = [Load(settings) EXCEPT ![e] = Append(old, {c})]
             \/ \E i \in 1..Len(old) :
                  /\ "lex" \in old[i]
                  /\ settings' = [settings EXCEPT ![e][i] = @ \cup {"user"}]
    /\ Edit
    /\ UNCHANGED <<hook, executable>>

BreakSettings ==
    /\ Loads(settings)
    /\ settings' = Broken
    /\ Edit
    /\ UNCHANGED <<hook, executable>>

Next ==
    \/ BeginInit \/ BeginUninstall \/ WriteScript \/ ReadSettings \/ SaveInstalled
    \/ SaveRemoved \/ UnlinkScript \/ InstallMd \/ MkdirRaises \/ KeepPrecommit
    \/ ReadPrecommit \/ WritePrecommit \/ ChmodPrecommit \/ DropPrecommit \/ Finish \/ Die
    \/ AppendLine \/ AddHook \/ BreakSettings

Spec == Init /\ [][Next]_vars

-----------------------------------------------------------------------------
(* Status: claude_hooks_status and precommit_installed.                    *)

HooksStatus(e) == AnyLex(Load(settings)[e])
PrecommitStatus == HasBlock(hook)

-----------------------------------------------------------------------------
(* Properties.                                                             *)

Ours == {entry \in SUBSET Commands : "lex" \in entry}
Lone(s, S) == \A i, j \in Where(s, S) : i = j

InstallersTypeOK ==
    /\ repo \in {"none", "directory", "file"}
    /\ script \in {"none", "ours", "cut"}
    /\ settings \in {Absent, Broken} \/ settings \in [Events -> Seq(SUBSET Commands)]
    /\ md = Absent \/ md \in Seq({"user", "section"})
    /\ hook = Absent \/ (repo = "directory" /\ hook \in Seq(Lines))
    /\ executable \in BOOLEAN /\ skipped \in BOOLEAN
    /\ phase \in {"start", "read", "written"}
    /\ loaded \in [Events -> Seq(SUBSET Commands)]
    /\ existing = Absent \/ existing \in Seq(Lines)
    /\ parts \subseteq Parts
    /\ finished \in {"none", "init", "uninstall"}
    /\ edits \in 0..MaxEdits

\* However often init runs, also over what a run that died has left: each
\* event has one entry of ours, the pre-commit hook one block, CLAUDE.md one
\* section.
InstalledOnce ==
    /\ \A e \in Events : Lone(Load(settings)[e], Ours)
    /\ hook # Absent => Lone(hook, {"marker"})
    /\ md # Absent => Lone(md, {"section"})

\* Nothing of ours ever dangles: where settings.json has an entry of ours the
\* script it runs exists (empty, if a later init died on it), and where the
\* pre-commit hook has our marker the commands follow it, also when a command
\* has died half-way.
NothingDangles ==
    /\ \A e \in Events : Where(Load(settings)[e], Ours) # {} => script # "none"
    /\ PrecommitStatus =>
         \A i \in Where(hook, {"marker"}) : i < Len(hook) /\ hook[i + 1] = "body"

\* What init has put in place is there once and whole.
InstalledWhole == InstalledOnce /\ NothingDangles

UserMentions(e) ==
    LET entries == Load(settings)[e]
    IN  \E i \in 1..Len(entries) : "mention" \in entries[i]

MentionsMarker == hook # Absent /\ Where(hook, {"mention"}) # {}

\* After an init that ran to its end, also over what one that died has left,
\* each event runs our script and the pre-commit hook holds our block and is
\* executable, whatever the user has added before, between and since, short of
\* breaking settings.json.  The exceptions: where a command of the user's
\* mentions lex-align, or a line of the user's holds the text of the marker, it
\* passes for ours, and status reports it so; and a block written by a command
\* that died before its chmod, or whose chmod failed, stays as it is.
InitInstalls ==
    finished = "init" =>
      /\ "hooks" \in parts /\ settings # Broken =>
           \A e \in Events :
             IF UserMentions(e) THEN HooksStatus(e)
             ELSE script = "ours" /\ Where(Load(settings)[e], Ours) # {}
      /\ "precommit" \in parts /\ repo # "none" =>
           /\ PrecommitStatus
           /\ MentionsMarker \/ executable \/ skipped

\* After an uninstall that ran to its end nothing of ours is left but the
\* section of CLAUDE.md, and status says so, with the same exception.
UninstallRemoves ==
    finished = "uninstall" =>
      /\ script = "none"
      /\ \A e \in Events :
           /\ Where(Load(settings)[e], Ours) = {}
           /\ HooksStatus(e) => UserMentions(e)
      /\ hook # Absent => Where(hook, {"marker", "body"}) = {}

\* A command that ran to its end has done what its message says.
CommandsTakeEffect == InitInstalls /\ UninstallRemoves

UserLines(h) == IF h = Absent THEN <<>> ELSE Only(h, UsersLines)
\* A line of the user's that passes for a part of the block.
Glued(h) == h # Absent /\ \E i \in Where(h, UsersLines) : InBlock(h, i)

\* A command that is not cut in a write keeps the user's lines of the
\* pre-commit hook, in their order, and the entries of settings.json that are
\* the user's alone.  The exceptions: what the user saved between a command's
\* read of the file and its write is overwritten with what was read; uninstall
\* takes the lines right below the block, those with the text of the marker and
\* those right below them; and settings.json is kept only if it parses.
UserEditsSurvive ==
    [][edits' = edits /\ ~Die =>
         /\ \/ UserLines(hook') = UserLines(hook)
            \/ /\ phase = "read" /\ hook # existing
               /\ UserLines(hook') = UserLines(existing)
            \/ phase = "read" /\ Doing("remove precommit") /\ Glued(existing)
         /\ settings # Broken =>
              \A e \in Events :
                LET new == Only(Load(settings')[e], NotLex)
                IN  \/ new = Only(Load(settings)[e], NotLex)
                    \/ /\ phase = "read" /\ Load(settings) # loaded
                       /\ new = Only(loaded[e], NotLex)]_vars

=============================================================================
