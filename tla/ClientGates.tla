----------------------------- MODULE ClientGates -----------------------------
(***************************************************************************)
(* The gates of the client: the PreToolUse hook (claude_hooks.py), which   *)
(* an agent's edit of pyproject.toml passes, the pre-commit hook           *)
(* (precommit.py), and lex-align-client audit, which CI runs (audit.py).   *)
(* All ask the server about one dependency after the other, while verdicts *)
(* change and the server comes and goes.                                   *)
(*                                                                         *)
(* A document is a list of dependencies, or Garbled (not TOML), or Absent; *)
(* in the index Absent means that git show :pyproject.toml fails.  The     *)
(* version of a dependency is the first one its spec names, whatever its   *)
(* operator, and 0 without one.                                            *)
(***************************************************************************)
EXTENDS Naturals, Sequences, SequencesExt

CONSTANTS
    Names,
    Rank,       \* their alphabetical order
    MaxVersion,
    Documents,  \* the lists of dependencies that occur
    Absent, Garbled,
    Settings,   \* the values fail_open of .lexalign.toml may have
    Faults,     \* what may become of the server
    InUse,      \* the gates in use
    MaxChanges, \* bound: verdicts that change, outages
    Overlap     \* bound: an edit and a check may be at their gates at once

\* A dependency, and the version extract_pinned_version finds in its spec.
Dependency == [name : Names, version : 0..MaxVersion]

ASSUME GatesAssumption ==
    /\ Rank \in [Names -> Nat]
    /\ MaxVersion \in Nat
    /\ Documents \subseteq Seq(Dependency)
    /\ {Absent, Garbled} \cap Documents = {}
    /\ Settings \subseteq BOOLEAN
    /\ Faults \subseteq {"down", "failing"}
    /\ InUse \subseteq {"edit", "commit", "audit"}
    /\ MaxChanges \in Nat
    /\ Overlap \in BOOLEAN

VARIABLES
    file,      \* pyproject.toml in the working tree
    index,     \* ... in the git index
    denied,    \* what the server denies: names with a version, 0: none given
    server,    \* "up", "down", "failing": an answer other than 200
    changes,   \* changes of denied and server so far
    editing,   \* the agent's edit at its gate, or Idle
    checking,  \* the commit or the audit at its gate, or Idle
    failOpen,
    refused,   \* history: denied ever since the gate was entered
    met        \* history: what each question of theirs was answered

Idle == [step |-> "idle"]
world == <<denied, server, changes, failOpen>>
gatesVars == <<file, index, world, editing, checking, refused, met>>

Files == Documents \cup {Absent, Garbled}
Questions == Names \X (0..MaxVersion)
Gates == {"edit", "commit", "audit"}

Init ==
    /\ file \in Documents
    /\ index = file
    /\ denied = {}
    /\ server = "up"
    /\ changes = 0
    /\ editing = Idle
    /\ checking = Idle
    /\ refused = [g \in Gates |-> {}]
    /\ failOpen \in Settings
    /\ met = [g \in Gates |-> [n \in Names |-> "none"]]

-----------------------------------------------------------------------------
(* pyproject_utils.                                                        *)

NamesIn(doc) == IF doc \in Documents THEN {doc[i].name : i \in DOMAIN doc} ELSE {}

\* parse_deps_from_content: the last entry of a name wins, no TOML no names.
Question(doc, name) ==
    <<name, Last(SelectSeq(doc, LAMBDA d : d.name = name)).version>>

\* diff_deps compares names.
Added(old, new) == NamesIn(new) \ NamesIn(old)

-----------------------------------------------------------------------------
(* The world.                                                              *)

\* The registry, the licenses or the vulnerabilities change; the server stops,
\* fails or comes back.
Change(now, how) ==
    /\ <<now, how>> # <<denied, server>>
    /\ changes < MaxChanges
    /\ changes' = changes + 1
    /\ denied' = now
    /\ server' = how
    /\ refused' = [g \in Gates |-> refused[g] \cap now]
    /\ UNCHANGED <<file, index, editing, checking, failOpen, met>>

\* Somebody edits the file, without a gate; stages it, or stages its removal.
EditByHand(doc) ==
    /\ file' = doc
    /\ UNCHANGED <<index, world, editing, checking, refused, met>>

GitAdd ==
    /\ checking = Idle
    /\ index' = file
    /\ UNCHANGED <<file, world, editing, checking, refused, met>>

-----------------------------------------------------------------------------
(* The answers: api.LexAlignClient.check.                                  *)

\* What check makes of one question: a verdict, or ServerError, or
\* ServerUnreachable, which fail_open turns into ALLOWED.
Check(question) ==
    CASE server = "up" -> IF question \in denied THEN "DENIED" ELSE "ALLOWED"
      [] server = "failing" -> "ServerError"
      [] OTHER -> IF failOpen THEN "ALLOWED" ELSE "ServerUnreachable"

Heard(question) ==
    CASE server = "up" -> IF question \in denied THEN "denied" ELSE "allowed"
      [] server = "failing" -> "error"
      [] OTHER -> "outage"

Met(gate, question) == met' = [met EXCEPT ![gate][question[1]] = Heard(question)]

Started(gate) ==
    /\ refused' = [refused EXCEPT ![gate] = denied]
    /\ met' = [met EXCEPT ![gate] = [n \in Names |-> "none"]]

Ended(gate) ==
    /\ refused' = [refused EXCEPT ![gate] = {}]
    /\ met' = [met EXCEPT ![gate] = [n \in Names |-> "none"]]

\* for name, spec in sorted(...): the next name to ask about.
NextIn(gate, name) ==
    /\ gate.step = "asking"
    /\ name \in gate.todo
    /\ \A other \in gate.todo : Rank[name] <= Rank[other]

Without(gate, name) == [gate EXCEPT !.todo = @ \ {name}]

-----------------------------------------------------------------------------
(* The PreToolUse hook.                                                    *)

\* handle_pre_tool_use has compared the file with doc, which apply_edit made of
\* it; an edit that adds nothing is allowed at once, and so is one of a file
\* that does not exist.
BeginEdit(doc) ==
    /\ "edit" \in InUse
    /\ editing = Idle
    /\ Overlap \/ checking = Idle
    /\ editing' = [step |-> "asking", old |-> file, new |-> doc,
                   todo |-> IF file = Absent THEN {} ELSE Added(file, doc),
                   blocked |-> FALSE]
    /\ Started("edit")
    /\ UNCHANGED <<file, index, world, checking>>

\* Mutant: only the last verdict counts.
AskEditLast(name) ==
    /\ NextIn(editing, name)
    /\ editing' = [Without(editing, name) EXCEPT
                     !.blocked = Check(Question(editing.new, name)) # "ALLOWED"]
    /\ Met("edit", Question(editing.new, name))
    /\ UNCHANGED <<file, index, world, checking, refused>>

AskEdit(name) ==
    /\ NextIn(editing, name)
    /\ LET verdict == Check(Question(editing.new, name))
           next == Without(editing, name)
       IN  editing' = CASE verdict = "ALLOWED" -> next
                        [] verdict = "DENIED" -> [next EXCEPT !.blocked = TRUE]
                        [] OTHER -> [next EXCEPT !.todo = {}, !.blocked = ~failOpen]
    /\ Met("edit", Question(editing.new, name))
    /\ UNCHANGED <<file, index, world, checking, refused>>

\* The decision: a blocked tool writes nothing.  What it writes otherwise need
\* not be what apply_edit made of it: the tool may replace every occurrence, not
\* the first one alone, and edits the file as it is by then.
EndEdit(written) ==
    /\ editing.step = "asking"
    /\ editing.todo = {}
    /\ editing.blocked => written = file
    /\ file' = written
    /\ editing' = Idle
    /\ Ended("edit")
    /\ UNCHANGED <<index, world, checking>>

-----------------------------------------------------------------------------
(* The pre-commit hook and the audit.                                      *)

BeginCheck(gate, doc, names, fails) ==
    /\ gate \in InUse
    /\ checking = Idle
    /\ Overlap \/ editing = Idle
    /\ checking' = [step |-> "asking", gate |-> gate, doc |-> doc, todo |-> names,
                    exists |-> file # Absent, blocked |-> fails]
    /\ Started(gate)
    /\ UNCHANGED <<file, index, world, editing>>

\* Mutant: the gate reads the working tree.
GatedFile == file

\* What run reads: the staged document, or else the file.
Gated == IF index # Absent THEN index ELSE file

\* Without a file there is nothing to check, and a file that is not staged and
\* is not TOML raises.
BeginCommit ==
    BeginCheck("commit", Gated, IF file = Absent THEN {} ELSE NamesIn(Gated),
               file = Garbled /\ index = Absent)

\* evaluate reads the file of the working tree.
BeginAudit == BeginCheck("audit", file, NamesIn(file), file = Garbled)

\* Mutant: a denial ends the hook before it returns its exit code.
AskCheckAborts(name) ==
    /\ NextIn(checking, name)
    /\ LET verdict == Check(Question(checking.doc, name))
           next == Without(checking, name)
       IN  checking' = IF verdict = "ALLOWED" THEN next
                       ELSE [next EXCEPT !.step = "aborted"]
    /\ Met(checking.gate, Question(checking.doc, name))
    /\ UNCHANGED <<file, index, world, editing, refused>>

\* Mutant: an error ends the questions, and what is known so far decides.
AskCheckGivesUp(name) ==
    /\ NextIn(checking, name)
    /\ LET verdict == Check(Question(checking.doc, name))
           next == Without(checking, name)
       IN  checking' = CASE verdict = "ALLOWED" -> next
                         [] verdict = "DENIED" -> [next EXCEPT !.blocked = TRUE]
                         [] OTHER -> [next EXCEPT !.todo = {}]
    /\ Met(checking.gate, Question(checking.doc, name))
    /\ UNCHANGED <<file, index, world, editing, refused>>

AskCheck(name) ==
    /\ NextIn(checking, name)
    /\ LET verdict == Check(Question(checking.doc, name))
           next == Without(checking, name)
       IN  checking' = CASE verdict = "ALLOWED" -> next
                         [] verdict = "DENIED" -> [next EXCEPT !.blocked = TRUE]
                         [] OTHER -> [next EXCEPT !.todo = {}, !.blocked = TRUE]
    /\ Met(checking.gate, Question(checking.doc, name))
    /\ UNCHANGED <<file, index, world, editing, refused>>

\* git commits the index, unless the hook has failed; the audit exits 0, or
\* with 2 after a denial and with 1 after an error.
EndCheck ==
    /\ checking.step = "asking"
    /\ checking.todo = {}
    /\ checking' = Idle
    /\ Ended(checking.gate)
    /\ UNCHANGED <<file, index, world, editing>>

-----------------------------------------------------------------------------

World ==
    \/ \E q \in Questions : Change(denied \cup {q}, server) \/ Change(denied \ {q}, server)
    \/ \E how \in {"up"} \cup Faults : Change(denied, how)
    \/ \E doc \in Files : EditByHand(doc)
    \/ GitAdd

EditGate ==
    \/ \E doc \in Documents \cup {Garbled} : BeginEdit(doc)
    \/ \E name \in Names : AskEdit(name)
    \/ \E written \in Files : EndEdit(written)

CheckGates ==
    \/ BeginCommit
    \/ BeginAudit
    \/ \E name \in Names : AskCheck(name)
    \/ EndCheck

Next == World \/ EditGate \/ CheckGates

Spec == Init /\ [][Next]_gatesVars

-----------------------------------------------------------------------------
(* Properties.                                                             *)

EditState == [step : {"asking"}, old : Files, new : Files, todo : SUBSET Names,
              blocked : BOOLEAN]
CheckState == [step : {"asking"}, gate : {"commit", "audit"}, doc : Files,
               exists : BOOLEAN, todo : SUBSET Names, blocked : BOOLEAN]

GatesTypeOK ==
    /\ {file, index} \subseteq Files
    /\ denied \subseteq Questions
    /\ server \in {"up", "down", "failing"}
    /\ changes \in 0..MaxChanges
    /\ editing \in EditState \cup {Idle}
    /\ checking \in CheckState \cup {Idle}
    /\ failOpen \in BOOLEAN
    /\ refused \in [Gates -> SUBSET Questions]
    /\ met \in [Gates -> [Names -> {"none", "allowed", "denied", "outage", "error"}]]

\* A dependency passes a gate that has asked for it, when the server did not
\* deny it all the while, or could not be reached and fail_open says so.
Passes(gate, question) ==
    \/ met[gate][question[1]] = "allowed" /\ question \notin refused[gate]
    \/ met[gate][question[1]] = "outage" /\ failOpen

Edited == editing # Idle /\ editing' = Idle /\ ~editing.blocked
Passed(gate) ==
    checking # Idle /\ checking.gate = gate /\ checking' = Idle /\ ~checking.blocked

\* The edit gate: every name an edit adds to pyproject.toml passes, whatever
\* becomes of the verdicts and of the server between two questions.  The
\* exceptions: an answer other than 200 under fail_open ends the questions, and
\* the edit is allowed, even after a DENIED; and what the tool writes may be
\* another document than the one apply_edit made, with names nobody asked about.
EditGateHolds ==
    [][Edited /\ editing.old # Absent /\ file' = editing.new
       /\ (failOpen => \A n \in Names : met["edit"][n] # "error")
       => \A n \in Added(editing.old, file') :
            Passes("edit", Question(file', n))]_gatesVars

\* The commit gate: every name of the pyproject.toml that is committed passes,
\* although the working tree holds another document and is edited meanwhile, if
\* the working tree has one when the hook begins: without, nothing is asked.
CommitGateHolds ==
    [][Passed("commit") /\ checking.exists /\ index # Absent =>
         \A n \in NamesIn(index) : Passes("commit", Question(index, n))]_gatesVars

\* The audit: when it exits 0, every name of the pyproject.toml it has read
\* passes, also if a question in the middle failed, a verdict changed or the
\* file was edited after it was read.
AuditGateHolds ==
    [][Passed("audit") =>
         \A n \in NamesIn(checking.doc) : Passes("audit", Question(checking.doc, n))]_gatesVars

=============================================================================
