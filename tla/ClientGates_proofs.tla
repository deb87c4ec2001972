------------------------- MODULE ClientGates_proofs -------------------------
(***************************************************************************)
(* Proofs about ClientGates: no gate lets a refused name pass, for any     *)
(* documents, any verdicts and any outages.                                *)
(***************************************************************************)
EXTENDS ClientGates, TLAPS

\* What a gate has asked and got so far speaks for the names it is done with,
\* and it asks about no name twice.
EditInv ==
    /\ editing # Idle /\ ~editing.blocked /\ editing.old # Absent
         /\ (failOpen => \A n \in Names : met["edit"][n] # "error") =>
           \A n \in Added(editing.old, editing.new) \ editing.todo :
             Passes("edit", Question(editing.new, n))
    /\ editing # Idle => \A n \in editing.todo : met["edit"][n] = "none"

CheckInv ==
    /\ checking # Idle /\ ~checking.blocked
         /\ (checking.gate = "commit" => checking.exists) =>
           \A n \in NamesIn(checking.doc) \ checking.todo :
             Passes(checking.gate, Question(checking.doc, n))
    /\ checking # Idle /\ checking.gate = "commit" /\ index # Absent =>
         checking.doc = index

\* What has been refused all the while is refused now.
RefusedInv == \A g \in Gates : refused[g] \subseteq denied

GatesInv == GatesTypeOK /\ EditInv /\ CheckInv /\ RefusedInv

-----------------------------------------------------------------------------

\* A gate in progress is not Idle.
LEMMA GateStates ==
  /\ \A e \in EditState : e # Idle /\ e.step = "asking"
  /\ \A k \in CheckState : k # Idle /\ k.step = "asking"
  /\ Idle.step # "asking"
BY DEF EditState, CheckState, Idle

LEMMA NamesType == ASSUME NEW doc \in Files PROVE NamesIn(doc) \subseteq Names
<1>1. CASE doc \in Documents
  <2>1. doc \in Seq(Dependency)
    BY <1>1, GatesAssumption DEF GatesAssumption
  <2>2. ASSUME NEW i \in DOMAIN doc PROVE doc[i].name \in Names
    <3>1. doc[i] \in Dependency  BY <2>1
    <3>. QED  BY <3>1 DEF Dependency
  <2>3. NamesIn(doc) = {doc[i].name : i \in DOMAIN doc}  BY <1>1 DEF NamesIn
  <2>. QED  BY <2>2, <2>3
<1>2. CASE doc \notin Documents  BY <1>2 DEF NamesIn
<1>. QED  BY <1>1, <1>2

LEMMA AddedType ==
  ASSUME NEW old \in Files, NEW new \in Files PROVE Added(old, new) \subseteq Names
BY NamesType DEF Added

LEMMA InitGates == Init => GatesInv
<1> SUFFICES ASSUME Init PROVE GatesInv
  OBVIOUS
<1>1. failOpen \in BOOLEAN
  BY GatesAssumption DEF GatesAssumption, Init
<1>2. changes \in 0..MaxChanges
  BY GatesAssumption DEF GatesAssumption, Init
<1>3. GatesTypeOK
  BY <1>1, <1>2 DEF Init, GatesTypeOK, Files, Gates
<1>. QED  BY <1>3 DEF Init, GatesInv, EditInv, CheckInv, RefusedInv

\* One question: the answer is one the client knows, and speaks for the name
\* if it lets the gate go on.
LEMMA HeardType ==
  ASSUME GatesTypeOK, NEW q
  PROVE  \/ Heard(q) = "denied" /\ Check(q) = "DENIED"
         \/ Heard(q) = "allowed" /\ Check(q) = "ALLOWED" /\ q \notin denied
         \/ Heard(q) = "error" /\ Check(q) = "ServerError"
         \/ Heard(q) = "outage" /\ Check(q) = "ALLOWED" /\ failOpen
         \/ Heard(q) = "outage" /\ Check(q) = "ServerUnreachable" /\ ~failOpen
<1>1. server = "up" /\ q \in denied => Heard(q) = "denied" /\ Check(q) = "DENIED"
  BY DEF Heard, Check
<1>2. server = "up" /\ q \notin denied => Heard(q) = "allowed" /\ Check(q) = "ALLOWED"
  BY DEF Heard, Check
<1>3. server = "failing" => Heard(q) = "error" /\ Check(q) = "ServerError"
  BY DEF Heard, Check
<1>4. server = "down" => Heard(q) = "outage"  BY DEF Heard
<1>5. server = "down" =>
        Check(q) = IF failOpen THEN "ALLOWED" ELSE "ServerUnreachable"
  BY DEF Check
<1>6. server = "down" /\ failOpen => Check(q) = "ALLOWED"  BY <1>5, Zenon
<1>7. server = "down" /\ ~failOpen => Check(q) = "ServerUnreachable"  BY <1>5, Zenon
<1>8. server = "up" \/ server = "failing" \/ server = "down"  BY DEF GatesTypeOK
<1>. QED  BY <1>1, <1>2, <1>3, <1>4, <1>6, <1>7, <1>8, Zenon

LEMMA AboutName == \A doc, n : Question(doc, n)[1] = n
BY DEF Question

LEMMA MetType ==
  ASSUME GatesTypeOK, NEW gate \in Gates, NEW n \in Names, NEW q, q[1] = n, Met(gate, q)
  PROVE  /\ met' = [met EXCEPT ![gate][n] = Heard(q)]
         /\ met' \in [Gates -> [Names -> {"none", "allowed", "denied", "outage", "error"}]]
<1>1. met' = [met EXCEPT ![gate][n] = Heard(q)]  BY DEF Met
<1>2. Heard(q) \in {"allowed", "denied", "outage", "error"}  BY HeardType
<1>. QED  BY <1>1, <1>2 DEF GatesTypeOK

\* A gate goes on: the types stay.
LEMMA AskTypes ==
  ASSUME GatesTypeOK, NEW name \in Names, AskEdit(name) \/ AskCheck(name)
  PROVE  /\ GatesTypeOK'
         /\ AskEdit(name) => editing' \in EditState
         /\ AskCheck(name) => checking' \in CheckState
<1> USE DEF GatesTypeOK
<1>1. ASSUME AskEdit(name) PROVE GatesTypeOK' /\ editing' \in EditState
  <2>1. editing \in EditState
    BY <1>1, GateStates DEF AskEdit, NextIn
  <2>2. Without(editing, name) = [editing EXCEPT !.todo = @ \ {name}]
        /\ Without(editing, name) \in EditState
    BY <2>1 DEF Without, EditState
  <2>3. editing' \in EditState
    <3> DEFINE next == Without(editing, name)
               verdict == Check(Question(editing.new, name))
    <3>1. editing' = CASE verdict = "ALLOWED" -> next
                       [] verdict = "DENIED" -> [next EXCEPT !.blocked = TRUE]
                       [] OTHER -> [next EXCEPT !.todo = {}, !.blocked = ~failOpen]
      BY <1>1 DEF AskEdit
    <3>2. next \in EditState  BY <2>2
    <3>3. (~failOpen) \in BOOLEAN  BY Zenon
    <3> HIDE DEF next, verdict
    <3>4. [next EXCEPT !.blocked = TRUE] \in EditState  BY <3>2 DEF EditState
    <3>5. [next EXCEPT !.todo = {}, !.blocked = ~failOpen] \in EditState
      BY <3>2, <3>3 DEF EditState
    <3>. QED  BY <3>1, <3>2, <3>4, <3>5
  <2>4. met' \in [Gates -> [Names -> {"none", "allowed", "denied", "outage", "error"}]]
    BY <1>1, MetType, AboutName DEF AskEdit, Gates
  <2>. QED  BY <1>1, <2>3, <2>4 DEF AskEdit, world
<1>2. ASSUME AskCheck(name) PROVE GatesTypeOK' /\ checking' \in CheckState
  <2>1. checking \in CheckState
    BY <1>2, GateStates DEF AskCheck, NextIn
  <2>2. Without(checking, name) \in CheckState
    BY <2>1 DEF Without, CheckState
  <2>3. checking' \in CheckState
    <3> DEFINE next == Without(checking, name)
               verdict == Check(Question(checking.doc, name))
    <3>1. checking' = CASE verdict = "ALLOWED" -> next
                        [] verdict = "DENIED" -> [next EXCEPT !.blocked = TRUE]
                        [] OTHER -> [next EXCEPT !.todo = {}, !.blocked = TRUE]
      BY <1>2 DEF AskCheck
    <3>2. next \in CheckState  BY <2>2
    <3> HIDE DEF next, verdict
    <3>3. [next EXCEPT !.blocked = TRUE] \in CheckState  BY <3>2 DEF CheckState
    <3>4. [next EXCEPT !.todo = {}, !.blocked = TRUE] \in CheckState
      BY <3>2 DEF CheckState
    <3>. QED  BY <3>1, <3>2, <3>3, <3>4
  <2>4. checking.gate \in Gates  BY <2>1 DEF CheckState, Gates
  <2>5. met' \in [Gates -> [Names -> {"none", "allowed", "denied", "outage", "error"}]]
    BY <1>2, <2>4, MetType, AboutName DEF AskCheck
  <2>. QED  BY <1>2, <2>3, <2>5 DEF AskCheck, world
<1>. QED  BY <1>1, <1>2

LEMMA NextTypes == GatesTypeOK /\ [Next]_gatesVars => GatesTypeOK'
<1> SUFFICES ASSUME GatesTypeOK, [Next]_gatesVars PROVE GatesTypeOK'
  OBVIOUS
<1> USE DEF GatesTypeOK
<1>0. [n \in Names |-> "none"] \in [Names -> {"none", "allowed", "denied", "outage", "error"}]
  OBVIOUS
<1>1. ASSUME NEW now \in SUBSET Questions, NEW how \in {"up", "down", "failing"},
             Change(now, how)
      PROVE  GatesTypeOK'
  <2>1. changes' \in 0..MaxChanges
    BY <1>1, GatesAssumption DEF GatesAssumption, Change
  <2>2. refused' \in [Gates -> SUBSET Questions]  BY <1>1 DEF Change
  <2>. QED  BY <1>1, <2>1, <2>2 DEF Change
<1>2. ASSUME NEW doc \in Files, EditByHand(doc) PROVE GatesTypeOK'
  BY <1>2 DEF EditByHand, world
<1>3. CASE GitAdd  BY <1>3 DEF GitAdd, world
<1>4. CASE World
  <2>1. \A q \in Questions : denied \cup {q} \subseteq Questions
                             /\ denied \ {q} \subseteq Questions
    OBVIOUS
  <2>2. {"up"} \cup Faults \subseteq {"up", "down", "failing"}
    BY GatesAssumption DEF GatesAssumption
  <2>. QED  BY <1>1, <1>2, <1>3, <1>4, <2>1, <2>2 DEF World
<1>5. ASSUME NEW doc \in Documents \cup {Garbled}, BeginEdit(doc) PROVE GatesTypeOK'
  <2>1. doc \in Files  BY DEF Files
  <2>2. Added(file, doc) \subseteq Names  BY <2>1, AddedType
  <2>3. editing' \in EditState  BY <1>5, <2>1, <2>2 DEF BeginEdit, EditState
  <2>4. refused' \in [Gates -> SUBSET Questions]  BY <1>5 DEF BeginEdit, Started
  <2>5. met' \in [Gates -> [Names -> {"none", "allowed", "denied", "outage", "error"}]]
    BY <1>0, <1>5 DEF BeginEdit, Started
  <2>. QED  BY <1>5, <2>3, <2>4, <2>5 DEF BeginEdit, world
<1>6. ASSUME NEW name \in Names, AskEdit(name) \/ AskCheck(name) PROVE GatesTypeOK'
  BY <1>6, AskTypes
<1>7. ASSUME NEW written \in Files, EndEdit(written) PROVE GatesTypeOK'
  <2>2. file' \in Files  BY <1>7 DEF EndEdit
  <2>3. refused' \in [Gates -> SUBSET Questions]  BY <1>7 DEF EndEdit, Ended
  <2>4. met' \in [Gates -> [Names -> {"none", "allowed", "denied", "outage", "error"}]]
    BY <1>0, <1>7 DEF EndEdit, Ended
  <2>. QED  BY <1>7, <2>2, <2>3, <2>4 DEF EndEdit, world
<1>8. ASSUME NEW gate \in {"commit", "audit"}, NEW doc \in Files, NEW names \in SUBSET Names,
             NEW fails \in BOOLEAN, BeginCheck(gate, doc, names, fails)
      PROVE  GatesTypeOK'
  <2>1. checking' \in CheckState  BY <1>8 DEF BeginCheck, CheckState
  <2>2. refused' \in [Gates -> SUBSET Questions]  BY <1>8 DEF BeginCheck, Started
  <2>3. met' \in [Gates -> [Names -> {"none", "allowed", "denied", "outage", "error"}]]
    BY <1>0, <1>8 DEF BeginCheck, Started
  <2>. QED  BY <1>8, <2>1, <2>2, <2>3 DEF BeginCheck, world
<1>9. CASE BeginCommit
  <2>1. Gated \in Files  BY DEF Gated
  <2>2. NamesIn(Gated) \subseteq Names  BY <2>1, NamesType
  <2> DEFINE names == IF file = Absent THEN {} ELSE NamesIn(Gated)
             fails == (file = Garbled /\ index = Absent)
  <2>3. names \in SUBSET Names  BY <2>2
  <2>4. fails \in BOOLEAN  BY Zenon
  <2>5. BeginCheck("commit", Gated, names, fails)  BY <1>9 DEF BeginCommit
  <2> HIDE DEF names, fails, GatesTypeOK
  <2>6. "commit" \in {"commit", "audit"}  OBVIOUS
  <2>. QED  BY <1>8, <2>1, <2>3, <2>4, <2>5, <2>6, Zenon
<1>10. CASE BeginAudit
  <2>1. NamesIn(file) \in SUBSET Names /\ (file = Garbled) \in BOOLEAN  BY NamesType
  <2>. QED  BY <1>8, <1>10, <2>1 DEF BeginAudit
<1>11. CASE EndCheck
  <2>1. refused' \in [Gates -> SUBSET Questions]  BY <1>11 DEF EndCheck, Ended
  <2>2. met' \in [Gates -> [Names -> {"none", "allowed", "denied", "outage", "error"}]]
    BY <1>0, <1>11 DEF EndCheck, Ended
  <2>. QED  BY <1>11, <2>1, <2>2 DEF EndCheck, world
<1>12. CASE UNCHANGED gatesVars  BY <1>12 DEF gatesVars, world
<1>. QED
  BY <1>4, <1>5, <1>6, <1>7, <1>9, <1>10, <1>11, <1>12 DEF Next, EditGate, CheckGates

-----------------------------------------------------------------------------
(* What the answers are worth.                                             *)

\* An allowed name passes, and stays passed while it is not asked again.
LEMMA AnswerPasses ==
  ASSUME GatesInv, NEW gate \in Gates, NEW n \in Names, NEW q, q[1] = n,
         Met(gate, q), Check(q) = "ALLOWED", UNCHANGED <<refused, failOpen>>
  PROVE  Passes(gate, q)'
<1>1. GatesTypeOK  BY DEF GatesInv
<1>2. met'[gate][n] = Heard(q)
  <2>1. met' = [met EXCEPT ![gate][n] = Heard(q)]  BY <1>1, MetType
  <2>2. met \in [Gates -> [Names -> {"none", "allowed", "denied", "outage", "error"}]]
    BY <1>1 DEF GatesTypeOK
  <2>. QED  BY <2>1, <2>2
<1>3. \/ Heard(q) = "allowed" /\ q \notin denied
      \/ Heard(q) = "outage" /\ failOpen
  <2>1. \/ Heard(q) = "denied" /\ Check(q) = "DENIED"
        \/ Heard(q) = "allowed" /\ Check(q) = "ALLOWED" /\ q \notin denied
        \/ Heard(q) = "error" /\ Check(q) = "ServerError"
        \/ Heard(q) = "outage" /\ Check(q) = "ALLOWED" /\ failOpen
        \/ Heard(q) = "outage" /\ Check(q) = "ServerUnreachable" /\ ~failOpen
    BY <1>1, HeardType
  <2>. QED  BY <2>1, Zenon
<1>4. q \notin denied => q \notin refused'[gate]  BY DEF GatesInv, RefusedInv
<1>5. CASE Heard(q) = "allowed" /\ q \notin denied
  <2>1. met'[gate][q[1]] = "allowed" /\ q \notin refused'[gate]  BY <1>2, <1>4, <1>5
  <2>. QED  BY <2>1 DEF Passes
<1>6. CASE Heard(q) = "outage" /\ failOpen
  <2>1. met'[gate][q[1]] = "outage"  BY <1>2, <1>6
  <2>2. failOpen'  BY <1>6, Zenon
  <2>. QED  BY <2>1, <2>2, Zenon DEF Passes
<1>. QED  BY <1>3, <1>5, <1>6

\* Nothing that only adds to what speaks for a name undoes an edit's answers.
LEMMA PassesKept ==
  ASSUME NEW gate, NEW q, UNCHANGED failOpen,
         met'[gate][q[1]] = met[gate][q[1]], refused'[gate] \subseteq refused[gate],
         Passes(gate, q)
  PROVE  Passes(gate, q)'
<1>1. CASE met[gate][q[1]] = "allowed" /\ q \notin refused[gate]
  <2>1. met'[gate][q[1]] = "allowed" /\ q \notin refused'[gate]  BY <1>1
  <2>. QED  BY <2>1 DEF Passes
<1>2. CASE met[gate][q[1]] = "outage" /\ failOpen
  <2>1. met'[gate][q[1]] = "outage"  BY <1>2
  <2>2. failOpen'  BY <1>2, Zenon
  <2>. QED  BY <2>1, <2>2, Zenon DEF Passes
<1>. QED  BY <1>1, <1>2, Zenon DEF Passes

LEMMA EditKept ==
  ASSUME EditInv, UNCHANGED <<editing, failOpen>>,
         met'["edit"] = met["edit"], refused'["edit"] \subseteq refused["edit"]
  PROVE  EditInv'
<1>1. PICK e : e = editing  OBVIOUS
<1>2. editing' = e  BY <1>1
<1>3. ASSUME e # Idle, ~e.blocked, e.old # Absent,
             failOpen' => \A n \in Names : met'["edit"][n] # "error",
             NEW n \in Added(e.old, e.new) \ e.todo
      PROVE  Passes("edit", Question(e.new, n))'
  <2>1. failOpen => \A m \in Names : met["edit"][m] # "error"
    <3>1. failOpen => failOpen'  BY Zenon
    <3>. QED  BY <1>3, <3>1
  <2>2. Passes("edit", Question(e.new, n))  BY <1>1, <1>3, <2>1 DEF EditInv
  <2>. QED  BY <2>2, PassesKept
<1>4. e # Idle => \A n \in e.todo : met'["edit"][n] = "none"
  BY <1>1 DEF EditInv
<1>. QED  BY <1>2, <1>3, <1>4 DEF EditInv

LEMMA CheckKept ==
  ASSUME CheckInv, UNCHANGED <<checking, failOpen>>,
         checking # Idle =>
           /\ index' = index
           /\ met'[checking.gate] = met[checking.gate]
           /\ refused'[checking.gate] \subseteq refused[checking.gate]
  PROVE  CheckInv'
<1>1. PICK k : k = checking  OBVIOUS
<1>2. checking' = k  BY <1>1
<1>3. ASSUME k # Idle, ~k.blocked, k.gate = "commit" => k.exists,
             NEW n \in NamesIn(k.doc) \ k.todo
      PROVE  Passes(k.gate, Question(k.doc, n))'
  <2>1. Passes(k.gate, Question(k.doc, n))  BY <1>1, <1>3 DEF CheckInv
  <2>2. met'[k.gate] = met[k.gate] /\ refused'[k.gate] \subseteq refused[k.gate]
    BY <1>1, <1>3
  <2>. QED  BY <2>1, <2>2, PassesKept
<1>4. k # Idle /\ k.gate = "commit" /\ index' # Absent => k.doc = index'
  BY <1>1 DEF CheckInv
<1>. QED  BY <1>2, <1>3, <1>4 DEF CheckInv

LEMMA NextRefused == GatesInv /\ [Next]_gatesVars => RefusedInv'
<1> SUFFICES ASSUME GatesInv, [Next]_gatesVars PROVE RefusedInv'
  OBVIOUS
<1> USE DEF GatesInv, RefusedInv
<1>1. ASSUME NEW now, NEW how, Change(now, how) PROVE RefusedInv'
  BY <1>1 DEF Change
<1>2. refused \in [Gates -> SUBSET Questions]  BY DEF GatesTypeOK
<1>3. ASSUME UNCHANGED denied, NEW g, Started(g) \/ Ended(g) PROVE RefusedInv'
  BY <1>2, <1>3 DEF Started, Ended
<1>4. CASE UNCHANGED <<denied, refused>>  BY <1>4
<1>5. CASE World  BY <1>1, <1>4, <1>5 DEF World, EditByHand, GitAdd, world
<1>6. CASE EditGate
  BY <1>3, <1>4, <1>6 DEF EditGate, BeginEdit, AskEdit, EndEdit, world
<1>7. CASE CheckGates
  BY <1>3, <1>4, <1>7
     DEF CheckGates, BeginCommit, BeginAudit, BeginCheck, AskCheck, EndCheck, world
<1>8. CASE UNCHANGED gatesVars  BY <1>4, <1>8 DEF gatesVars, world
<1>. QED  BY <1>5, <1>6, <1>7, <1>8 DEF Next

LEMMA NextEdit == GatesInv /\ [Next]_gatesVars => EditInv'
<1> SUFFICES ASSUME GatesInv, [Next]_gatesVars PROVE EditInv'
  OBVIOUS
<1>0. GatesTypeOK /\ EditInv  BY DEF GatesInv
<1>1. ASSUME NEW now, NEW how, Change(now, how) PROVE EditInv'
  <2>1. refused'["edit"] \subseteq refused["edit"]  BY <1>1 DEF Change, Gates
  <2>. QED  BY <1>0, <1>1, <2>1, EditKept DEF Change
<1>2. CASE UNCHANGED <<editing, failOpen, met, refused>>  BY <1>0, <1>2, EditKept
<1>3. ASSUME UNCHANGED <<editing, failOpen>>, NEW gate \in {"commit", "audit"},
             Started(gate) \/ Ended(gate)
      PROVE  EditInv'
  <2>1. met'["edit"] = met["edit"] /\ refused'["edit"] = refused["edit"]
    BY <1>0, <1>3 DEF Started, Ended, GatesTypeOK, Gates
  <2>. QED  BY <1>0, <1>3, <2>1, EditKept
<1>4. CASE World  BY <1>1, <1>2, <1>4 DEF World, EditByHand, GitAdd, world
<1>5. ASSUME NEW doc, BeginEdit(doc) PROVE EditInv'
  <2>1. met'["edit"] = [n \in Names |-> "none"]
    BY <1>0, <1>5 DEF BeginEdit, Started, GatesTypeOK, Gates
  <2>2. /\ editing'.old # Absent => Added(editing'.old, editing'.new) = editing'.todo
        /\ editing'.todo \subseteq Names
    <3>1. doc \in Files => Added(file, doc) \subseteq Names
      BY <1>0, AddedType DEF GatesTypeOK
    <3>2. Added(file, doc) \subseteq NamesIn(doc)  BY DEF Added
    <3>3. doc \notin Files => NamesIn(doc) = {}  BY DEF Files, NamesIn
    <3>. QED  BY <1>5, <3>1, <3>2, <3>3 DEF BeginEdit
  <2>. QED  BY <2>1, <2>2 DEF EditInv
<1>6. ASSUME NEW name \in Names, AskEdit(name) PROVE EditInv'
  <2>1. PICK e : e = editing  OBVIOUS
  <2>2. PICK q : q = Question(e.new, name)  OBVIOUS
  <2>3. q[1] = name /\ Met("edit", q) /\ UNCHANGED <<refused, failOpen>>
    BY <1>6, <2>1, <2>2, AboutName DEF AskEdit, world
  <2>4. e \in EditState /\ name \in e.todo
    BY <1>0, <1>6, <2>1, GateStates DEF AskEdit, NextIn, GatesTypeOK
  <2>5. editing' \in EditState  BY <1>0, <1>6, AskTypes
  <2>6. /\ met'["edit"][name] = Heard(q)
        /\ \A n \in Names \ {name} : met'["edit"][n] = met["edit"][n]
    <3>1. met' = [met EXCEPT !["edit"][name] = Heard(q)]
      BY <1>0, <2>3, MetType DEF Gates
    <3>. QED  BY <1>0, <3>1 DEF GatesTypeOK, Gates
  <2>7. Without(e, name) \in EditState /\ Without(e, name).todo = e.todo \ {name}
        /\ Without(e, name).old = e.old /\ Without(e, name).new = e.new
        /\ Without(e, name).blocked = e.blocked
    BY <2>4 DEF Without, EditState
  <2>8. \A n \in e.todo : met["edit"][n] = "none"
    BY <1>0, <2>1, <2>4, GateStates DEF EditInv
  <2> DEFINE next == Without(e, name)
  <2>9. editing' = CASE Check(q) = "ALLOWED" -> next
                     [] Check(q) = "DENIED" -> [next EXCEPT !.blocked = TRUE]
                     [] OTHER -> [next EXCEPT !.todo = {}, !.blocked = ~failOpen]
    BY <1>6, <2>1, <2>2 DEF AskEdit
  <2>10. next \in EditState /\ next.todo = e.todo \ {name} /\ next.blocked = e.blocked
         /\ next.old = e.old /\ next.new = e.new
    BY <2>7
  <2> HIDE DEF next
  <2>11. editing'.todo \subseteq e.todo \ {name}
    BY <2>9, <2>10 DEF EditState
  <2>12. \A n \in editing'.todo : met'["edit"][n] = "none"
    BY <2>4, <2>6, <2>8, <2>11 DEF EditState
  <2>13. CASE Check(q) = "ALLOWED"
    <3>1. editing' = next  BY <2>9, <2>13
    <3>2. PICK f : f = next  OBVIOUS
    <3>3. ASSUME ~f.blocked, f.old # Absent,
                 failOpen' => \A n \in Names : met'["edit"][n] # "error",
                 NEW n \in Added(f.old, f.new) \ f.todo
          PROVE  Passes("edit", Question(f.new, n))'
      <4>0. f.new = e.new /\ f.old = e.old /\ f.todo = e.todo \ {name}
            /\ f.blocked = e.blocked /\ Added(f.old, f.new) \subseteq Names
        BY <2>4, <2>10, <3>2, AddedType DEF EditState
      <4>1. CASE n = name
        <5>1. Passes("edit", q)'
          BY <2>3, <2>13, AnswerPasses DEF Gates
        <5>. QED  BY <2>2, <4>0, <4>1, <5>1
      <4>2. CASE n # name
        <5>1. failOpen => \A m \in Names : met["edit"][m] # "error"
          <6>1. failOpen => failOpen'  BY <2>3, Zenon
          <6>. QED  BY <2>4, <2>6, <2>8, <3>3, <6>1 DEF EditState
        <5>2. e # Idle /\ ~e.blocked /\ e.old # Absent
              /\ n \in Added(e.old, e.new) \ e.todo
          BY <2>4, <3>3, <4>0, <4>2, GateStates
        <5>3. Passes("edit", Question(e.new, n))
          BY <1>0, <2>1, <5>1, <5>2 DEF EditInv
        <5>4. met'["edit"][Question(e.new, n)[1]] = met["edit"][Question(e.new, n)[1]]
          BY <2>6, <4>0, <4>2, AboutName
        <5>5. \A r : r = Question(e.new, n) => Passes("edit", r)'
          BY <2>3, <5>3, <5>4, PassesKept
        <5>. QED  BY <4>0, <5>5
      <4>. QED  BY <4>1, <4>2
    <3>4. editing' = f  BY <3>1, <3>2
    <3>. QED  BY <2>12, <3>3, <3>4 DEF EditInv
  <2>14. CASE Check(q) = "DENIED"
    <3>1. editing'.blocked  BY <2>9, <2>10, <2>14 DEF EditState
    <3>. QED  BY <2>12, <3>1 DEF EditInv
  <2>15. CASE Check(q) \notin {"ALLOWED", "DENIED"}
    <3>1. editing' = [next EXCEPT !.todo = {}, !.blocked = ~failOpen]
      BY <2>9, <2>15
    <3>2. editing'.blocked = ~failOpen  BY <2>10, <3>1 DEF EditState
    <3>3. (Check(q) = "ServerError" /\ Heard(q) = "error") \/ ~failOpen
      BY <1>0, <2>15, HeardType
    <3>4. ~editing'.blocked => failOpen /\ failOpen' /\ met'["edit"][name] = "error"
      <4>1. ~editing'.blocked => failOpen  BY <3>2, Zenon
      <4>2. failOpen => failOpen'  BY <2>3, Zenon
      <4>. QED  BY <2>6, <3>3, <4>1, <4>2
    <3>. QED  BY <2>12, <3>4 DEF EditInv
  <2>. QED  BY <2>13, <2>14, <2>15
<1>7. ASSUME NEW written, EndEdit(written) PROVE EditInv'
  BY <1>7 DEF EndEdit, EditInv
<1>8. ASSUME NEW gate \in {"commit", "audit"}, NEW doc, NEW names, NEW fails,
             BeginCheck(gate, doc, names, fails)
      PROVE  EditInv'
  BY <1>3, <1>8 DEF BeginCheck, world
<1>9. ASSUME NEW name \in Names, AskCheck(name) PROVE EditInv'
  <2>1. PICK q : q = Question(checking.doc, name)  OBVIOUS
  <2>2. checking.gate \in {"commit", "audit"}
    BY <1>0, <1>9, GateStates DEF AskCheck, NextIn, GatesTypeOK, CheckState
  <2>3. met' = [met EXCEPT ![checking.gate][q[1]] = Heard(q)]
    BY <1>9, <2>1 DEF AskCheck, Met
  <2>4. met'["edit"] = met["edit"]  BY <1>0, <2>2, <2>3 DEF GatesTypeOK, Gates
  <2>. QED  BY <1>0, <1>9, <2>4, EditKept DEF AskCheck, world
<1>10. CASE EndCheck
  <2>1. checking.gate \in {"commit", "audit"}
    BY <1>0, <1>10, GateStates DEF EndCheck, GatesTypeOK, CheckState
  <2>. QED  BY <1>3, <1>10, <2>1 DEF EndCheck, world
<1>11. CASE UNCHANGED gatesVars  BY <1>2, <1>11 DEF gatesVars, world
<1>. QED
  BY <1>4, <1>5, <1>6, <1>7, <1>8, <1>9, <1>10, <1>11
     DEF Next, EditGate, CheckGates, BeginCommit, BeginAudit

LEMMA NextCheck == GatesInv /\ [Next]_gatesVars => CheckInv'
<1> SUFFICES ASSUME GatesInv, [Next]_gatesVars PROVE CheckInv'
  OBVIOUS
<1>0. GatesTypeOK /\ CheckInv  BY DEF GatesInv
<1>1. checking # Idle => checking.gate \in {"commit", "audit"}
  BY <1>0 DEF GatesTypeOK, CheckState
<1>2. ASSUME NEW now, NEW how, Change(now, how) PROVE CheckInv'
  <2>1. checking # Idle => refused'[checking.gate] \subseteq refused[checking.gate]
    BY <1>1, <1>2 DEF Change, Gates
  <2>. QED  BY <1>0, <1>2, <2>1, CheckKept DEF Change
<1>3. CASE UNCHANGED <<checking, index, failOpen, met, refused>>
  BY <1>0, <1>3, CheckKept
<1>4. ASSUME UNCHANGED <<checking, index, failOpen>>, Started("edit") \/ Ended("edit")
      PROVE  CheckInv'
  <2>1. checking # Idle => /\ met'[checking.gate] = met[checking.gate]
                           /\ refused'[checking.gate] = refused[checking.gate]
    BY <1>0, <1>1, <1>4 DEF Started, Ended, GatesTypeOK, Gates
  <2>. QED  BY <1>0, <1>4, <2>1, CheckKept
<1>5. CASE GitAdd
  BY <1>5 DEF GitAdd, CheckInv
<1>6. CASE World  BY <1>2, <1>3, <1>5, <1>6 DEF World, EditByHand, world
<1>7. ASSUME NEW name \in Names, AskEdit(name) PROVE CheckInv'
  <2>1. PICK q : q = Question(editing.new, name)  OBVIOUS
  <2>2. met' = [met EXCEPT !["edit"][q[1]] = Heard(q)]
    BY <1>7, <2>1 DEF AskEdit, Met
  <2>3. checking # Idle => met'[checking.gate] = met[checking.gate]
    BY <1>0, <1>1, <2>2 DEF GatesTypeOK, Gates
  <2>. QED  BY <1>0, <1>7, <2>3, CheckKept DEF AskEdit, world
<1>8. CASE EditGate
  BY <1>4, <1>7, <1>8 DEF EditGate, BeginEdit, EndEdit, world
<1>9. CASE BeginCommit
  <2>1. PICK d : d = Gated  OBVIOUS
  <2>2. checking'.doc = d /\ checking'.gate = "commit" /\ checking'.exists = (file # Absent)
        /\ checking'.todo = IF file = Absent THEN {} ELSE NamesIn(d)
    BY <1>9, <2>1 DEF BeginCommit, BeginCheck
  <2>3. index' = index  BY <1>9 DEF BeginCommit, BeginCheck
  <2>4. checking'.exists => NamesIn(checking'.doc) \ checking'.todo = {}  BY <2>2
  <2>5. index' # Absent => checking'.doc = index'  BY <2>1, <2>2, <2>3 DEF Gated
  <2>. QED  BY <2>2, <2>4, <2>5 DEF CheckInv
<1>10. CASE BeginAudit
  <2>1. checking'.doc = file /\ checking'.gate = "audit" /\ checking'.todo = NamesIn(file)
    BY <1>10 DEF BeginAudit, BeginCheck
  <2>. QED  BY <2>1 DEF CheckInv
<1>11. ASSUME NEW name \in Names, AskCheck(name) PROVE CheckInv'
  <2>1. PICK k : k = checking  OBVIOUS
  <2>2. PICK q : q = Question(k.doc, name)  OBVIOUS
  <2>3. q[1] = name /\ Met(k.gate, q) /\ UNCHANGED <<refused, failOpen, index>>
    BY <1>11, <2>1, <2>2, AboutName DEF AskCheck, world
  <2>4. k \in CheckState /\ k # Idle /\ name \in k.todo
    BY <1>0, <1>11, <2>1, GateStates DEF AskCheck, NextIn, GatesTypeOK
  <2>5. k.gate \in Gates  BY <2>4 DEF CheckState, Gates
  <2>6. \A n \in Names \ {name} : met'[k.gate][n] = met[k.gate][n]
    <3>1. met' = [met EXCEPT ![k.gate][name] = Heard(q)]
      BY <1>0, <2>3, <2>5, MetType
    <3>. QED  BY <1>0, <2>5, <3>1 DEF GatesTypeOK
  <2> DEFINE next == Without(k, name)
  <2>7. next \in CheckState /\ next.todo = k.todo \ {name} /\ next.blocked = k.blocked
        /\ next.doc = k.doc /\ next.gate = k.gate /\ next.exists = k.exists
    BY <2>4 DEF Without, CheckState
  <2>8. checking' = CASE Check(q) = "ALLOWED" -> next
                      [] Check(q) = "DENIED" -> [next EXCEPT !.blocked = TRUE]
                      [] OTHER -> [next EXCEPT !.todo = {}, !.blocked = TRUE]
    BY <1>11, <2>1, <2>2 DEF AskCheck
  <2> HIDE DEF next
  <2>9. checking'.doc = k.doc /\ checking'.gate = k.gate
    BY <2>7, <2>8 DEF CheckState
  <2>10. checking'.gate = "commit" /\ index' # Absent => checking'.doc = index'
    BY <1>0, <2>1, <2>3, <2>4, <2>9 DEF CheckInv
  <2>11. CASE Check(q) = "ALLOWED"
    <3>1. PICK f : f = next  OBVIOUS
    <3>2. checking' = f  BY <2>8, <2>11, <3>1
    <3>3. f.doc = k.doc /\ f.todo = k.todo \ {name} /\ f.blocked = k.blocked
          /\ f.gate = k.gate /\ f.exists = k.exists
      BY <2>7, <3>1
    <3>4. ASSUME ~f.blocked, f.gate = "commit" => f.exists,
                 NEW n \in NamesIn(f.doc) \ f.todo
          PROVE  Passes(f.gate, Question(f.doc, n))'
      <4>1. CASE n = name
        <5>1. Passes(k.gate, q)'  BY <2>3, <2>5, <2>11, AnswerPasses
        <5>. QED  BY <2>2, <3>3, <4>1, <5>1
      <4>2. CASE n # name
        <5>1. Passes(k.gate, Question(k.doc, n))
          BY <1>0, <2>1, <2>4, <3>3, <3>4, <4>2 DEF CheckInv
        <5>2. n \in Names
          BY <2>4, <3>3, <3>4, NamesType DEF CheckState
        <5>3. met'[k.gate][Question(k.doc, n)[1]] = met[k.gate][Question(k.doc, n)[1]]
          BY <2>6, <4>2, <5>2, AboutName
        <5>4. \A r : r = Question(k.doc, n) => Passes(k.gate, r)'
          BY <2>3, <5>1, <5>3, PassesKept
        <5>. QED  BY <3>3, <5>4
      <4>. QED  BY <4>1, <4>2
    <3>. QED  BY <2>10, <3>2, <3>4 DEF CheckInv
  <2>12. CASE Check(q) # "ALLOWED"
    <3>1. checking'.blocked  BY <2>7, <2>8, <2>12 DEF CheckState
    <3>. QED  BY <2>10, <3>1 DEF CheckInv
  <2>. QED  BY <2>11, <2>12
<1>12. CASE EndCheck  BY <1>12 DEF EndCheck, CheckInv
<1>13. CASE UNCHANGED gatesVars  BY <1>3, <1>13 DEF gatesVars, world
<1>. QED
  BY <1>6, <1>8, <1>9, <1>10, <1>11, <1>12, <1>13 DEF Next, CheckGates

-----------------------------------------------------------------------------

\* The invariant of the gates.
THEOREM GatesInvariant == Spec => []GatesInv
<1>1. GatesInv /\ [Next]_gatesVars => GatesInv'
  BY NextTypes, NextRefused, NextEdit, NextCheck DEF GatesInv
<1>. QED  BY InitGates, <1>1, PTL DEF Spec

\* The documents, verdicts and gates have their types.
THEOREM GatesTypeCorrect == Spec => []GatesTypeOK
<1>1. GatesInv => GatesTypeOK  BY DEF GatesInv
<1>. QED  BY GatesInvariant, <1>1, PTL

\* An edit leaves its gate by EndEdit, a commit or an audit by EndCheck.
LEMMA OnlyEndsLeave ==
  ASSUME GatesInv, [Next]_gatesVars
  PROVE  /\ editing # Idle /\ editing' = Idle => \E written \in Files : EndEdit(written)
         /\ checking # Idle /\ checking' = Idle => EndCheck
<1> USE DEF GatesInv
<1>1. CASE World  BY <1>1 DEF World, Change, EditByHand, GitAdd
<1>2. ASSUME NEW doc, BeginEdit(doc) PROVE editing' # Idle /\ UNCHANGED checking
  BY <1>2 DEF BeginEdit, Idle
<1>3. ASSUME NEW name \in Names, AskEdit(name) PROVE editing' # Idle /\ UNCHANGED checking
  <2>1. editing' \in EditState  BY <1>3, AskTypes
  <2>. QED  BY <1>3, <2>1, GateStates DEF AskEdit
<1>4. ASSUME NEW written \in Files, EndEdit(written) PROVE UNCHANGED checking
  BY <1>4 DEF EndEdit
<1>5. ASSUME NEW name \in Names, AskCheck(name) PROVE checking' # Idle /\ UNCHANGED editing
  <2>1. checking' \in CheckState  BY <1>5, AskTypes
  <2>. QED  BY <1>5, <2>1, GateStates DEF AskCheck
<1>6. CASE BeginCommit \/ BeginAudit
  BY <1>6 DEF BeginCommit, BeginAudit, BeginCheck, Idle
<1>7. CASE EndCheck  BY <1>7 DEF EndCheck
<1>8. CASE UNCHANGED gatesVars  BY <1>8 DEF gatesVars
<1>. QED
  BY <1>1, <1>2, <1>3, <1>4, <1>5, <1>6, <1>7, <1>8 DEF Next, EditGate, CheckGates

\* No edit that adds a refused name leaves the edit gate unblocked.
THEOREM EditGateIsTight == Spec => EditGateHolds
<1>1. GatesInv /\ [Next]_gatesVars =>
        (Edited /\ editing.old # Absent /\ file' = editing.new
         /\ (failOpen => \A n \in Names : met["edit"][n] # "error")
         => \A n \in Added(editing.old, file') : Passes("edit", Question(file', n)))
  <2> SUFFICES ASSUME GatesInv, [Next]_gatesVars, Edited, editing.old # Absent,
                      file' = editing.new,
                      failOpen => \A n \in Names : met["edit"][n] # "error"
               PROVE  \A n \in Added(editing.old, file') : Passes("edit", Question(file', n))
    OBVIOUS
  <2>1. editing.todo = {}  BY OnlyEndsLeave DEF Edited, EndEdit
  <2>. QED  BY <2>1 DEF GatesInv, EditInv, Edited
<1>. QED  BY GatesInvariant, <1>1, PTL DEF Spec, EditGateHolds

\* No refused name of the staged document passes the pre-commit hook.
THEOREM CommitGateIsTight == Spec => CommitGateHolds
<1>1. GatesInv /\ [Next]_gatesVars =>
        (Passed("commit") /\ checking.exists /\ index # Absent =>
           \A n \in NamesIn(index) : Passes("commit", Question(index, n)))
  <2> SUFFICES ASSUME GatesInv, [Next]_gatesVars, Passed("commit"),
                      checking.exists, index # Absent
               PROVE  \A n \in NamesIn(index) : Passes("commit", Question(index, n))
    OBVIOUS
  <2>1. checking.todo = {}  BY OnlyEndsLeave DEF Passed, EndCheck
  <2>2. checking.doc = index /\ checking.gate = "commit"
    BY DEF GatesInv, CheckInv, Passed
  <2>. QED  BY <2>1, <2>2 DEF GatesInv, CheckInv, Passed
<1>. QED  BY GatesInvariant, <1>1, PTL DEF Spec, CommitGateHolds

\* No refused name of the document it has read passes the audit.
THEOREM AuditGateIsTight == Spec => AuditGateHolds
<1>1. GatesInv /\ [Next]_gatesVars =>
        (Passed("audit") =>
           \A n \in NamesIn(checking.doc) : Passes("audit", Question(checking.doc, n)))
  <2> SUFFICES ASSUME GatesInv, [Next]_gatesVars, Passed("audit")
               PROVE  \A n \in NamesIn(checking.doc) :
                        Passes("audit", Question(checking.doc, n))
    OBVIOUS
  <2>1. checking.todo = {}  BY OnlyEndsLeave DEF Passed, EndCheck
  <2>. QED  BY <2>1 DEF GatesInv, CheckInv, Passed
<1>. QED  BY GatesInvariant, <1>1, PTL DEF Spec, AuditGateHolds

=============================================================================
