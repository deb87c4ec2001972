------------------------- MODULE ApprovalFlow_proofs -------------------------
(***************************************************************************)
(* Theorems about RegistryReload and about ApprovalFlow, which composes it *)
(* with the proposer, for every value of their constants: what is live was *)
(* loadable and approved, each of the two implements the abstract service, *)
(* in full with the poller alone and its racy form with any reloads, the   *)
(* proposer's lock loses no proposal, and a request that waits for the     *)
(* proposer is in the database.                                            *)
(***************************************************************************)
EXTENDS ApprovalFlow, TLAPS

-----------------------------------------------------------------------------
(* RegistryReload.                                                         *)

LEMMA AppendFacts ==
    ASSUME NEW S, NEW s \in Seq(S), NEW e \in S
    PROVE  /\ Append(s, e) \in Seq(S)
           /\ Len(Append(s, e)) = Len(s) + 1
           /\ \A i \in 1..Len(s) : Append(s, e)[i] = s[i]
           /\ Append(s, e)[Len(s) + 1] = e
OBVIOUS

\* A version of the file keeps its content when a new one is written.
LEMMA WriteKeeps ==
    ASSUME TypeOK, NEW content \in Content, Write(content)
    PROVE  /\ disk' \in Seq(Content)
           /\ Len(disk') = Len(disk) + 1
           /\ \A v \in 1..Len(disk) : disk'[v] = disk[v]
           /\ disk'[Len(disk) + 1] = content
BY AppendFacts DEF TypeOK, Write

-----------------------------------------------------------------------------
(* RegistryReload among others, who write anything to the file, store rows *)
(* and suffer faults of their own.  What its invariants need is that a     *)
(* step is one of these; the operator's edits and FileRequest are, and so  *)
(* is every step of ApprovalFlow.                                          *)

WriteFile ==
    /\ \E content \in Content : Write(content)
    /\ UNCHANGED <<server, live, reviewing, lastMtime, seen, skipped, callVars, rows, faults>>

StoreRow ==
    /\ \E p \in Packages, q \in Requesters : SetPending(p, q)
    /\ UNCHANGED <<regVars, callVars, faults>>

FaultElsewhere ==
    /\ faults < MaxFaults
    /\ faults' = faults + 1
    /\ UNCHANGED <<regVars, callVars, rows>>

OpenNext ==
    \/ ServerStep
    \/ WriteFile
    \/ StoreRow
    \/ FaultElsewhere
    \/ Crash
    \/ \E c \in Reloaders : RequestReload(c)
    \/ \E c \in Callers : MarkFail(c)

LEMMA PublishIsOpen == Publish => WriteFile
BY ConstantsAssumption DEF ConstantsAssumption, Publish, WriteFile

LEMMA NextIsOpen == Next => OpenNext
BY PublishIsOpen DEF Next, OpenNext, FileRequest, StoreRow

-----------------------------------------------------------------------------
(* Types.                                                                  *)

LEMMA InitTypeOK == Init => TypeOK
<1> SUFFICES ASSUME Init PROVE TypeOK
  OBVIOUS
<1>1. disk \in Seq(Content) /\ Len(disk) \in Nat
  <2>1. CASE disk = <<>>
    BY <2>1
  <2>2. ASSUME NEW c \in Edits, disk = <<c>>
        PROVE  disk \in Seq(Content)
    <3>1. c \in Content
      BY ConstantsAssumption DEF ConstantsAssumption
    <3> QED BY <2>2, <3>1
  <2> QED BY <2>1, <2>2 DEF Init
<1>2. /\ server \in {"down", "starting", "serving"}
      /\ rows \in [Packages -> [Requesters -> RowStatus]]
  BY DEF Init, RowStatus
<1>3. /\ live \in 0..Len(disk)
      /\ lastMtime \in 0..Len(disk)
      /\ seen \in 0..Len(disk)
      /\ faults \in 0..MaxFaults
  BY <1>1, ConstantsAssumption DEF Init, ConstantsAssumption
<1>4. reviewing \in BOOLEAN /\ skipped \in BOOLEAN
  BY DEF Init
<1>5. /\ pc \in [Callers -> PcValues]
      /\ got \in [Callers -> 0..Len(disk)]
      /\ todo \in [Callers -> SUBSET Packages]
      /\ marking \in [Callers -> Packages \cup {NoPackage}]
      /\ picked \in [Callers -> SUBSET Requesters]
  BY <1>1 DEF Init, ForAllCalls, PcValues
<1> QED BY <1>1, <1>2, <1>3, <1>4, <1>5 DEF TypeOK

LEMMA LeaveTypeOK ==
    ASSUME TypeOK, NEW c \in Callers, NEW ok \in BOOLEAN, Leave(c, ok), disk' = disk
    PROVE  /\ pc' \in [Callers -> PcValues]
           /\ got' \in [Callers -> 0..Len(disk')]
           /\ todo' \in [Callers -> SUBSET Packages]
           /\ marking' \in [Callers -> Packages \cup {NoPackage}]
           /\ picked' \in [Callers -> SUBSET Requesters]
           /\ lastMtime' \in 0..Len(disk')
           /\ seen' \in 0..Len(disk')
BY DEF TypeOK, Leave, PcValues

LEMMA ContinueTypeOK ==
    ASSUME TypeOK, NEW c \in Callers, NEW rest \in SUBSET Packages, Continue(c, rest),
           disk' = disk
    PROVE  /\ pc' \in [Callers -> PcValues]
           /\ got' \in [Callers -> 0..Len(disk')]
           /\ todo' \in [Callers -> SUBSET Packages]
           /\ marking' \in [Callers -> Packages \cup {NoPackage}]
           /\ picked' \in [Callers -> SUBSET Requesters]
           /\ lastMtime' \in 0..Len(disk')
           /\ seen' \in 0..Len(disk')
<1>1. CASE rest = {}
  BY <1>1, LeaveTypeOK DEF Continue
<1>2. CASE rest # {}
  BY <1>2 DEF TypeOK, Continue, PcValues
<1> QED BY <1>1, <1>2

LEMMA KeysType ==
    ASSUME TypeOK, NEW v \in 0..Len(disk)
    PROVE  Keys(v) \in SUBSET Packages
<1>1. CASE v = 0
  BY <1>1 DEF Keys
<1>2. CASE v # 0
  <2>1. disk[v] \in Content
    BY <1>2 DEF TypeOK
  <2> QED BY <1>2, <2>1 DEF Keys, Content
<1> QED BY <1>1, <1>2

LEMMA NextTypeOK == TypeOK /\ [OpenNext]_vars => TypeOK'
<1> SUFFICES ASSUME TypeOK, [OpenNext]_vars PROVE TypeOK'
  OBVIOUS
<1> USE DEF vars, regVars, callVars
<1>1. ASSUME WriteFile PROVE TypeOK'
  <2>1. PICK content \in Content : Write(content)
    BY <1>1 DEF WriteFile
  <2> QED BY <1>1, <2>1, WriteKeeps DEF WriteFile, TypeOK
<1>2. ASSUME StoreRow PROVE TypeOK'
  BY <1>2 DEF StoreRow, SetPending, TypeOK, RowStatus
<1>3. ASSUME Start PROVE TypeOK'
  BY <1>3 DEF Start, TypeOK, Mtime
<1>4. ASSUME Crash PROVE TypeOK'
  <2>1. /\ disk' \in Seq(Content) /\ Len(disk') \in Nat
        /\ server' \in {"down", "starting", "serving"}
        /\ rows' \in [Packages -> [Requesters -> RowStatus]]
    BY <1>4 DEF Crash, Lose, TypeOK
  <2>2. faults' \in 0..MaxFaults
    BY <1>4, ConstantsAssumption DEF Crash, TypeOK, ConstantsAssumption
  <2>3. reviewing' \in BOOLEAN /\ skipped' \in BOOLEAN
    BY <1>4 DEF Crash, Lose
  <2>4. live' \in 0..Len(disk') /\ lastMtime' \in 0..Len(disk') /\ seen' \in 0..Len(disk')
    BY <1>4, <2>1 DEF Crash, Lose
  <2>5. /\ pc' \in [Callers -> PcValues]
        /\ got' \in [Callers -> 0..Len(disk')]
        /\ todo' \in [Callers -> SUBSET Packages]
        /\ marking' \in [Callers -> Packages \cup {NoPackage}]
        /\ picked' \in [Callers -> SUBSET Requesters]
    BY <1>4, <2>1 DEF Crash, Lose, ForAllCalls, PcValues
  <2> QED BY <2>1, <2>2, <2>3, <2>4, <2>5 DEF TypeOK
<1>5. ASSUME FirstTick \/ LateFirstTick PROVE TypeOK'
  <2>1. skipped' \in BOOLEAN
    BY <1>5 DEF FirstTick, LateFirstTick, Remember
  <2>2. server' \in {"down", "starting", "serving"} /\ lastMtime' \in 0..Len(disk)
    BY <1>5 DEF FirstTick, LateFirstTick, Remember, Mtime, TypeOK
  <2> QED BY <1>5, <2>1, <2>2 DEF FirstTick, LateFirstTick, TypeOK
<1>6. ASSUME PollTick PROVE TypeOK'
  BY <1>6 DEF PollTick, Mtime, TypeOK, PcValues, Callers
<1>7. ASSUME NEW c \in Reloaders, RequestReload(c) PROVE TypeOK'
  BY <1>7 DEF RequestReload, TypeOK, PcValues
<1>8. ASSUME NEW c \in Callers, ReadFile(c) PROVE TypeOK'
  BY <1>8 DEF ReadFile, Mtime, TypeOK, PcValues
<1>9. ASSUME NEW c \in Callers, Reject(c) PROVE TypeOK'
  BY <1>9, LeaveTypeOK DEF Reject, TypeOK
<1>10. ASSUME NEW c \in Callers, Install(c) PROVE TypeOK'
  <2>1. got[c] \in 0..Len(disk)
    BY DEF TypeOK
  <2>2. Keys(got[c]) \in SUBSET Packages
    BY <2>1, KeysType
  <2> QED BY <1>10, <2>1, <2>2, ContinueTypeOK DEF Install, TypeOK
<1>11. ASSUME NEW c \in Callers, MarkSelect(c) PROVE TypeOK'
  <2>1. PICK p \in todo[c] :
           IF Pending(p) = {} THEN Continue(c, todo[c] \ {p})
           ELSE /\ pc' = [pc EXCEPT ![c] = "picked"]
                /\ todo' = [todo EXCEPT ![c] = @ \ {p}]
                /\ marking' = [marking EXCEPT ![c] = p]
                /\ picked' = [picked EXCEPT ![c] = Pending(p)]
                /\ UNCHANGED <<got, lastMtime, seen>>
    BY <1>11 DEF MarkSelect
  <2>2. p \in Packages /\ todo[c] \ {p} \in SUBSET Packages
    BY DEF TypeOK
  <2>3. CASE Pending(p) = {}
    BY <1>11, <2>1, <2>2, <2>3, ContinueTypeOK DEF MarkSelect, TypeOK
  <2>4. CASE Pending(p) # {}
    <3>1. Pending(p) \in SUBSET Requesters
      BY DEF Pending
    <3>2. /\ pc' = [pc EXCEPT ![c] = "picked"]
          /\ todo' = [todo EXCEPT ![c] = @ \ {p}]
          /\ marking' = [marking EXCEPT ![c] = p]
          /\ picked' = [picked EXCEPT ![c] = Pending(p)]
          /\ UNCHANGED <<got, lastMtime, seen>>
      BY <2>1, <2>4
    <3> QED BY <1>11, <2>2, <3>1, <3>2 DEF MarkSelect, TypeOK, PcValues
  <2> QED BY <2>3, <2>4
<1>12. ASSUME NEW c \in Callers, MarkUpdate(c) PROVE TypeOK'
  <2>1. todo[c] \in SUBSET Packages
    BY DEF TypeOK
  <2>2. rows' \in [Packages -> [Requesters -> RowStatus]]
    BY <1>12 DEF MarkUpdate, TypeOK, RowStatus
  <2> QED BY <1>12, <2>1, <2>2, ContinueTypeOK DEF MarkUpdate, TypeOK
<1>13. ASSUME NEW c \in Callers, MarkFail(c) PROVE TypeOK'
  <2>1. faults' \in 0..MaxFaults
    BY <1>13, ConstantsAssumption DEF MarkFail, TypeOK, ConstantsAssumption
  <2>2. Leave(c, FALSE) /\ disk' = disk
    BY <1>13 DEF MarkFail
  <2> QED BY <1>13, <2>1, <2>2, LeaveTypeOK DEF MarkFail, TypeOK
<1>14. ASSUME FaultElsewhere PROVE TypeOK'
  <2>1. faults' \in 0..MaxFaults
    BY <1>14, ConstantsAssumption DEF FaultElsewhere, TypeOK, ConstantsAssumption
  <2> QED BY <1>14, <2>1 DEF FaultElsewhere, TypeOK
<1>15. CASE UNCHANGED vars
  BY <1>15 DEF TypeOK
<1> QED
  BY <1>1, <1>2, <1>3, <1>4, <1>5, <1>6, <1>7, <1>8, <1>9, <1>10, <1>11, <1>12,
     <1>13, <1>14, <1>15 DEF OpenNext, ServerStep, Reload

\* Types hold in every reachable state.
THEOREM TypeCorrect == Spec => []TypeOK
<1>1. TypeOK /\ [Next]_vars => TypeOK'
  BY NextTypeOK, NextIsOpen
<1> QED BY <1>1, InitTypeOK, PTL DEF Spec

-----------------------------------------------------------------------------
(* Which registries and rows the reloads produce.                          *)

\* Some valid version of the file registers p.
Registered(p) == \E v \in 1..Len(disk) : Validates(disk[v]) /\ p \in disk[v].keys

\* The invariant that is inductive: what a call carries from one await to the
\* next (the version it read, the packages it has to mark, the package whose
\* rows it has selected) comes from a valid version of the file.
ReloadInv ==
    /\ TypeOK
    /\ \A c \in Callers : pc[c] \in {"reading", "read"} => Mtime > 0
    /\ \A c \in Callers : pc[c] = "read" => got[c] > 0
    /\ \A c \in Callers : \A p \in todo[c] : Registered(p)
    /\ \A c \in Callers :
         pc[c] = "picked" => marking[c] \in Packages /\ Registered(marking[c])
    /\ ApprovedWereRegistered
    /\ LiveLoadable

LEMMA InitReloadInv == Init => ReloadInv
<1> SUFFICES ASSUME Init PROVE ReloadInv
  OBVIOUS
<1>1. TypeOK
  BY InitTypeOK
<1> QED
  BY <1>1
  DEF Init, ReloadInv, ForAllCalls, ApprovedWereRegistered, LiveLoadable

\* What is registered stays so: the file's past does not change.
LEMMA RegisteredStable ==
    ASSUME TypeOK, NEW content \in Content, Write(content) \/ disk' = disk
    PROVE  /\ \A p \in Packages : Registered(p) => Registered(p)'
           /\ live # 0 => disk'[live] = disk[live]
           /\ Mtime' >= Mtime
<1>1. CASE disk' = disk
  BY <1>1 DEF Registered, Mtime, TypeOK
<1>2. CASE Write(content)
  <2>1. \A v \in 1..Len(disk) : disk'[v] = disk[v] /\ v \in 1..Len(disk')
    BY <1>2, WriteKeeps DEF TypeOK
  <2>2. live # 0 => live \in 1..Len(disk)
    BY DEF TypeOK
  <2>3. Mtime' >= Mtime
    BY <1>2, WriteKeeps DEF Mtime, TypeOK
  <2> QED BY <2>1, <2>2, <2>3 DEF Registered
<1> QED BY <1>1, <1>2

\* The steps that leave the calls and rows alone only need the file to grow.
LEMMA CarriedStable ==
    ASSUME ReloadInv, TypeOK', NEW content \in Content, Write(content) \/ disk' = disk,
           UNCHANGED <<callVars, rows>>
    PROVE  /\ \A c \in Callers : pc'[c] \in {"reading", "read"} => Mtime' > 0
           /\ \A c \in Callers : pc'[c] = "read" => got'[c] > 0
           /\ \A c \in Callers : \A p \in todo'[c] : Registered(p)'
           /\ \A c \in Callers :
                pc'[c] = "picked" => marking'[c] \in Packages /\ Registered(marking[c])'
           /\ ApprovedWereRegistered'
<1> USE DEF callVars
<1>1. TypeOK
  BY DEF ReloadInv
<1>2. \A p \in Packages : Registered(p) => Registered(p)'
  BY <1>1, RegisteredStable
<1>3. Mtime' >= Mtime /\ Mtime \in Nat /\ Mtime' \in Nat
  BY <1>1, RegisteredStable DEF Mtime, TypeOK
<1>4. \A c \in Callers : todo[c] \subseteq Packages
  BY <1>1 DEF TypeOK
<1>5. ApprovedWereRegistered'
  BY <1>2 DEF ReloadInv, ApprovedWereRegistered, Registered
<1> QED BY <1>2, <1>3, <1>4, <1>5 DEF ReloadInv

\* What the calls carry: the second to the fifth conjunct of ReloadInv.
Carried ==
    /\ \A c \in Callers : pc[c] \in {"reading", "read"} => Mtime > 0
    /\ \A c \in Callers : pc[c] = "read" => got[c] > 0
    /\ \A c \in Callers : \A p \in todo[c] : Registered(p)
    /\ \A c \in Callers :
         pc[c] = "picked" => marking[c] \in Packages /\ Registered(marking[c])

LEMMA ContinueCarries ==
    ASSUME TypeOK, Carried, NEW c \in Callers, NEW rest \in SUBSET Packages,
           \/ Continue(c, rest) /\ \A p \in rest : Registered(p)
           \/ \E ok \in BOOLEAN : Leave(c, ok),
           disk' = disk
    PROVE  Carried'
<1>1. \A p : Registered(p)' <=> Registered(p)
  BY DEF Registered
<1>2. CASE rest = {} \/ \E ok \in BOOLEAN : Leave(c, ok)
  <2>1. PICK ok \in BOOLEAN : Leave(c, ok)
    BY <1>2 DEF Continue
  <2> QED BY <1>1, <2>1 DEF Leave, Carried, Mtime, TypeOK
<1>3. CASE rest # {} /\ Continue(c, rest) /\ \A p \in rest : Registered(p)
  BY <1>1, <1>3 DEF Continue, Carried, Mtime, TypeOK
<1> QED BY <1>2, <1>3

LEMMA NextReloadInv == ReloadInv /\ [OpenNext]_vars => ReloadInv'
<1> SUFFICES ASSUME ReloadInv, [OpenNext]_vars PROVE ReloadInv'
  OBVIOUS
<1>1. TypeOK /\ TypeOK' /\ Carried
  BY NextTypeOK DEF ReloadInv, Carried
<1>2. ASSUME disk' = disk, rows' = rows PROVE ApprovedWereRegistered'
  BY <1>2 DEF ReloadInv, ApprovedWereRegistered
<1>3. ASSUME disk' = disk, live' = live PROVE LiveLoadable'
  BY <1>3 DEF ReloadInv, LiveLoadable
<1>4. ASSUME Carried', ApprovedWereRegistered', LiveLoadable' PROVE ReloadInv'
  BY <1>1, <1>4 DEF ReloadInv, Carried
<1>5. ASSUME disk' = disk, UNCHANGED <<callVars, rows>> PROVE Carried'
  BY <1>1, <1>5 DEF Carried, callVars, Mtime, Registered
<1>6. ASSUME WriteFile PROVE ReloadInv'
  <2>1. PICK content \in Content : Write(content)
    BY <1>6 DEF WriteFile
  <2>2. UNCHANGED <<callVars, rows>> /\ live' = live
    BY <1>6 DEF WriteFile
  <2>3. Carried' /\ ApprovedWereRegistered'
    BY <1>1, <2>1, <2>2, CarriedStable DEF Carried, callVars
  <2>4. live # 0 => disk'[live] = disk[live]
    BY <1>1, <2>1, RegisteredStable
  <2>5. LiveLoadable'
    BY <2>2, <2>4 DEF LiveLoadable, ReloadInv
  <2> QED BY <1>4, <2>3, <2>5
<1>7. ASSUME StoreRow PROVE ReloadInv'
  <2>1. ApprovedWereRegistered'
    BY <1>1, <1>7
    DEF StoreRow, SetPending, regVars, ApprovedWereRegistered, ReloadInv, TypeOK
  <2>2. Carried'
    BY <1>1, <1>7 DEF StoreRow, regVars, callVars, Carried, Mtime, Registered
  <2> QED BY <1>3, <1>4, <1>7, <2>1, <2>2 DEF StoreRow, regVars
<1>8. ASSUME Start PROVE ReloadInv'
  <2>1. LiveLoadable'
    BY <1>1, <1>8 DEF Start, LiveLoadable, Boots, Mtime, TypeOK
  <2> QED BY <1>2, <1>4, <1>5, <1>8, <2>1 DEF Start
<1>9. ASSUME Crash PROVE ReloadInv'
  <2>1. Carried'
    BY <1>9 DEF Crash, Lose, ForAllCalls, Carried
  <2>2. LiveLoadable'
    BY <1>9 DEF Crash, Lose, LiveLoadable
  <2> QED BY <1>2, <1>4, <1>9, <2>1, <2>2 DEF Crash, Lose
<1>10. ASSUME FirstTick \/ LateFirstTick PROVE ReloadInv'
  BY <1>2, <1>3, <1>4, <1>5, <1>10 DEF FirstTick, LateFirstTick
<1>11. ASSUME PollTick PROVE ReloadInv'
  <2>1. Carried'
    BY <1>1, <1>11 DEF PollTick, Carried, Mtime, Registered, TypeOK
  <2> QED BY <1>2, <1>3, <1>4, <1>11, <2>1 DEF PollTick
<1>12. ASSUME NEW c \in Reloaders, RequestReload(c) PROVE ReloadInv'
  <2>1. Carried'
    BY <1>1, <1>12 DEF RequestReload, regVars, Carried, Mtime, Registered, TypeOK
  <2> QED BY <1>2, <1>3, <1>4, <1>12, <2>1 DEF RequestReload, regVars
<1>13. ASSUME NEW c \in Callers, ReadFile(c) PROVE ReloadInv'
  <2>1. Carried'
    BY <1>1, <1>13 DEF ReadFile, regVars, Carried, Mtime, Registered, TypeOK
  <2> QED BY <1>2, <1>3, <1>4, <1>13, <2>1 DEF ReadFile, regVars
<1>14. ASSUME NEW c \in Callers, Reject(c) \/ MarkFail(c) PROVE ReloadInv'
  <2>1. Leave(c, FALSE) /\ UNCHANGED <<disk, live, rows>>
    BY <1>14 DEF Reject, MarkFail
  <2>2. Carried'
    BY <1>1, <2>1, ContinueCarries
  <2> QED BY <1>2, <1>3, <1>4, <2>1, <2>2
<1>15. ASSUME NEW c \in Callers, Install(c) PROVE ReloadInv'
  <2>1. got[c] \in 1..Len(disk)
    BY <1>1, <1>15 DEF Install, Carried, TypeOK
  <2>2. Keys(got[c]) \in SUBSET Packages /\ Keys(got[c]) = disk[got[c]].keys
    BY <1>1, <2>1, KeysType DEF Keys
  <2>3. \A p \in Keys(got[c]) : Registered(p)
    BY <1>15, <2>1, <2>2 DEF Install, Registered
  <2>4. Carried'
    BY <1>1, <1>15, <2>2, <2>3, ContinueCarries DEF Install
  <2>5. LiveLoadable'
    BY <1>15 DEF Install, LiveLoadable, Validates
  <2> QED BY <1>2, <1>4, <1>15, <2>4, <2>5 DEF Install
<1>16. ASSUME NEW c \in Callers, MarkSelect(c) PROVE ReloadInv'
  <2>1. PICK p \in todo[c] :
           IF Pending(p) = {} THEN Continue(c, todo[c] \ {p})
           ELSE /\ pc' = [pc EXCEPT ![c] = "picked"]
                /\ todo' = [todo EXCEPT ![c] = @ \ {p}]
                /\ marking' = [marking EXCEPT ![c] = p]
                /\ picked' = [picked EXCEPT ![c] = Pending(p)]
                /\ UNCHANGED <<got, lastMtime, seen>>
    BY <1>16 DEF MarkSelect
  <2>2. p \in Packages /\ todo[c] \ {p} \in SUBSET Packages
    BY <1>1 DEF TypeOK
  <2>3. Carried'
    <3>1. CASE Pending(p) = {}
      BY <1>1, <1>16, <2>1, <2>2, <3>1, ContinueCarries DEF MarkSelect, Carried
    <3>2. CASE Pending(p) # {}
      <4>1. /\ pc' = [pc EXCEPT ![c] = "picked"]
            /\ todo' = [todo EXCEPT ![c] = @ \ {p}]
            /\ marking' = [marking EXCEPT ![c] = p]
            /\ got' = got /\ disk' = disk
        BY <1>16, <2>1, <3>2 DEF MarkSelect
      <4>2. Registered(p) /\ \A r : Registered(r)' <=> Registered(r)
        BY <1>1, <4>1 DEF Carried, Registered
      <4> QED BY <1>1, <2>2, <4>1, <4>2 DEF Carried, Mtime, TypeOK
    <3> QED BY <3>1, <3>2
  <2> QED BY <1>2, <1>3, <1>4, <1>16, <2>3 DEF MarkSelect
<1>17. ASSUME NEW c \in Callers, MarkUpdate(c) PROVE ReloadInv'
  <2>1. marking[c] \in Packages /\ Registered(marking[c])
    BY <1>1, <1>17 DEF MarkUpdate, Carried
  <2>2. \A p \in Packages, q \in Requesters :
          rows'[p][q] = "APPROVED" => rows[p][q] = "APPROVED" \/ p = marking[c]
    BY <1>1, <1>17, <2>1 DEF MarkUpdate, TypeOK
  <2>3. ApprovedWereRegistered'
    BY <1>17, <2>1, <2>2 DEF MarkUpdate, ApprovedWereRegistered, Registered, ReloadInv
  <2>4. Carried'
    BY <1>1, <1>17, ContinueCarries DEF MarkUpdate, Carried, TypeOK
  <2> QED BY <1>3, <1>4, <1>17, <2>3, <2>4 DEF MarkUpdate
<1>18. CASE FaultElsewhere \/ UNCHANGED vars
  BY <1>2, <1>3, <1>4, <1>5, <1>18 DEF FaultElsewhere, vars, regVars
<1> QED
  BY <1>6, <1>7, <1>8, <1>9, <1>10, <1>11, <1>12, <1>13, <1>14, <1>15, <1>16, <1>17,
     <1>18 DEF OpenNext, ServerStep, Reload

\* What the calls in progress carry comes from valid versions of the file.
THEOREM ReloadInvariant == Spec => []ReloadInv
<1>1. ReloadInv /\ [Next]_vars => ReloadInv'
  BY NextReloadInv, NextIsOpen
<1> QED BY <1>1, InitReloadInv, PTL DEF Spec

\* A row is APPROVED only if a valid version of the file registered its
\* package: for any number of packages, requesters, reloads and faults.
THEOREM ApprovedOnlyIfRegistered == Spec => []ApprovedWereRegistered
<1>1. ReloadInv => ApprovedWereRegistered
  BY DEF ReloadInv
<1> QED BY <1>1, ReloadInvariant, PTL

\* No evaluation sees a registry that neither loader accepts.
THEOREM LiveIsLoadable == Spec => []LiveLoadable
<1>1. ReloadInv => LiveLoadable
  BY DEF ReloadInv
<1> QED BY <1>1, ReloadInvariant, PTL

-----------------------------------------------------------------------------
(* Reloads that overlap, however many.                                     *)

\* Nobody reloads unless the server is serving.
CallsNeedServer == \A c \in Callers : pc[c] # "idle" => server = "serving"

LEMMA NextCallsNeedServer ==
    ASSUME TypeOK, CallsNeedServer, [OpenNext]_vars
    PROVE  CallsNeedServer'
<1> USE DEF CallsNeedServer
<1>1. CASE WriteFile \/ StoreRow \/ FaultElsewhere \/ UNCHANGED vars
  BY <1>1 DEF WriteFile, StoreRow, FaultElsewhere, vars, regVars, callVars
<1>2. CASE Start \/ FirstTick \/ LateFirstTick
  BY <1>2 DEF Start, FirstTick, LateFirstTick, callVars
<1>3. CASE Crash
  BY <1>3 DEF Crash, Lose, ForAllCalls
<1>4. CASE PollTick
  BY <1>4 DEF PollTick, TypeOK
<1>5. ASSUME NEW c \in Callers, RequestReload(c) PROVE CallsNeedServer'
  BY <1>5 DEF RequestReload, regVars, TypeOK
<1>6. ASSUME NEW c \in Callers, Reload(c) \/ MarkFail(c) PROVE CallsNeedServer'
  <2>1. pc[c] # "idle" /\ server' = server
    BY <1>6
    DEF Reload, ReadFile, Reject, Install, MarkSelect, MarkUpdate, MarkFail, regVars
  <2> QED BY <2>1
<1> QED
  BY <1>1, <1>2, <1>3, <1>4, <1>5, <1>6 DEF OpenNext, ServerStep, Callers

LEMMA InitMapsToService == Init => CallsNeedServer /\ Service!Init
BY DEF Init, CallsNeedServer, ForAllCalls, Service!Init

\* Every step is one of the racy service or leaves its variables alone.
LEMMA StepMapsToRacyService ==
    ASSUME ReloadInv, CallsNeedServer, [OpenNext]_vars
    PROVE  [Service!RacyNext]_Service!serviceVars
<1>1. TypeOK
  BY DEF ReloadInv
<1>2. ASSUME UNCHANGED <<disk, live>>, (server' # "down") <=> (server # "down")
      PROVE  UNCHANGED Service!serviceVars
  BY <1>2 DEF Service!serviceVars
<1>3. CASE WriteFile
  <2>1. Service!Publish
    BY <1>3 DEF WriteFile, Write, Service!Publish
  <2> QED BY <2>1 DEF Service!RacyNext
<1>4. CASE Start
  <2>1. Len(disk) > 0 => disk[Len(disk)] \in {c \in Content : Boots(c)}
    BY <1>1, <1>4 DEF Start, Mtime, TypeOK
  <2>2. Service!Boot
    BY <1>4, <2>1 DEF Start, Mtime, Service!Boot
  <2> QED BY <2>2 DEF Service!RacyNext
<1>5. CASE Crash
  <2>1. Service!Stop
    BY <1>5 DEF Crash, Lose, Service!Stop
  <2> QED BY <2>1 DEF Service!RacyNext
<1>6. ASSUME NEW c \in Callers, Install(c) PROVE Service!RacyNext
  <2>1. got[c] \in 1..Len(disk) /\ server = "serving"
    BY <1>1, <1>6 DEF Install, TypeOK, ReloadInv, CallsNeedServer
  <2>2. disk[got[c]] \in {content \in Content : Validates(content)}
    BY <1>1, <1>6, <2>1 DEF Install, TypeOK
  <2>3. Service!Swap
    BY <1>6, <2>1, <2>2 DEF Install, Service!Swap
  <2> QED BY <2>3 DEF Service!RacyNext
<1>7. CASE FirstTick \/ LateFirstTick \/ PollTick \/ UNCHANGED vars
  BY <1>2, <1>7 DEF FirstTick, LateFirstTick, PollTick, vars, regVars
<1>8. CASE StoreRow \/ FaultElsewhere
  BY <1>2, <1>8 DEF StoreRow, FaultElsewhere, regVars
<1>9. ASSUME NEW c \in Callers,
             \/ ReadFile(c) \/ Reject(c) \/ MarkFail(c) \/ MarkSelect(c)
             \/ MarkUpdate(c) \/ RequestReload(c)
      PROVE  UNCHANGED Service!serviceVars
  BY <1>2, <1>9
  DEF ReadFile, Reject, MarkFail, MarkSelect, MarkUpdate, RequestReload, regVars
<1> QED
  BY <1>3, <1>4, <1>5, <1>6, <1>7, <1>8, <1>9 DEF OpenNext, ServerStep, Reload, Callers

\* Whatever overlaps, the registry in memory is changed only for a valid content
\* of the file, by a start only for one that loads, and only while the server is
\* up; that it may be an older one than before is all a race can do.
THEOREM RacesSwapValidContents == Spec => RacyServiceSpec
<1>1. ReloadInv /\ CallsNeedServer /\ [Next]_vars
        => CallsNeedServer' /\ [Service!RacyNext]_Service!serviceVars
  BY NextIsOpen, NextCallsNeedServer, StepMapsToRacyService DEF ReloadInv
<1> QED
  BY <1>1, InitMapsToService, ReloadInvariant, PTL
  DEF Spec, RacyServiceSpec, Service!RacySpec

-----------------------------------------------------------------------------
(* The poller alone: no reload request and no webhook.                     *)

\* What the poller is in the middle of never lags behind what it has recorded:
\* the mtime of its tick is at most the version it has read and then installed,
\* and a version it has read is not older than the one in memory.
PollerInv ==
    /\ ReloadInv
    /\ \A c \in Callers : server # "serving" => pc[c] = "idle"
    /\ server # "serving" => lastMtime = 0
    /\ pc[Poller] = "read" => seen <= got[Poller] /\ live <= got[Poller]
    /\ pc[Poller] \in {"marking", "picked"} => seen <= live
    /\ PollerNeverSkips

LEMMA NextPollerInv ==
    ASSUME Reloaders = {}
    PROVE  PollerInv /\ [OpenNext]_vars => PollerInv'
<1> SUFFICES ASSUME PollerInv, [OpenNext]_vars PROVE PollerInv'
  OBVIOUS
<1>1. ReloadInv /\ ReloadInv' /\ TypeOK /\ TypeOK'
  BY NextReloadInv DEF PollerInv, ReloadInv
<1>2. Callers = {Poller}
  BY DEF Callers
<1> USE DEF PollerNeverSkips
<1>3. CASE WriteFile
  <2>1. UNCHANGED <<server, live, lastMtime, seen, skipped, callVars>>
    BY <1>3 DEF WriteFile
  <2> QED BY <1>1, <2>1 DEF PollerInv, callVars
<1>4. CASE StoreRow \/ FaultElsewhere \/ UNCHANGED vars
  BY <1>1, <1>4 DEF StoreRow, FaultElsewhere, vars, regVars, callVars, PollerInv
<1>5. CASE Start
  BY <1>1, <1>2, <1>5 DEF Start, callVars, PollerInv
<1>6. CASE Crash
  BY <1>1, <1>2, <1>6 DEF Crash, Lose, ForAllCalls, PollerInv
<1>7. CASE FirstTick \/ LateFirstTick
  <2>1. skipped' <=> Mtime # live
    BY <1>7 DEF FirstTick, LateFirstTick, Remember
  <2>2. lastMtime' = Mtime /\ UNCHANGED <<live, seen, callVars>> /\ server' = "serving"
    BY <1>7 DEF FirstTick, LateFirstTick, Remember
  <2>3. Mtime \in Nat /\ live \in Nat
    BY <1>1 DEF Mtime, TypeOK
  <2> QED BY <1>1, <1>2, <2>1, <2>2, <2>3 DEF PollerInv, callVars
<1>8. CASE PollTick
  BY <1>1, <1>2, <1>8 DEF PollTick, PollerInv, TypeOK
<1>9. CASE ReadFile(Poller)
  BY <1>1, <1>2, <1>9 DEF ReadFile, regVars, Mtime, PollerInv, TypeOK
<1>10. CASE Reject(Poller) \/ MarkFail(Poller)
  <2>1. Leave(Poller, FALSE) /\ UNCHANGED <<server, live, skipped>>
    BY <1>10 DEF Reject, MarkFail
  <2> QED BY <1>1, <1>2, <2>1 DEF Leave, PollerInv, TypeOK
<1>11. ASSUME NEW rest, Continue(Poller, rest), seen <= live', live <= live',
              UNCHANGED <<server, skipped>>, server = "serving"
       PROVE  PollerInv'
  <2>1. CASE rest = {}
    BY <1>1, <1>2, <1>11, <2>1 DEF Continue, Leave, PollerInv, TypeOK
  <2>2. CASE rest # {}
    <3>1. pc' = [pc EXCEPT ![Poller] = "marking"] /\ UNCHANGED <<lastMtime, seen>>
      BY <1>11, <2>2 DEF Continue
    <3>2. /\ live \in Nat /\ live' \in Nat /\ lastMtime \in Nat
          /\ pc \in [Callers -> PcValues]
      BY <1>1 DEF TypeOK
    <3>3. PollerNeverSkips'
      <4>1. ~skipped => live >= lastMtime
        BY <1>11 DEF PollerInv
      <4>2. live >= lastMtime => live' >= lastMtime'
        BY <1>11, <3>1, <3>2
      <4>3. skipped' = skipped
        BY <1>11
      <4> QED BY <4>1, <4>2, <4>3, Zenon
    <3> QED BY <1>1, <1>2, <1>11, <3>1, <3>2, <3>3 DEF PollerInv
  <2> QED BY <2>1, <2>2
<1>12. pc[Poller] # "idle" => server = "serving"
  BY <1>2 DEF PollerInv
<1>13. CASE Install(Poller)
  BY <1>11, <1>12, <1>13 DEF Install, PollerInv
<1>14. CASE MarkSelect(Poller)
  BY <1>1, <1>2, <1>11, <1>12, <1>14 DEF MarkSelect, PollerInv, TypeOK
<1>15. CASE MarkUpdate(Poller)
  BY <1>1, <1>11, <1>12, <1>15 DEF MarkUpdate, PollerInv, TypeOK
<1> QED
  BY <1>2, <1>3, <1>4, <1>5, <1>6, <1>7, <1>8, <1>9, <1>10, <1>13, <1>14, <1>15
  DEF OpenNext, ServerStep, Reload

LEMMA InitPollerInv == Init => PollerInv
BY InitReloadInv DEF Init, PollerInv, PollerNeverSkips, ForAllCalls, Callers

\* With the poller alone, the mtime it has recorded never runs ahead of the
\* registry in memory: no edit it has seen is left out.
THEOREM PollerNeverSkipsAlone ==
    ASSUME Reloaders = {} PROVE Spec => []PollerNeverSkips
<1>1. PollerInv /\ [Next]_vars => PollerInv'
  BY NextPollerInv, NextIsOpen
<1>2. PollerInv => PollerNeverSkips
  BY DEF PollerInv
<1> QED BY <1>1, <1>2, InitPollerInv, PTL DEF Spec

\* While the server is up, only a swap changes memory, and the poller alone has
\* read nothing older.
LEMMA PollerMovesForward ==
    ASSUME Reloaders = {}, PollerInv, [OpenNext]_vars, server # "down", server' # "down"
    PROVE  live' >= live
<1>1. TypeOK /\ Callers = {Poller}
  BY DEF PollerInv, ReloadInv, Callers
<1>2. CASE live' = live
  BY <1>1, <1>2 DEF TypeOK
<1>3. CASE Install(Poller)
  BY <1>1, <1>3 DEF Install, PollerInv
<1> QED
  BY <1>1, <1>2, <1>3
  DEF OpenNext, ServerStep, Reload, WriteFile, StoreRow, FaultElsewhere, Start, Crash, Lose,
      FirstTick, LateFirstTick, PollTick, ReadFile, Reject, MarkSelect, MarkUpdate, MarkFail,
      RequestReload, vars, regVars

\* So the swaps of the racy service are advances.
LEMMA StepMapsToService ==
    ASSUME Reloaders = {}, PollerInv, [OpenNext]_vars
    PROVE  [Service!Next]_Service!serviceVars
<1>1. [Service!RacyNext]_Service!serviceVars
  <2>1. ReloadInv /\ CallsNeedServer
    BY DEF PollerInv, CallsNeedServer
  <2> QED BY <2>1, StepMapsToRacyService
<1>2. CASE Service!Swap
  <2>1. live \in Nat /\ Len(disk) \in Nat
    BY DEF PollerInv, ReloadInv, TypeOK
  <2>2. server # "down" /\ server' # "down"
    BY <1>2 DEF Service!Swap
  <2>3. live' >= live
    BY <2>2, PollerMovesForward
  <2>4. CASE live' = live
    BY <1>2, <2>4 DEF Service!Swap, Service!serviceVars
  <2>5. CASE live' # live
    <3>1. Service!Advance
      BY <1>2, <2>1, <2>3, <2>5 DEF Service!Swap, Service!Advance
    <3> QED BY <3>1 DEF Service!Next
  <2> QED BY <2>4, <2>5
<1> QED BY <1>1, <1>2 DEF Service!RacyNext, Service!Next

\* With the poller alone, RegistryReload implements RegistryService: the
\* registry in memory only moves forward while the server is up.
THEOREM PollerAloneImplementsService ==
    ASSUME Reloaders = {} PROVE Spec => ServiceSpec
<1>1. PollerInv /\ [Next]_vars => PollerInv' /\ [Service!Next]_Service!serviceVars
  BY NextPollerInv, NextIsOpen, StepMapsToService
<1> QED
  BY <1>1, InitMapsToService, InitPollerInv, PTL DEF Spec, ServiceSpec, Service!Spec

-----------------------------------------------------------------------------
(* ApprovalFlow.                                                           *)

LEMMA DoneTypeOK ==
    ASSUME FlowTypeOK, NEW c \in Calls, Done(c)
    PROVE  /\ step' \in [Calls -> Steps]
           /\ about' \in [Calls -> Packages \cup {NoPackage}]
           /\ asker' \in [Calls -> Requesters \cup {NoOne}]
           /\ found' \in [Calls -> BOOLEAN]
           /\ base' \in [Calls -> 0..Len(disk)]
           /\ lock' \in Calls \cup {NoCall}
           /\ asks' \in 0..MaxAsks
BY DEF FlowTypeOK, TypeOK, Done, Go, Steps

\* A package's document, read by the proposer.
LEMMA DocumentType ==
    ASSUME TypeOK, NEW v \in 0..Len(disk), NEW p \in Packages
    PROVE  /\ Document(v) \in Content
           /\ Merged(Document(v), p) \in Content
           /\ Merged(Document(v), p).keys = Document(v).keys \cup {p}
           /\ Merged(Document(v), p).by = "proposer"
<1>1. Document(v) \in Content
  <2>1. CASE v = 0
    BY <2>1 DEF Document, Content, Kinds
  <2>2. CASE v # 0
    BY <2>2 DEF Document, TypeOK
  <2> QED BY <2>1, <2>2
<1> QED BY <1>1 DEF Merged, Content, Kinds

\* The registry's part of a step.
LEMMA RegistryStepTypeOK ==
    ASSUME TypeOK, RegistryStep \/ Crash
    PROVE  TypeOK' /\ Len(disk') >= Len(disk)
<1>1. [OpenNext]_vars
  BY NextIsOpen DEF RegistryStep, Next
<1>2. TypeOK'
  BY <1>1, NextTypeOK
<1>3. CASE Publish
  <2>1. PICK content \in Edits : Write(content)
    BY <1>3 DEF Publish
  <2>2. content \in Content
    BY ConstantsAssumption DEF ConstantsAssumption
  <2> QED BY <1>2, <2>1, <2>2, WriteKeeps DEF TypeOK
<1>4. CASE disk' = disk
  BY <1>2, <1>4 DEF TypeOK
<1> QED
  BY <1>3, <1>4
  DEF RegistryStep, ServerStep, Reload, Crash, Lose, Start, FirstTick, LateFirstTick,
      PollTick, ReadFile, Reject, Install, MarkSelect, MarkUpdate, MarkFail,
      RequestReload, regVars

LEMMA InitFlowTypeOK == FlowInit => FlowTypeOK
<1> SUFFICES ASSUME FlowInit PROVE FlowTypeOK
  OBVIOUS
<1>1. TypeOK
  BY InitTypeOK DEF FlowInit
<1>2. 0 \in 0..Len(disk) /\ 0 \in 0..MaxAsks
  BY <1>1, FlowAssumption DEF TypeOK, FlowAssumption
<1> QED BY <1>1, <1>2 DEF FlowInit, FlowTypeOK, Steps

\* A call under way is about a package, and one that files has a requester.
Subjects ==
    \A c \in Calls :
        /\ step[c] # "idle" => about[c] \in Packages
        /\ step[c] \in {"evaluating", "filing", "storing"} => asker[c] \in Requesters

LEMMA NextFlowTypeOK == FlowTypeOK /\ Subjects /\ [FlowNext]_allVars => FlowTypeOK'
<1> SUFFICES ASSUME FlowTypeOK, Subjects, [FlowNext]_allVars PROVE FlowTypeOK'
  OBVIOUS
<1>1. TypeOK
  BY DEF FlowTypeOK
<1>2. ASSUME UNCHANGED vars PROVE TypeOK' /\ Len(disk') = Len(disk)
  BY <1>1, <1>2 DEF vars, regVars, callVars, TypeOK
<1>3. ASSUME NEW c \in Calls, NEW p \in Packages, NEW q \in Requesters \cup {NoOne},
             NEW first \in Steps, Begin(c, p, q, first)
      PROVE  FlowTypeOK'
  <2>1. asks' \in 0..MaxAsks
    BY <1>3, FlowAssumption DEF Begin, FlowTypeOK, FlowAssumption
  <2>2. TypeOK' /\ Len(disk') = Len(disk)
    BY <1>2, <1>3 DEF Begin
  <2> QED BY <1>3, <2>1, <2>2 DEF Begin, Go, FlowTypeOK
<1>4. ASSUME NEW c \in Calls, Check(c) \/ Request(c) \/ Propose(c) PROVE FlowTypeOK'
  <2>1. {"evaluating", "filing", "queued"} \subseteq Steps
    BY DEF Steps
  <2> QED BY <1>3, <1>4, <2>1 DEF Check, Request, Propose
<1>5. ASSUME NEW c \in Calls, Done(c), TypeOK', Len(disk') >= Len(disk)
      PROVE  FlowTypeOK'
  <2>1. Len(disk) \in Nat /\ Len(disk') \in Nat
    BY <1>1, <1>5 DEF TypeOK
  <2> QED BY <1>5, <2>1, DoneTypeOK DEF FlowTypeOK
<1>6. ASSUME NEW c \in Calls,
             AutoRequest(c) \/ Lookup(c) \/ BeginEdit(c)
      PROVE  FlowTypeOK'
  <2>1. TypeOK' /\ Len(disk') = Len(disk) /\ Mtime \in 0..Len(disk)
    BY <1>1, <1>2, <1>6 DEF AutoRequest, Lookup, BeginEdit, Mtime, TypeOK
  <2>2. step' \in [Calls -> Steps]
    BY <1>6 DEF AutoRequest, Lookup, BeginEdit, Go, Steps, FlowTypeOK
  <2>3. found' \in [Calls -> BOOLEAN]
    <3>1. CASE found' = [found EXCEPT ![c] = Row(c) # "none"]
      <4>1. (Row(c) # "none") \in BOOLEAN
        OBVIOUS
      <4> QED BY <3>1, <4>1 DEF FlowTypeOK
    <3>2. CASE found' = found
      BY <3>2 DEF FlowTypeOK
    <3> QED BY <1>6, <3>1, <3>2 DEF AutoRequest, Lookup, BeginEdit
  <2>4. base' \in [Calls -> 0..Len(disk)]
    BY <1>6, <2>1 DEF AutoRequest, Lookup, BeginEdit, FlowTypeOK
  <2> QED
    BY <1>6, <2>1, <2>2, <2>3, <2>4
    DEF AutoRequest, Lookup, BeginEdit, FlowTypeOK
<1>7. ASSUME NEW c \in Calls, Store(c) PROVE FlowTypeOK'
  <2>1. TypeOK'
    BY <1>1, <1>7
    DEF Store, SetPending, regVars, callVars, TypeOK, RowStatus
  <2> QED BY <1>7, <2>1 DEF Store, Go, Steps, regVars, FlowTypeOK
<1>8. ASSUME NEW c \in Calls, Answer(c) \/ StoreConflict(c) \/ RefuseEdit(c)
      PROVE  FlowTypeOK'
  <2>1. Done(c) /\ UNCHANGED vars
    BY <1>8 DEF Answer, StoreConflict, RefuseEdit
  <2>2. TypeOK' /\ Len(disk') = Len(disk) /\ Len(disk) \in Nat
    BY <1>1, <1>2, <2>1 DEF TypeOK
  <2>3. Len(disk') >= Len(disk)
    BY <2>2
  <2> QED BY <1>5, <2>1, <2>2, <2>3
<1>9. ASSUME NEW c \in Calls, StoreFail(c) \/ EditFail(c) PROVE FlowTypeOK'
  <2>1. faults' \in 0..MaxFaults
    BY <1>1, <1>9, ConstantsAssumption
    DEF StoreFail, EditFail, TypeOK, ConstantsAssumption
  <2>2. TypeOK' /\ Len(disk') >= Len(disk)
    BY <1>1, <1>9, <2>1 DEF StoreFail, EditFail, regVars, callVars, TypeOK
  <2> QED BY <1>5, <1>9, <2>2 DEF StoreFail, EditFail
<1>10. ASSUME NEW c \in Calls, WriteEdit(c) PROVE FlowTypeOK'
  <2>1. Merged(Document(base[c]), about[c]) \in Content
    BY <1>1, <1>10, DocumentType DEF FlowTypeOK, Subjects, WriteEdit
  <2>2. disk' \in Seq(Content) /\ Len(disk') = Len(disk) + 1
    BY <1>1, <1>10, <2>1, WriteKeeps DEF WriteEdit
  <2>3. TypeOK'
    BY <1>1, <1>10, <2>2 DEF WriteEdit, callVars, TypeOK
  <2>4. Len(disk') >= Len(disk)
    BY <1>1, <2>2 DEF TypeOK
  <2> QED BY <1>5, <1>10, <2>3, <2>4 DEF WriteEdit
<1>11. ASSUME RegistryStep, UNCHANGED flowVars PROVE FlowTypeOK'
  <2>1. TypeOK' /\ Len(disk') >= Len(disk) /\ Len(disk) \in Nat /\ Len(disk') \in Nat
    BY <1>1, <1>11, RegistryStepTypeOK DEF TypeOK
  <2> QED BY <1>11, <2>1 DEF flowVars, FlowTypeOK
<1>12. CASE CrashAll
  <2>1. TypeOK' /\ Len(disk') >= Len(disk) /\ Len(disk') \in Nat
    BY <1>1, <1>12, RegistryStepTypeOK DEF CrashAll, TypeOK
  <2> QED BY <1>12, <2>1 DEF CrashAll, Steps, FlowTypeOK
<1>13. CASE UNCHANGED allVars
  BY <1>2, <1>13 DEF allVars, flowVars, FlowTypeOK
<1> QED
  BY <1>4, <1>6, <1>7, <1>8, <1>9, <1>10, <1>11, <1>12, <1>13
  DEF FlowNext, CallStep, Proceed

-----------------------------------------------------------------------------
(* The inductive invariant: who edits holds the lock, so what it has read is *)
(* still the proposer's last word; a row is never deleted.                   *)

EditorsHoldLock == \A c \in Calls : step[c] = "editing" => lock = c

FlowInv ==
    /\ FlowTypeOK
    /\ Subjects
    /\ EditorsHoldLock
    /\ EditsBuildOnProposals
    /\ ProposalsAccumulate
    /\ AcceptedIsStored

LEMMA InitFlowInv == FlowInit => FlowInv
<1> SUFFICES ASSUME FlowInit PROVE FlowInv
  OBVIOUS
<1>1. FlowTypeOK
  BY InitFlowTypeOK
<1>2. Len(disk) \in {0, 1}
  BY DEF FlowInit, Init
<1>3. ProposalsAccumulate
  BY <1>2 DEF ProposalsAccumulate
<1> QED
  BY <1>1, <1>3
  DEF FlowInit, FlowInv, Subjects, EditorsHoldLock, EditsBuildOnProposals, AcceptedIsStored

\* Rows are never deleted by the registry's part of a step, and only an
\* operator's content reaches the file.
LEMMA RegistryStepKeeps ==
    ASSUME TypeOK, RegistryStep \/ Crash
    PROVE  /\ \A p \in Packages, q \in Requesters :
                rows[p][q] # "none" => rows'[p][q] # "none"
           /\ disk' = disk \/ \E content \in Edits : Write(content)
<1>1. CASE Publish
  BY <1>1 DEF Publish
<1>2. ASSUME NEW c \in Callers, MarkUpdate(c)
      PROVE  /\ \A p \in Packages, q \in Requesters :
                  rows[p][q] # "none" => rows'[p][q] # "none"
             /\ disk' = disk
  <2>1. \A p \in Packages, q \in Requesters :
          rows'[p][q] \in {rows[p][q], "APPROVED"}
    BY <1>2 DEF MarkUpdate, TypeOK
  <2> QED BY <1>2, <2>1 DEF MarkUpdate
<1>3. CASE rows' = rows /\ disk' = disk
  BY <1>3
<1> QED
  BY <1>1, <1>2, <1>3
  DEF RegistryStep, ServerStep, Reload, Crash, Lose, Start, FirstTick, LateFirstTick,
      PollTick, ReadFile, Reject, Install, MarkSelect, MarkFail, RequestReload, regVars

LEMMA NextFlowInv == FlowInv /\ [FlowNext]_allVars => FlowInv'
<1> SUFFICES ASSUME FlowInv, [FlowNext]_allVars PROVE FlowInv'
  OBVIOUS
<1>1. FlowTypeOK /\ TypeOK /\ FlowTypeOK' /\ Len(disk) \in Nat
  <2>1. FlowTypeOK /\ Subjects
    BY DEF FlowInv
  <2>2. FlowTypeOK'
    BY <2>1, NextFlowTypeOK
  <2>3. Len(disk) \in Nat
    BY <2>1 DEF FlowTypeOK, TypeOK
  <2> QED BY <2>1, <2>2, <2>3 DEF FlowTypeOK
<1> USE DEF FlowInv
<1>2. ASSUME \/ disk' = disk
             \/ \E content \in Edits : Write(content)
      PROVE  /\ ProposalsAccumulate'
             /\ \A c \in Calls : step[c] = "editing" =>
                  \A v \in (base[c] + 1)..Len(disk') : disk'[v].by = "operator"
  <2>1. CASE disk' = disk
    BY <2>1 DEF ProposalsAccumulate, EditsBuildOnProposals
  <2>2. CASE \E content \in Edits : Write(content)
    <3>1. PICK content \in Edits : Write(content)
      BY <2>2
    <3>2. content \in Content /\ content.by = "operator"
      BY ConstantsAssumption, FlowAssumption DEF ConstantsAssumption, FlowAssumption
    <3>3. /\ Len(disk') = Len(disk) + 1
          /\ \A v \in 1..Len(disk) : disk'[v] = disk[v]
          /\ disk'[Len(disk) + 1] = content
      BY <1>1, <3>1, <3>2, WriteKeeps
    <3>4. ProposalsAccumulate'
      <4> SUFFICES ASSUME NEW v \in 2..Len(disk'),
                          disk'[v].by = "proposer", disk'[v - 1].by = "proposer"
                   PROVE  disk'[v - 1].keys \subseteq disk'[v].keys
        BY DEF ProposalsAccumulate
      <4>1. v # Len(disk) + 1
        BY <3>2, <3>3
      <4>2. v \in 2..Len(disk) /\ v - 1 \in 1..Len(disk)
        BY <1>1, <3>3, <4>1
      <4> QED BY <3>3, <4>2 DEF ProposalsAccumulate
    <3>5. ASSUME NEW c \in Calls, step[c] = "editing",
                 NEW v \in (base[c] + 1)..Len(disk')
          PROVE  disk'[v].by = "operator"
      <4>1. base[c] \in Nat
        BY <1>1 DEF FlowTypeOK
      <4>2. CASE v = Len(disk) + 1
        BY <3>2, <3>3, <4>2
      <4>3. CASE v # Len(disk) + 1
        <5>1. v \in (base[c] + 1)..Len(disk) /\ v \in 1..Len(disk)
          BY <1>1, <3>3, <4>1, <4>3
        <5> QED BY <3>3, <3>5, <5>1 DEF EditsBuildOnProposals
      <4> QED BY <4>2, <4>3
    <3> QED BY <3>4, <3>5
  <2> QED BY <1>2, <2>1, <2>2
<1>3. ASSUME RegistryStep \/ Crash
      PROVE  /\ \A p \in Packages, q \in Requesters :
                  rows[p][q] # "none" => rows'[p][q] # "none"
             /\ ProposalsAccumulate'
             /\ \A c \in Calls : step[c] = "editing" =>
                  \A v \in (base[c] + 1)..Len(disk') : disk'[v].by = "operator"
  BY <1>1, <1>2, <1>3, RegistryStepKeeps
<1>4. ASSUME NEW c \in Calls, step[c] \in {"queued", "editing"}, asker[c] # NoOne
      PROVE  about[c] \in Packages /\ asker[c] \in Requesters
  BY <1>1, <1>4 DEF Subjects, FlowTypeOK
<1>5. CASE RegistryStep /\ UNCHANGED flowVars
  <2>1. AcceptedIsStored'
    BY <1>3, <1>4, <1>5 DEF AcceptedIsStored, Row, flowVars
  <2> QED
    BY <1>1, <1>3, <1>5, <2>1
    DEF flowVars, Subjects, EditorsHoldLock, EditsBuildOnProposals
<1>6. CASE CrashAll
  <2>1. \A c \in Calls : step'[c] = "idle"
    BY <1>6 DEF CrashAll
  <2>2. ProposalsAccumulate'
    BY <1>3, <1>6 DEF CrashAll
  <2> QED
    BY <1>1, <2>1, <2>2
    DEF Subjects, EditorsHoldLock, EditsBuildOnProposals, AcceptedIsStored
<1>7. ASSUME NEW c \in Calls, NEW p \in Packages, NEW q \in Requesters \cup {NoOne},
             NEW first \in {"evaluating", "filing", "queued"},
             first = "queued" <=> q = NoOne, Begin(c, p, q, first)
      PROVE  FlowInv'
  <2>1. /\ \A d \in Calls \ {c} : step'[d] = step[d] /\ about'[d] = about[d]
                                  /\ asker'[d] = asker[d]
        /\ step'[c] = first /\ about'[c] = p /\ asker'[c] = q
        /\ base' = base /\ lock' = lock /\ disk' = disk /\ rows' = rows
    BY <1>1, <1>7 DEF Begin, Go, FlowTypeOK, vars, regVars
  <2>2. NoOne \notin Requesters
    BY FlowAssumption DEF FlowAssumption
  <2>3. Subjects'
    BY <1>7, <2>1, <2>2 DEF Subjects
  <2>4. EditorsHoldLock' /\ EditsBuildOnProposals'
    BY <1>7, <2>1 DEF EditorsHoldLock, EditsBuildOnProposals
  <2>5. ProposalsAccumulate'
    BY <2>1 DEF ProposalsAccumulate
  <2>6. AcceptedIsStored'
    BY <1>7, <2>1 DEF AcceptedIsStored, Row
  <2> QED BY <1>1, <2>3, <2>4, <2>5, <2>6
<1>8. ASSUME NEW c \in Calls, AutoRequest(c) \/ Lookup(c) PROVE FlowInv'
  <2>1. /\ \A d \in Calls \ {c} : step'[d] = step[d]
        /\ step[c] \in {"evaluating", "filing"}
        /\ step'[c] \in {"filing", "storing"}
        /\ UNCHANGED <<about, asker, base, lock, disk, rows>>
    BY <1>1, <1>8 DEF AutoRequest, Lookup, Go, FlowTypeOK, vars, regVars
  <2>2. Subjects'
    BY <2>1 DEF Subjects
  <2>3. EditorsHoldLock' /\ EditsBuildOnProposals'
    BY <2>1 DEF EditorsHoldLock, EditsBuildOnProposals
  <2>4. ProposalsAccumulate' /\ AcceptedIsStored'
    BY <2>1 DEF ProposalsAccumulate, AcceptedIsStored, Row
  <2> QED BY <1>1, <2>2, <2>3, <2>4
<1>9. ASSUME NEW c \in Calls, Store(c) PROVE FlowInv'
  <2>1. /\ \A d \in Calls \ {c} : step'[d] = step[d]
        /\ step[c] = "storing" /\ step'[c] = "queued"
        /\ UNCHANGED <<about, asker, base, lock, disk>>
    BY <1>1, <1>9 DEF Store, Go, FlowTypeOK, regVars
  <2>2. about[c] \in Packages /\ asker[c] \in Requesters
    BY <2>1 DEF Subjects
  <2>3. /\ rows'[about[c]][asker[c]] = "PENDING_REVIEW"
        /\ \A p \in Packages, q \in Requesters :
             rows'[p][q] \in {rows[p][q], "PENDING_REVIEW"}
    BY <1>1, <1>9, <2>2 DEF Store, SetPending, TypeOK
  <2>4. Subjects'
    BY <2>1, <2>2 DEF Subjects
  <2>5. EditorsHoldLock' /\ EditsBuildOnProposals' /\ ProposalsAccumulate'
    BY <2>1 DEF EditorsHoldLock, EditsBuildOnProposals, ProposalsAccumulate
  <2>6. AcceptedIsStored'
    <3> SUFFICES ASSUME NEW d \in Calls, step'[d] \in {"queued", "editing"}, asker[d] # NoOne
                 PROVE  rows'[about[d]][asker[d]] # "none"
      BY <2>1 DEF AcceptedIsStored, Row
    <3>1. CASE d = c
      BY <2>3, <3>1
    <3>2. CASE d # c
      <4>1. rows[about[d]][asker[d]] # "none"
        BY <2>1, <3>2 DEF AcceptedIsStored, Row
      <4>2. about[d] \in Packages /\ asker[d] \in Requesters
        BY <1>4, <2>1, <3>2
      <4> QED BY <2>3, <4>1, <4>2
    <3> QED BY <3>1, <3>2
  <2> QED BY <1>1, <2>4, <2>5, <2>6
<1>10. ASSUME NEW c \in Calls, Done(c)
       PROVE  /\ step'[c] = "idle"
              /\ \A d \in Calls \ {c} :
                   /\ step'[d] = step[d] /\ about'[d] = about[d]
                   /\ asker'[d] = asker[d] /\ base'[d] = base[d]
              /\ \A d \in Calls \ {c} : lock = d => lock' = d
  BY <1>1, <1>10 DEF Done, Go, FlowTypeOK
<1>11. ASSUME NEW c \in Calls,
              Answer(c) \/ StoreConflict(c) \/ StoreFail(c) \/ RefuseEdit(c) \/ EditFail(c)
       PROVE  FlowInv'
  <2>1. Done(c) /\ disk' = disk /\ rows' = rows
    BY <1>11
    DEF Answer, StoreConflict, StoreFail, RefuseEdit, EditFail, vars, regVars
  <2>2. Subjects' /\ EditorsHoldLock'
    BY <1>10, <2>1 DEF Subjects, EditorsHoldLock
  <2>3. EditsBuildOnProposals'
    BY <1>10, <2>1 DEF EditsBuildOnProposals
  <2>4. ProposalsAccumulate' /\ AcceptedIsStored'
    BY <1>10, <2>1 DEF ProposalsAccumulate, AcceptedIsStored, Row
  <2> QED BY <1>1, <2>2, <2>3, <2>4
<1>12. ASSUME NEW c \in Calls, BeginEdit(c) PROVE FlowInv'
  <2>1. /\ \A d \in Calls \ {c} : step'[d] = step[d] /\ base'[d] = base[d]
        /\ step[c] = "queued" /\ step'[c] = "editing"
        /\ base'[c] = Len(disk) /\ lock = NoCall /\ lock' = c
        /\ UNCHANGED <<about, asker, disk, rows>>
    BY <1>1, <1>12 DEF BeginEdit, Go, Mtime, FlowTypeOK, vars, regVars
  <2>2. \A d \in Calls : step[d] # "editing"
    BY <2>1, FlowAssumption DEF FlowAssumption, EditorsHoldLock
  <2>3. Subjects' /\ EditorsHoldLock'
    BY <2>1, <2>2 DEF Subjects, EditorsHoldLock
  <2>4. EditsBuildOnProposals'
    BY <1>1, <2>1, <2>2 DEF EditsBuildOnProposals
  <2>5. ProposalsAccumulate' /\ AcceptedIsStored'
    BY <2>1 DEF ProposalsAccumulate, AcceptedIsStored, Row
  <2> QED BY <1>1, <2>3, <2>4, <2>5
<1>13. ASSUME NEW c \in Calls, WriteEdit(c) PROVE FlowInv'
  <2>1. Done(c) /\ step[c] = "editing" /\ rows' = rows
        /\ Write(Merged(Document(base[c]), about[c]))
    BY <1>13 DEF WriteEdit
  <2>2. about[c] \in Packages /\ base[c] \in 0..Len(disk)
    BY <1>1, <2>1 DEF Subjects, FlowTypeOK
  <2> DEFINE doc == Merged(Document(base[c]), about[c])
  <2>3. /\ doc \in Content
        /\ doc.keys = Document(base[c]).keys \cup {about[c]}
    BY <1>1, <2>2, DocumentType
  <2> HIDE DEF doc
  <2>4. /\ Len(disk') = Len(disk) + 1
        /\ \A v \in 1..Len(disk) : disk'[v] = disk[v]
        /\ disk'[Len(disk) + 1] = doc
    BY <1>1, <2>1, <2>3, WriteKeeps DEF doc
  <2>5. \A d \in Calls : step'[d] # "editing"
    BY <1>10, <2>1 DEF EditorsHoldLock
  <2>6. Subjects' /\ EditorsHoldLock' /\ EditsBuildOnProposals'
    BY <1>10, <2>1, <2>5 DEF Subjects, EditorsHoldLock, EditsBuildOnProposals
  <2>7. ProposalsAccumulate'
    <3> SUFFICES ASSUME NEW v \in 2..Len(disk'),
                        disk'[v].by = "proposer", disk'[v - 1].by = "proposer"
                 PROVE  disk'[v - 1].keys \subseteq disk'[v].keys
      BY DEF ProposalsAccumulate
    <3>1. CASE v # Len(disk) + 1
      <4>1. v \in 2..Len(disk) /\ v - 1 \in 1..Len(disk)
        BY <1>1, <2>4, <3>1
      <4> QED BY <2>4, <4>1 DEF ProposalsAccumulate
    <3>2. CASE v = Len(disk) + 1
      <4>1. v - 1 = Len(disk) /\ Len(disk) \in 1..Len(disk)
        BY <1>1, <3>2
      <4>2. disk[Len(disk)].by # "operator"
        BY <2>4, <4>1
      <4>3. base[c] = Len(disk)
        <5>1. Len(disk) \notin (base[c] + 1)..Len(disk)
          BY <2>1, <4>2 DEF EditsBuildOnProposals
        <5> QED BY <1>1, <2>2, <4>1, <5>1
      <4>4. Document(base[c]) = disk[Len(disk)]
        BY <4>1, <4>3 DEF Document
      <4> QED BY <2>3, <2>4, <3>2, <4>1, <4>4
    <3> QED BY <3>1, <3>2
  <2>8. AcceptedIsStored'
    BY <1>10, <2>1, <2>5 DEF AcceptedIsStored, Row
  <2> QED BY <1>1, <2>6, <2>7, <2>8
<1>14. CASE UNCHANGED allVars
  BY <1>1, <1>14
  DEF allVars, flowVars, vars, regVars, Subjects, EditorsHoldLock,
      EditsBuildOnProposals, ProposalsAccumulate, AcceptedIsStored, Row
<1>15. ASSUME NEW c \in Calls, Check(c) \/ Request(c) \/ Propose(c) PROVE FlowInv'
  <2>1. NoOne \notin Requesters
    BY FlowAssumption DEF FlowAssumption
  <2> QED BY <1>7, <1>15, <2>1 DEF Check, Request, Propose
<1> QED
  BY <1>5, <1>6, <1>8, <1>9, <1>11, <1>12, <1>13, <1>14, <1>15
  DEF FlowNext, CallStep, Proceed

\* One proposal edits at a time, on the proposer's last word.
THEOREM FlowInvariant == FlowSpec => []FlowInv
BY InitFlowInv, NextFlowInv, PTL DEF FlowSpec

\* Every variable of the flow, the registry's included, keeps its type.
THEOREM FlowTypeCorrect == FlowSpec => []FlowTypeOK
<1>1. FlowInv => FlowTypeOK
  BY DEF FlowInv
<1> QED BY <1>1, FlowInvariant, PTL

\* However many proposals run, none is lost to another: while one edits, only
\* an operator can have replaced the file it has read ...
THEOREM LockProtectsEdits == FlowSpec => []EditsBuildOnProposals
<1>1. FlowInv => EditsBuildOnProposals
  BY DEF FlowInv
<1> QED BY <1>1, FlowInvariant, PTL

\* ... and the packages of one write of the proposer are in its next one.
THEOREM NoProposalLost == FlowSpec => []ProposalsAccumulate
<1>1. FlowInv => ProposalsAccumulate
  BY DEF FlowInv
<1> QED BY <1>1, FlowInvariant, PTL

\* Whoever waits for the proposer has its row in the database.
THEOREM RequestsAreDurable == FlowSpec => []AcceptedIsStored
<1>1. FlowInv => AcceptedIsStored
  BY DEF FlowInv
<1> QED BY <1>1, FlowInvariant, PTL

-----------------------------------------------------------------------------
(* The registry inside the flow: what holds of RegistryReload among others *)
(* holds here.                                                             *)

\* A step of the flow is an open step of the registry.
LEMMA FlowStepIsOpen ==
    ASSUME FlowInv, [FlowNext]_allVars
    PROVE  [OpenNext]_vars
<1> USE DEF vars
<1>1. FlowTypeOK /\ TypeOK /\ Subjects
  BY DEF FlowInv, FlowTypeOK
<1>2. CASE RegistryStep \/ CrashAll
  BY <1>2, PublishIsOpen DEF RegistryStep, CrashAll, OpenNext
<1>3. ASSUME NEW c \in Calls, Store(c) PROVE OpenNext
  <2>1. about[c] \in Packages /\ asker[c] \in Requesters
    BY <1>1, <1>3 DEF Store, Subjects
  <2> QED BY <1>3, <2>1 DEF Store, StoreRow, OpenNext
<1>4. ASSUME NEW c \in Calls, WriteEdit(c) PROVE OpenNext
  <2>1. Merged(Document(base[c]), about[c]) \in Content
    BY <1>1, <1>4, DocumentType DEF FlowTypeOK, Subjects, WriteEdit
  <2> QED BY <1>4, <2>1 DEF WriteEdit, WriteFile, OpenNext
<1>5. ASSUME NEW c \in Calls, StoreFail(c) \/ EditFail(c) PROVE OpenNext
  BY <1>5 DEF StoreFail, EditFail, FaultElsewhere, OpenNext
<1>6. ASSUME NEW c \in Calls,
             \/ Check(c) \/ Request(c) \/ Propose(c) \/ AutoRequest(c) \/ Answer(c)
             \/ Lookup(c) \/ StoreConflict(c) \/ BeginEdit(c) \/ RefuseEdit(c)
      PROVE  UNCHANGED vars
  BY <1>6
  DEF Check, Request, Propose, Begin, AutoRequest, Answer, Lookup, StoreConflict,
      BeginEdit, RefuseEdit
<1>7. CASE UNCHANGED allVars
  BY <1>7 DEF allVars
<1> QED
  BY <1>2, <1>3, <1>4, <1>5, <1>6, <1>7 DEF FlowNext, CallStep, Proceed

\* What proposals write and requests store included, a row is APPROVED only if
\* a valid version of the file registered its package, and no evaluation sees a
\* registry that neither loader accepts.
THEOREM FlowApprovesRegistered ==
    FlowSpec => [](ApprovedWereRegistered /\ LiveLoadable)
<1>1. FlowInv /\ ReloadInv /\ [FlowNext]_allVars => ReloadInv'
  BY FlowStepIsOpen, NextReloadInv
<1>2. FlowInit => ReloadInv
  BY InitReloadInv DEF FlowInit
<1>3. ReloadInv => ApprovedWereRegistered /\ LiveLoadable
  BY DEF ReloadInv
<1> QED BY <1>1, <1>2, <1>3, FlowInvariant, PTL DEF FlowSpec

\* With any number of reloads beside the flow, memory is changed for valid
\* contents only, those that proposals have written included.
THEOREM FlowSwapsValidContents == FlowSpec => RacyServiceSpec
<1>1. FlowInv /\ ReloadInv /\ CallsNeedServer /\ [FlowNext]_allVars
        => ReloadInv' /\ CallsNeedServer' /\ [Service!RacyNext]_Service!serviceVars
  BY FlowStepIsOpen, NextReloadInv, NextCallsNeedServer, StepMapsToRacyService
  DEF ReloadInv
<1>2. FlowInit => ReloadInv /\ CallsNeedServer /\ Service!Init
  BY InitReloadInv, InitMapsToService DEF FlowInit
<1> QED
  BY <1>1, <1>2, FlowInvariant, PTL DEF FlowSpec, RacyServiceSpec, Service!RacySpec

\* The approval flow as a whole implements RegistryService while the poller is
\* the only one to reload: among proposals, requests and operators, the
\* registry in memory moves forward only, to valid contents of the file.
THEOREM FlowImplementsService ==
    ASSUME Reloaders = {} PROVE FlowSpec => ServiceSpec
<1>1. FlowInv /\ PollerInv /\ [FlowNext]_allVars
        => PollerInv' /\ [Service!Next]_Service!serviceVars
  BY FlowStepIsOpen, NextPollerInv, StepMapsToService
<1>2. FlowInit => PollerInv /\ Service!Init
  BY InitPollerInv, InitMapsToService DEF FlowInit
<1> QED
  BY <1>1, <1>2, FlowInvariant, PTL DEF FlowSpec, ServiceSpec, Service!Spec

=============================================================================
