------------------------- MODULE Deployment_proofs -------------------------
(***************************************************************************)
(* Where the comparison of versions as tuples of numbers (Policy) agrees   *)
(* with the order of PEP 440: everywhere but on the bound itself and where *)
(* an epoch or a v is written, for versions of any length.  And what a     *)
(* deployment does with its documents, for any names, documents,           *)
(* environments and machines.                                              *)
(***************************************************************************)
EXTENDS Deployment, WellFoundedInduction, TLAPS

-----------------------------------------------------------------------------
(* Policy.                                                                 *)

\* A set of numbers has a least one.
LEMMA LeastNat ==
  ASSUME NEW T \in SUBSET Nat, T # {}
  PROVE  \E x \in T : \A y \in T : x <= y
<1>1. \E x \in T : \A y \in T : ~(<<y, x>> \in OpToRel(<, Nat))
  BY NatLessThanWellFounded, WFMin
<1>2. ASSUME NEW x \in T, NEW y \in T, ~(<<y, x>> \in OpToRel(<, Nat))
      PROVE  x <= y
  <2>1. <<y, x>> \in Nat \X Nat  OBVIOUS
  <2>2. ~(y < x)  BY <1>2, <2>1 DEF OpToRel
  <2>. QED  BY <2>2
<1>. QED  BY <1>1, <1>2

\* Stated apart: with sequences in sight the solver loses it.
LEMMA SumCommutes ==
  ASSUME NEW m \in Nat, NEW n \in Nat
  PROVE  m + n = n + m
  OBVIOUS

\* Padding with zeros keeps the components numbers.
LEMMA ComponentType ==
  ASSUME NEW s \in Seq(Nat), NEW i \in Nat \ {0}
  PROVE  Component(s, i) \in Nat
BY DEF Component

\* Sequences that do not pad to the same one first differ somewhere.
LEMMA FirstDifference ==
  ASSUME NEW s \in Seq(Nat), NEW t \in Seq(Nat), ~Padded(s, t)
  PROVE  \E k \in 1..(Len(s) + Len(t)) : FirstLess(s, t, k) \/ FirstLess(t, s, k)
<1> DEFINE D == {i \in 1..(Len(s) + Len(t)) : Component(s, i) # Component(t, i)}
<1>1. D \in SUBSET Nat /\ D # {}  BY DEF Padded
<1>2. PICK k \in D : \A y \in D : k <= y  BY <1>1, LeastNat
<1>3. k \in Nat \ {0} /\ Component(s, k) # Component(t, k)  OBVIOUS
<1>4. ASSUME NEW j \in 1..(k - 1) PROVE Component(s, j) = Component(t, j)
  <2>1. j \in 1..(Len(s) + Len(t)) /\ j < k  OBVIOUS
  <2>. QED  BY <1>2, <2>1
<1>5. Component(s, k) \in Nat /\ Component(t, k) \in Nat  BY <1>3, ComponentType
<1>6. Component(s, k) < Component(t, k) \/ Component(t, k) < Component(s, k)
  BY <1>3, <1>5
<1>. QED  BY <1>3, <1>4, <1>6 DEF FirstLess

\* Where the padded sequences first differ, the tuples compare the same way.
LEMMA TupleFollowsLess ==
  ASSUME NEW s \in Seq(Nat), NEW t \in Seq(Nat), NEW k \in Nat \ {0}, FirstLess(s, t, k)
  PROVE  TupleLess(s, t) /\ ~TupleLess(t, s)
<1>0. k \in Nat \ {0} /\ Len(s) \in Nat /\ Len(t) \in Nat  OBVIOUS
<1>1. k <= Len(t)
  <2>1. Component(s, k) \in Nat  BY <1>0, ComponentType
  <2>. QED  BY <1>0, <2>1 DEF FirstLess, Component
<1>2. TupleLess(s, t)
  <2>1. CASE k <= Len(s)
    <3>1. s[k] < t[k]  BY <1>0, <1>1, <2>1 DEF FirstLess, Component
    <3>2. ASSUME NEW j \in 1..(k - 1) PROVE j <= Len(s) /\ s[j] = t[j]
      BY <1>0, <1>1, <2>1 DEF FirstLess, Component
    <3>3. k \in 1..Len(t)  BY <1>0, <1>1
    <3>. QED  BY <3>1, <3>2, <3>3, Zenon DEF TupleLess
  <2>2. CASE Len(s) < k
    <3>1. Len(s) + 1 \in 1..Len(t)  BY <1>0, <1>1, <2>2
    <3>2. ASSUME NEW j \in 1..Len(s) PROVE j <= Len(s) /\ s[j] = t[j]
      BY <1>0, <1>1, <2>2 DEF FirstLess, Component
    <3>3. \A j \in 1..((Len(s) + 1) - 1) : j <= Len(s) /\ s[j] = t[j]  BY <1>0, <3>2
    <3>4. Len(s) + 1 > Len(s)  BY <1>0
    <3>. QED  BY <3>1, <3>3, <3>4, Zenon DEF TupleLess
  <2>. QED  BY <1>0, <2>1, <2>2
<1>3. ~TupleLess(t, s)
  <2> SUFFICES ASSUME NEW i \in 1..Len(s),
                      \A j \in 1..(i - 1) : j <= Len(t) /\ t[j] = s[j],
                      i > Len(t) \/ t[i] < s[i]
               PROVE  FALSE
    BY DEF TupleLess
  <2>1. CASE i < k
    <3>1. Component(s, i) = Component(t, i)  BY <1>0, <2>1 DEF FirstLess
    <3>2. i <= Len(t)  BY <1>0, <1>1, <2>1
    <3>. QED  BY <1>0, <3>1, <3>2 DEF Component
  <2>2. CASE i = k
    BY <1>0, <1>1, <2>2 DEF FirstLess, Component
  <2>3. CASE k < i
    <3>1. t[k] = s[k]  BY <1>0, <2>3
    <3>. QED  BY <1>0, <1>1, <2>3, <3>1 DEF FirstLess, Component
  <2>. QED  BY <1>0, <2>1, <2>2, <2>3
<1>. QED  BY <1>2, <1>3

\* Without an epoch or a v, the leading digits are the release numbers.
LEMMA NumbersOfVersion ==
  ASSUME NEW v \in Version, ~Misread(v)
  PROVE  Numbers(v) = v.release
<1>1. v.release \in Seq(Nat) /\ ~v.vee /\ v.epoch = 0  BY DEF Version, Misread
<1>2. Numbers(v) = [i \in 1..Len(v.release) |-> v.release[i]]  BY <1>1 DEF Numbers
<1>. QED  BY <1>1, <1>2

LEMMA TupleOfVersion ==
  ASSUME NEW v \in Version, ~Misread(v)
  PROVE  /\ v.release \in Seq(Nat) /\ VersionTuple(v) \in Seq(Nat)
         /\ \A i \in Nat \ {0} : Component(VersionTuple(v), i) = Component(v.release, i)
<1>0. Numbers(v) = v.release  BY NumbersOfVersion
<1>1. v.release \in Seq(Nat)  BY DEF Version
<1>2. VersionTuple(v) \in Seq(Nat)  BY <1>0, <1>1 DEF VersionTuple
<1>3. ASSUME NEW i \in Nat \ {0}
      PROVE  Component(VersionTuple(v), i) = Component(v.release, i)
  BY <1>0, <1>1 DEF VersionTuple, Component
<1>. QED  BY <1>1, <1>2, <1>3

\* Versions of one release, spelled alike and final, are the same version.
LEMMA SameFinals ==
  ASSUME NEW v \in Version, NEW b \in Version, ~Misread(v), ~Misread(b),
         SameRelease(v, b), Len(v.release) = Len(b.release),
         v.phase = "final", b.phase = "final"
  PROVE  ~TupleLess(VersionTuple(v), VersionTuple(b)) /\ ~PepLess(v, b)
<1>1. v.release \in Seq(Nat) /\ b.release \in Seq(Nat)  BY DEF Version
<1>2. VersionTuple(v) = v.release /\ VersionTuple(b) = b.release
  BY NumbersOfVersion DEF VersionTuple
<1>3. Len(v.release) \in Nat /\ Len(b.release) \in Nat  BY <1>1
<1>4. ASSUME NEW i \in 1..Len(b.release)
      PROVE  ~(i > Len(v.release)) /\ v.release[i] = b.release[i]
  <2>1. i \in 1..(Len(v.release) + Len(b.release))  BY <1>3
  <2>2. Component(v.release, i) = Component(b.release, i)  BY <2>1 DEF SameRelease, Padded
  <2>. QED  BY <1>3, <2>2 DEF Component
<1>5. \A i \in 1..Len(b.release) : v.release[i] \in Nat /\ b.release[i] \in Nat
  BY <1>1, <1>3
<1>6. ~TupleLess(v.release, b.release)  BY <1>4, <1>5 DEF TupleLess
<1>7. ~ReleaseLess(v, b)
  <2>1. \A i \in 1..(Len(v.release) + Len(b.release)) :
          /\ Component(v.release, i) = Component(b.release, i)
          /\ Component(v.release, i) \in Nat
    BY <1>1, <1>3, ComponentType DEF SameRelease, Padded
  <2>2. v.epoch = b.epoch /\ v.epoch \in Nat  BY DEF SameRelease, Version
  <2>. QED  BY <2>1, <2>2 DEF ReleaseLess, FirstLess
<1>8. ~(Rank(v.phase) < Rank(b.phase))  BY DEF Rank
<1>. QED  BY <1>2, <1>6, <1>7, <1>8 DEF PepLess

\* Where the padded releases first differ, PEP 440 orders the versions.
LEMMA PepFollowsLess ==
  ASSUME NEW v \in Version, NEW b \in Version, v.epoch = b.epoch,
         NEW k \in 1..(Len(v.release) + Len(b.release)),
         FirstLess(v.release, b.release, k)
  PROVE  ReleaseLess(v, b) /\ ~ReleaseLess(b, v)
<1>1. v.release \in Seq(Nat) /\ b.release \in Seq(Nat)  BY DEF Version
<1>2. Len(v.release) \in Nat /\ Len(b.release) \in Nat  BY <1>1
<1>3. ReleaseLess(v, b)
  BY Zenon DEF ReleaseLess
<1>0. ~(b.epoch < v.epoch)
  <2>1. v.epoch \in Nat  BY DEF Version
  <2>. QED  BY <2>1
<1>4. ~ReleaseLess(b, v)
  <2> SUFFICES ASSUME NEW i \in 1..(Len(b.release) + Len(v.release)),
                      FirstLess(b.release, v.release, i)
               PROVE  FALSE
    BY <1>0, Zenon DEF ReleaseLess
  <2>0. i \in Nat \ {0} /\ k \in Nat \ {0}  BY <1>2
  <2>1. /\ Component(v.release, i) \in Nat /\ Component(b.release, i) \in Nat
        /\ Component(v.release, k) \in Nat /\ Component(b.release, k) \in Nat
    BY <1>1, <2>0, ComponentType
  <2>2. CASE i < k
    <3>1. i \in 1..(k - 1)  BY <2>0, <2>2
    <3>2. Component(v.release, i) = Component(b.release, i)
      BY <3>1, Zenon DEF FirstLess
    <3>. QED  BY <2>1, <3>2 DEF FirstLess
  <2>3. CASE i = k  BY <2>1, <2>3 DEF FirstLess
  <2>4. CASE k < i
    <3>1. Component(v.release, k) = Component(b.release, k)  BY <2>0, <2>4 DEF FirstLess
    <3>. QED  BY <2>1, <3>1 DEF FirstLess
  <2>. QED  BY <2>0, <2>2, <2>3, <2>4
<1>. QED  BY <1>3, <1>4

\* _version_satisfies and PEP 440 see a version on the same side of a bound,
\* unless it is the bound in another spelling, or one of the two has an epoch
\* or a v in front.
THEOREM TuplesFollowPep440 ==
  ASSUME NEW v \in Version, NEW b \in Version, ~Misread(v), ~Misread(b),
         IsGiven(b), ~OnTheBoundary(v, b)
  PROVE  /\ TupleLess(VersionTuple(v), VersionTuple(b)) <=> PepLess(v, b)
         /\ PepBelow(v, b) <=> PepLess(v, b)
<1>1. CASE SameRelease(v, b)
  <2>1. /\ Len(v.release) = Len(b.release)
        /\ v.phase = "final" /\ b.phase = "final"
    BY <1>1 DEF OnTheBoundary
  <2>2. ~TupleLess(VersionTuple(v), VersionTuple(b)) /\ ~PepLess(v, b)
    BY <1>1, <2>1, SameFinals
  <2>. QED  BY <2>2 DEF PepBelow
<1>2. CASE ~SameRelease(v, b)
  <2> DEFINE s == VersionTuple(v)
             t == VersionTuple(b)
  <2>1. /\ v.release \in Seq(Nat) /\ s \in Seq(Nat)
        /\ \A i \in Nat \ {0} : Component(s, i) = Component(v.release, i)
    BY TupleOfVersion
  <2>2. /\ b.release \in Seq(Nat) /\ t \in Seq(Nat)
        /\ \A i \in Nat \ {0} : Component(t, i) = Component(b.release, i)
    BY TupleOfVersion
  <2> HIDE DEF s, t
  <2>0. v.epoch = b.epoch  BY DEF Misread
  <2>3. ~Padded(v.release, b.release)  BY <1>2, <2>0 DEF SameRelease
  <2>4. PICK k \in 1..(Len(v.release) + Len(b.release)) :
          FirstLess(v.release, b.release, k) \/ FirstLess(b.release, v.release, k)
    BY <2>1, <2>2, <2>3, FirstDifference
  <2>8. k \in Nat \ {0}  BY <2>1, <2>2
  <2>5. ASSUME FirstLess(v.release, b.release, k)
        PROVE  TupleLess(s, t) /\ PepLess(v, b)
    <3>1. FirstLess(s, t, k)  BY <2>1, <2>2, <2>5 DEF FirstLess
    <3>2. TupleLess(s, t)  BY <2>1, <2>2, <2>8, <3>1, TupleFollowsLess
    <3>. QED  BY <2>0, <2>5, <3>2, PepFollowsLess DEF PepLess
  <2>6. ASSUME FirstLess(b.release, v.release, k)
        PROVE  ~TupleLess(s, t) /\ ~PepLess(v, b)
    <3>1. FirstLess(t, s, k)  BY <2>1, <2>2, <2>6 DEF FirstLess
    <3>2. ~TupleLess(s, t)  BY <2>1, <2>2, <2>8, <3>1, TupleFollowsLess
    <3>3. k \in 1..(Len(b.release) + Len(v.release))
      <4>1. Len(v.release) \in Nat /\ Len(b.release) \in Nat  BY <2>1, <2>2
      <4>. QED  BY <4>1, SumCommutes, Zenon
    <3>4. ~ReleaseLess(v, b)  BY <2>0, <2>6, <3>3, PepFollowsLess
    <3>. QED  BY <1>2, <3>2, <3>4 DEF PepLess
  <2>7. PepBelow(v, b) <=> PepLess(v, b)  BY <1>2 DEF PepBelow
  <2>. QED  BY <2>4, <2>5, <2>6, <2>7 DEF s, t
<1>. QED  BY <1>1, <1>2

\* So a rule lets exactly the versions pass that PEP 440 lets pass, but on its
\* bounds and where an epoch or a v is written.
THEOREM SatisfiesIsPep440 ==
  ASSUME NEW v \in Version, NEW r \in Rule,
         ~OnTheBoundary(v, r.min), ~OnTheBoundary(v, r.max),
         ~Misread(v), ~Misread(r.min), ~Misread(r.max)
  PROVE  VersionSatisfies(v, r) <=> PepSatisfies(v, r)
<1>1. r.min \in Version /\ r.max \in Version  BY DEF Rule
<1>2. IsGiven(r.min) => (TupleLess(VersionTuple(v), VersionTuple(r.min)) <=> PepLess(v, r.min))
  BY <1>1, TuplesFollowPep440, Zenon
<1>3. IsGiven(r.max) => (TupleLess(VersionTuple(v), VersionTuple(r.max)) <=> PepBelow(v, r.max))
  BY <1>1, TuplesFollowPep440
<1>. QED  BY <1>2, <1>3 DEF VersionSatisfies, PepSatisfies

-----------------------------------------------------------------------------
(* The operators on documents.                                             *)

\* A bounded set of numbers has a greatest one.
LEMMA GreatestNat ==
  ASSUME NEW m \in Nat, NEW T \in SUBSET (1..m), T # {}
  PROVE  \E x \in T : \A y \in T : y <= x
<1> DEFINE D == {z \in Nat : \E x \in T : z = m - x}
<1>1. D \in SUBSET Nat /\ D # {}
  <2>1. PICK x \in T : TRUE  OBVIOUS
  <2>2. m - x \in D  BY <2>1
  <2>. QED  BY <2>2
<1>2. PICK d \in D : \A e \in D : d <= e  BY <1>1, LeastNat
<1>3. PICK x \in T : d = m - x  BY <1>2
<1>4. ASSUME NEW y \in T PROVE y <= x
  <2>1. m - y \in D  OBVIOUS
  <2>2. m - x <= m - y  BY <1>2, <1>3, <2>1
  <2>3. m \in Nat /\ x \in Nat /\ y \in Nat  OBVIOUS
  <2>. QED  BY <2>2, <2>3
<1>. QED  BY <1>4

\* A rule is in force for a name if its document has an entry for it.
LEMMA RulesType ==
  ASSUME NEW entries \in Seq(Entry)
  PROVE  Rules(entries) \in [Names -> Rule \cup {NoRule}]
<1> SUFFICES ASSUME NEW n \in Names
             PROVE  Rules(entries)[n] \in Rule \cup {NoRule}
  BY DEF Rules
<1> DEFINE of == {i \in 1..Len(entries) : NormalName[entries[i].key] = n}
           last == CHOOSE i \in of : \A j \in of : j <= i
<1>1. Rules(entries)[n] = IF of = {} THEN NoRule ELSE entries[last].rule
  BY Zenon DEF Rules
<1>2. CASE of = {}  BY <1>1, <1>2
<1>3. CASE of # {}
  <2>1. last \in of
    <3>1. of \subseteq 1..Len(entries) /\ Len(entries) \in Nat  OBVIOUS
    <3>2. \E i \in of : \A j \in of : j <= i
      BY <1>3, <3>1, GreatestNat
    <3>. QED  BY <3>2, Zenon
  <2>2. entries[last] \in Entry  BY <2>1
  <2>. QED  BY <1>1, <1>3, <2>2 DEF Entry
<1>. QED  BY <1>2, <1>3

\* The rule of the only entry for a name is the rule of the name.
LEMMA OnlyEntryRules ==
  ASSUME NEW entries \in Seq(Entry), NEW n \in Names, NEW k \in 1..Len(entries),
         NormalName[entries[k].key] = n,
         \A i \in 1..Len(entries) :
           NormalName[entries[i].key] = n => entries[i].rule = entries[k].rule
  PROVE  Rules(entries)[n] = entries[k].rule
<1> DEFINE of == {i \in 1..Len(entries) : NormalName[entries[i].key] = n}
           last == CHOOSE i \in of : \A j \in of : j <= i
<1>1. Rules(entries)[n] = IF of = {} THEN NoRule ELSE entries[last].rule
  BY Zenon DEF Rules
<1>2. of # {}  OBVIOUS
<1>3. last \in of
  <2>1. of \subseteq 1..Len(entries) /\ Len(entries) \in Nat  OBVIOUS
  <2>2. \E i \in of : \A j \in of : j <= i  BY <1>2, <2>1, GreatestNat
  <2>. QED  BY <2>2, Zenon
<1>. QED  BY <1>1, <1>2, <1>3

\* The compiled registry has the entries of its source, each key once, and
\* gives a name the same rule unless the source spells it twice.
LEMMA CompileFacts ==
  ASSUME NEW entries \in Seq(Entry), NEW c \in Compile(entries)
  PROVE  /\ c \in Seq(Entry) /\ DistinctKeys(c)
         /\ \A n \in Names :
              ~SpelledTwice(entries, n) => Rules(c)[n] = Rules(entries)[n]
<1> DEFINE m == Len(entries)
<1>1. /\ c \in [1..m -> {entries[i] : i \in 1..m}]
      /\ \A i, j \in 1..m : i < j => KeyOrder[c[i].key] < KeyOrder[c[j].key]
      /\ \A i \in 1..m : \E j \in 1..m : c[j] = entries[i]
  BY DEF Compile, Sortings
<1>2. m \in Nat /\ {entries[i] : i \in 1..m} \subseteq Entry  OBVIOUS
<1>3. c \in Seq(Entry) /\ Len(c) = m
  <2>1. c \in [1..m -> Entry]  BY <1>1, <1>2
  <2>. QED  BY <1>2, <2>1
<1>4. DistinctKeys(c)
  <2> SUFFICES ASSUME NEW i \in 1..m, NEW j \in 1..m, c[i].key = c[j].key, i # j
               PROVE  FALSE
    BY <1>3, Zenon DEF DistinctKeys
  <2>1. c[i] \in Entry  BY <1>1, <1>2
  <2>2. KeyOrder[c[i].key] \in Nat
    BY <2>1, NamesAssumption DEF NamesAssumption, Entry
  <2>3. i < j \/ j < i  BY <1>2
  <2>4. KeyOrder[c[i].key] < KeyOrder[c[i].key]
    <3>1. i < j => KeyOrder[c[i].key] < KeyOrder[c[j].key]  BY <1>1
    <3>2. j < i => KeyOrder[c[j].key] < KeyOrder[c[i].key]  BY <1>1
    <3>. QED  BY <2>3, <3>1, <3>2
  <2>. QED  BY <2>2, <2>4
<1>5. ASSUME NEW n \in Names, ~SpelledTwice(entries, n)
      PROVE  Rules(c)[n] = Rules(entries)[n]
  <2>1. CASE \E k \in 1..m : NormalName[entries[k].key] = n
    <3>1. PICK k \in 1..m : NormalName[entries[k].key] = n  BY <2>1
    <3>2. \A i \in 1..m : NormalName[entries[i].key] = n => i = k
      BY <1>5, <3>1 DEF SpelledTwice
    <3>3. Rules(entries)[n] = entries[k].rule  BY <3>1, <3>2, OnlyEntryRules
    <3>4. PICK l \in 1..m : c[l] = entries[k]  BY <1>1
    <3>5. \A i \in 1..m : NormalName[c[i].key] = n => c[i].rule = c[l].rule
      <4> SUFFICES ASSUME NEW i \in 1..m, NormalName[c[i].key] = n
                   PROVE  c[i].rule = c[l].rule
        OBVIOUS
      <4>1. PICK j \in 1..m : c[i] = entries[j]  BY <1>1
      <4>. QED  BY <3>2, <3>4, <4>1
    <3>6. Rules(c)[n] = c[l].rule
      <4>1. l \in 1..Len(c) /\ NormalName[c[l].key] = n  BY <1>3, <3>1, <3>4
      <4>. QED  BY <1>3, <3>5, <4>1, OnlyEntryRules
    <3>. QED  BY <3>3, <3>4, <3>6
  <2>2. CASE ~\E k \in 1..m : NormalName[entries[k].key] = n
    <3>1. {i \in 1..Len(entries) : NormalName[entries[i].key] = n} = {}  BY <2>2
    <3>2. {i \in 1..Len(c) : NormalName[c[i].key] = n} = {}
      <4> SUFFICES ASSUME NEW i \in 1..m, NormalName[c[i].key] = n PROVE FALSE
        BY <1>3
      <4>1. PICK j \in 1..m : c[i] = entries[j]  BY <1>1
      <4>. QED  BY <2>2, <4>1
    <3>. QED  BY <3>1, <3>2 DEF Rules
  <2>. QED  BY <2>1, <2>2
<1>. QED  BY <1>3, <1>4, <1>5

\* The document has an entry that gives n the rule r.
Carries(entries, n, r) ==
    \E i \in 1..Len(entries) : entries[i] = [key |-> n, rule |-> r]

\* A proposal puts its rule in and keeps the rules of other names.
LEMMA MergeFacts ==
  ASSUME NEW entries \in Seq(Entry), NEW n \in Names, NEW r \in Rule,
         DistinctKeys(entries)
  PROVE  /\ Merge(entries, n, r) \in Seq(Entry)
         /\ DistinctKeys(Merge(entries, n, r))
         /\ Carries(Merge(entries, n, r), n, r)
         /\ \A o \in Names \ {n} : \A q :
              Carries(entries, o, q) => Carries(Merge(entries, n, r), o, q)
<1> DEFINE e == [key |-> n, rule |-> r]
           new == Merge(entries, n, r)
<1>1. e \in Entry  BY NamesAssumption DEF NamesAssumption, Entry
<1>2. CASE HasKey(entries, n)
  <2>1. new = [i \in 1..Len(entries) |-> IF entries[i].key = n THEN e ELSE entries[i]]
    BY <1>2 DEF Merge
  <2>2. new \in [1..Len(entries) -> Entry]  BY <1>1, <2>1
  <2>3. new \in Seq(Entry) /\ Len(new) = Len(entries)  BY <2>1, <2>2
  <2>4. \A i \in 1..Len(entries) : new[i].key = entries[i].key  BY <2>1
  <2>5. DistinctKeys(new)  BY <2>3, <2>4 DEF DistinctKeys
  <2>6. Carries(new, n, r)
    <3>1. PICK i \in 1..Len(entries) : entries[i].key = n  BY <1>2 DEF HasKey
    <3>. QED  BY <2>1, <2>3, <3>1 DEF Carries
  <2>7. ASSUME NEW o \in Names \ {n}, NEW q, Carries(entries, o, q)
        PROVE  Carries(new, o, q)
    <3>1. PICK i \in 1..Len(entries) : entries[i] = [key |-> o, rule |-> q]
      BY <2>7 DEF Carries
    <3>2. new[i] = entries[i]  BY <2>1, <3>1
    <3>. QED  BY <2>3, <3>1, <3>2 DEF Carries
  <2>. QED  BY <2>3, <2>5, <2>6, <2>7
<1>3. CASE ~HasKey(entries, n)
  <2>1. new = Append(entries, e)  BY <1>3 DEF Merge
  <2>2. /\ new \in Seq(Entry) /\ Len(new) = Len(entries) + 1
        /\ new[Len(entries) + 1] = e
        /\ \A i \in 1..Len(entries) : new[i] = entries[i]
    BY <1>1, <2>1
  <2>3. DistinctKeys(new)
    <3> SUFFICES ASSUME NEW i \in 1..(Len(entries) + 1), NEW j \in 1..(Len(entries) + 1),
                        new[i].key = new[j].key
                 PROVE  i = j
      BY <2>2 DEF DistinctKeys
    <3>1. CASE i \in 1..Len(entries) /\ j \in 1..Len(entries)
      BY <2>2, <3>1 DEF DistinctKeys
    <3>2. CASE i = Len(entries) + 1 /\ j \in 1..Len(entries)
      BY <1>3, <2>2, <3>2 DEF HasKey
    <3>3. CASE j = Len(entries) + 1 /\ i \in 1..Len(entries)
      BY <1>3, <2>2, <3>3 DEF HasKey
    <3>. QED  BY <3>1, <3>2, <3>3
  <2>4. Carries(new, n, r)  BY <2>2 DEF Carries
  <2>5. ASSUME NEW o \in Names \ {n}, NEW q, Carries(entries, o, q)
        PROVE  Carries(new, o, q)
    <3>1. PICK i \in 1..Len(entries) : entries[i] = [key |-> o, rule |-> q]
      BY <2>5 DEF Carries
    <3>2. new[i] = entries[i] /\ i \in 1..Len(new)  BY <2>2
    <3>. QED  BY <3>1, <3>2, Zenon DEF Carries
  <2>. QED  BY <2>2, <2>3, <2>4, <2>5
<1>. QED  BY <1>2, <1>3

-----------------------------------------------------------------------------
(* Type correctness.                                                       *)

\* What init and quickstart leave in registry.yml is a document.
LEMMA MaterializedType ==
  ASSUME DeploymentTypeOK, NEW force \in BOOLEAN
  PROVE  Materialized(force) \in Document /\ DistinctKeys(Materialized(force).entries)
<1>1. CASE Exists("yml") /\ ~force
  <2>1. Materialized(force) = file.yml  BY <1>1 DEF Materialized
  <2>. QED  BY <1>1, <2>1 DEF DeploymentTypeOK, Exists
<1>2. CASE ~(Exists("yml") /\ ~force)
  <2>1. Materialized(force) = Yaml(Example)  BY <1>2 DEF Materialized
  <2>. QED  BY <2>1, DeploymentAssumption DEF DeploymentAssumption, Yaml, Document
<1>. QED  BY <1>1, <1>2

\* Two documents are the files.
LEMMA TwoDocuments ==
  ASSUME NEW y \in Document, NEW j \in Document,
         DistinctKeys(y.entries), DistinctKeys(j.entries),
         file' = [yml |-> y, json |-> j]
  PROVE  /\ file' \in [Paths -> {Absent} \cup Document]
         /\ \A p \in Paths : (Exists(p))' => DistinctKeys(file'[p].entries)
BY DEF Paths

\* So do the files after a compilation.
LEMMA CompileIntoType ==
  ASSUME NEW yml \in Document, DistinctKeys(yml.entries), CompileInto(yml)
  PROVE  /\ file' \in [Paths -> {Absent} \cup Document]
         /\ \A p \in Paths : (Exists(p))' => DistinctKeys(file'[p].entries)
<1>1. PICK c \in Compile(yml.entries) : file' = [yml |-> yml, json |-> Json(c)]
  BY DEF CompileInto
<1>2. yml.entries \in Seq(Entry)  BY DEF Document
<1>3. c \in Seq(Entry) /\ DistinctKeys(c)  BY <1>2, CompileFacts
<1>4. Json(c) \in Document /\ DistinctKeys(Json(c).entries)  BY <1>3 DEF Json, Document
<1>. QED  BY <1>1, <1>4, TwoDocuments

\* A server that starts has a back end it knows and well-formed rules.
LEMMA StartType ==
  ASSUME DeploymentTypeOK, NEW s \in Settings, NEW at, NEW m \in BOOLEAN,
         StartServer(s, at, m)
  PROVE  /\ server' = "up" /\ settings' \in Settings /\ mounted' \in BOOLEAN
         /\ backend' \in Backends
         /\ live' # Absent => live' \in [Names -> Rule \cup {NoRule}]
<1>1. backend' \in Backends  BY DEF StartServer, Boots, ProposerLoads
<1>2. ASSUME Exists(s.path)
      PROVE  RulesOf(file[s.path]) \in [Names -> Rule \cup {NoRule}]
  <2>1. file[s.path] \in Document  BY <1>2 DEF Exists, DeploymentTypeOK
  <2>2. file[s.path].entries \in Seq(Entry)  BY <2>1 DEF Document
  <2>. QED  BY <2>2, RulesType DEF RulesOf
<1>. QED  BY <1>1, <1>2 DEF StartServer

\* A proposal starts from a document, and leaves one.
LEMMA ProposeReads ==
  ASSUME DeploymentTypeOK
  PROVE  LET p == settings.path
             old == IF Exists(p) THEN file[p] ELSE Yaml(<<>>)
         IN  old.entries \in Seq(Entry) /\ DistinctKeys(old.entries)
<1> DEFINE p == settings.path
           old == IF Exists(p) THEN file[p] ELSE Yaml(<<>>)
<1>1. CASE Exists(p)  BY <1>1 DEF DeploymentTypeOK, Exists, Document
<1>2. CASE ~Exists(p)
  <2>1. old.entries = <<>>  BY <1>2 DEF Yaml
  <2>2. <<>> \in Seq(Entry) /\ DistinctKeys(<<>>)  BY DEF DistinctKeys
  <2> HIDE DEF old
  <2>3. old.entries \in Seq(Entry) /\ DistinctKeys(old.entries)  BY <2>1, <2>2
  <2>. QED  BY <2>3 DEF old
<1>. QED  BY <1>1, <1>2

LEMMA ProposeWrites ==
  ASSUME DeploymentTypeOK, Propose
  PROVE  \E d \in Document :
           DistinctKeys(d.entries) /\ file' = [file EXCEPT ![settings.path] = d]
<1> DEFINE p == settings.path
           old == IF Exists(p) THEN file[p] ELSE Yaml(<<>>)
<1>1. PICK n \in Names, r \in Proposals :
        file' = [file EXCEPT ![p] = Yaml(Merge(old.entries, n, r))]
  BY DEF Propose
<1>2. old.entries \in Seq(Entry) /\ DistinctKeys(old.entries)  BY ProposeReads
<1>3. r \in Rule  BY DeploymentAssumption DEF DeploymentAssumption
<1> HIDE DEF p, old
<1> DEFINE new == Merge(old.entries, n, r)
<1>4. new \in Seq(Entry) /\ DistinctKeys(new)  BY <1>2, <1>3, MergeFacts
<1>5. file' = [file EXCEPT ![p] = Yaml(new)]  BY <1>1
<1> HIDE DEF new
<1>6. Yaml(new) \in Document /\ DistinctKeys(Yaml(new).entries)
  BY <1>4 DEF Yaml, Document
<1>. QED  BY <1>5, <1>6 DEF p

\* Types hold at the start.
LEMMA InitTypes == Init => DeploymentTypeOK
<1> SUFFICES ASSUME Init PROVE DeploymentTypeOK
  OBVIOUS
<1>1. settings \in Settings
  BY DeploymentAssumption DEF DeploymentAssumption, Init
<1>2. /\ file \in [Paths -> {Absent} \cup Document]
      /\ \A p \in Paths : Exists(p) => DistinctKeys(file[p].entries)
  BY DeploymentAssumption DEF DeploymentAssumption, Init, Paths, Exists
<1>. QED  BY <1>1, <1>2 DEF Init, DeploymentTypeOK, Backends

\* And every step keeps them.
LEMMA NextTypes == DeploymentTypeOK /\ [Next]_vars => DeploymentTypeOK'
<1> SUFFICES ASSUME DeploymentTypeOK, [Next]_vars PROVE DeploymentTypeOK'
  OBVIOUS
<1> USE DEF DeploymentTypeOK
<1>1. CASE EditRegistry
  <2>1. PICK d \in Edits : file' = [file EXCEPT !.yml = d]  BY <1>1 DEF EditRegistry
  <2>2. d \in Document /\ DistinctKeys(d.entries)
    BY DeploymentAssumption DEF DeploymentAssumption
  <2>3. /\ file' \in [Paths -> {Absent} \cup Document]
        /\ \A p \in Paths : (Exists(p))' => DistinctKeys(file'[p].entries)
    BY <2>1, <2>2 DEF Paths, Exists
  <2>. QED  BY <1>1, <2>3 DEF EditRegistry, serverVars
<1>2. CASE RegistryCompile
  <2>1. file.yml \in Document /\ DistinctKeys(file.yml.entries)
    BY <1>2 DEF RegistryCompile, Exists
  <2>2. /\ file' \in [Paths -> {Absent} \cup Document]
        /\ \A p \in Paths : (Exists(p))' => DistinctKeys(file'[p].entries)
    BY <1>2, <2>1, CompileIntoType DEF RegistryCompile
  <2>. QED  BY <1>2, <2>2 DEF RegistryCompile, CompileInto, serverVars
<1>3. ASSUME NEW force \in BOOLEAN, InitBundle(force) PROVE DeploymentTypeOK'
  <2> DEFINE yml == Materialized(force)
  <2>1. yml \in Document /\ DistinctKeys(yml.entries)  BY MaterializedType
  <2> HIDE DEF yml
  <2>2. CASE Validates(yml) /\ CompileInto(yml)
    <3>1. /\ file' \in [Paths -> {Absent} \cup Document]
          /\ \A p \in Paths : (Exists(p))' => DistinctKeys(file'[p].entries)
      BY <2>1, <2>2, CompileIntoType
    <3>. QED  BY <1>3, <2>2, <3>1 DEF InitBundle, CompileInto, serverVars
  <2>3. CASE /\ file' = [file EXCEPT !.yml = yml]
             /\ compiled' = (compiled /\ yml = file.yml)
    <3>1. /\ file' \in [Paths -> {Absent} \cup Document]
          /\ \A p \in Paths : (Exists(p))' => DistinctKeys(file'[p].entries)
      BY <2>1, <2>3 DEF Paths, Exists
    <3>2. compiled' \in BOOLEAN  BY <2>3
    <3>. QED  BY <1>3, <3>1, <3>2 DEF InitBundle, serverVars
  <2>. QED  BY <1>3, <2>2, <2>3 DEF InitBundle, yml
<1>4. CASE Serve
  <2>1. PICK s \in Settings : StartServer(s, site, FALSE)  BY <1>4 DEF Serve
  <2>2. /\ server' = "up" /\ settings' \in Settings /\ mounted' \in BOOLEAN
        /\ backend' \in Backends
        /\ live' # Absent => live' \in [Names -> Rule \cup {NoRule}]
    BY <2>1, StartType
  <2>. QED  BY <1>4, <2>2 DEF Serve, Exists
<1>5. CASE ComposeUp
  <2>1. PICK s \in Settings : StartServer(s, Container, TRUE)  BY <1>5 DEF ComposeUp
  <2>2. /\ server' = "up" /\ settings' \in Settings /\ mounted' \in BOOLEAN
        /\ backend' \in Backends
        /\ live' # Absent => live' \in [Names -> Rule \cup {NoRule}]
    BY <2>1, StartType
  <2>. QED  BY <1>5, <2>2 DEF ComposeUp, Exists
<1>6. ASSUME NEW force \in BOOLEAN, Quickstart(force) PROVE DeploymentTypeOK'
  <2> DEFINE yml == Materialized(force)
  <2>1. yml \in Document /\ DistinctKeys(yml.entries)  BY MaterializedType
  <2>2. CompileInto(yml)  BY <1>6 DEF Quickstart
  <2> HIDE DEF yml
  <2>3. /\ file' \in [Paths -> {Absent} \cup Document]
        /\ \A p \in Paths : (Exists(p))' => DistinctKeys(file'[p].entries)
    BY <2>1, <2>2, CompileIntoType
  <2>. QED  BY <1>6, <2>2, <2>3 DEF Quickstart, CompileInto, serverVars
<1>7. CASE Propose
  <2> DEFINE p == settings.path
  <2>1. PICK d \in Document : DistinctKeys(d.entries) /\ file' = [file EXCEPT ![p] = d]
    BY <1>7, ProposeWrites
  <2> HIDE DEF p
  <2>2. file' \in [Paths -> {Absent} \cup Document]  BY <2>1
  <2>3. ASSUME NEW q \in Paths, (Exists(q))' PROVE DistinctKeys(file'[q].entries)
    BY <2>1, <2>3 DEF Exists
  <2>. QED  BY <1>7, <2>2, <2>3 DEF Propose, serverVars
<1>8. CASE Reload
  <2>1. file[settings.path].entries \in Seq(Entry)
    BY <1>8 DEF Reload, Exists, Document
  <2>2. live' \in [Names -> Rule \cup {NoRule}]
    BY <1>8, <2>1, RulesType DEF Reload, RulesOf
  <2>. QED  BY <1>8, <2>2 DEF Reload, Exists
<1>9. CASE Stop  BY <1>9 DEF Stop, Exists
<1>10. CASE UNCHANGED vars  BY <1>10 DEF vars, serverVars, Exists
<1>. QED
  BY <1>1, <1>2, <1>3, <1>4, <1>5, <1>6, <1>7, <1>8, <1>9, <1>10 DEF Next

-----------------------------------------------------------------------------
(* What proposals write, what compiling writes, and the back end.          *)

\* Each rule a proposal has written is in a file that validates.
WrittenInv ==
    /\ written \in [Paths -> [Names -> Rule \cup {NoRule}]]
    /\ \A p \in Paths, n \in Names :
         written[p][n] # NoRule =>
           /\ Exists(p) /\ Validates(file[p])
           /\ Carries(file[p].entries, n, written[p][n])

\* The compiled file is one of what registry.yml compiles to.
CompiledInv ==
    compiled =>
      file.yml.entries \in Seq(Entry) /\ file.json.entries \in Compile(file.yml.entries)

DeploymentInv ==
    /\ DeploymentTypeOK
    /\ WrittenInv
    /\ CompiledInv
    /\ BackendSurvivesRestart

\* A compilation forgets what proposals wrote, but in a registry.yml it keeps.
LEMMA CompileIntoWritten ==
  ASSUME DeploymentTypeOK, WrittenInv, NEW yml \in Document, CompileInto(yml)
  PROVE  WrittenInv' /\ CompiledInv'
<1>1. PICK c \in Compile(yml.entries) : file' = [yml |-> yml, json |-> Json(c)]
  BY DEF CompileInto
<1>2. file'.yml = yml /\ file'.json = Json(c)  BY <1>1
<1>3. CompiledInv'
  BY <1>2 DEF CompiledInv, Json, Document
<1>4. CASE yml = file.yml
  <2>1. /\ written' = [yml |-> written.yml, json |-> NoneWritten]
        /\ file'.yml = file.yml
    BY <1>2, <1>4 DEF CompileInto
  <2>2. written' \in [Paths -> [Names -> Rule \cup {NoRule}]]
    BY <2>1 DEF WrittenInv, Paths, NoneWritten
  <2>3. ASSUME NEW p \in Paths, NEW n \in Names, written'[p][n] # NoRule
        PROVE  /\ (Exists(p))' /\ Validates(file'[p])
               /\ Carries(file'[p].entries, n, written'[p][n])
    <3>1. p = "yml"  BY <2>1, <2>3 DEF Paths, NoneWritten
    <3>. QED  BY <2>1, <2>3, <3>1 DEF WrittenInv, Exists
  <2>. QED  BY <1>3, <2>2, <2>3 DEF WrittenInv
<1>5. CASE yml # file.yml
  <2>1. written' = [yml |-> NoneWritten, json |-> NoneWritten]
    BY <1>5 DEF CompileInto
  <2>. QED  BY <1>3, <2>1 DEF WrittenInv, Paths, NoneWritten
<1>. QED  BY <1>4, <1>5

LEMMA NextWritten ==
  DeploymentTypeOK /\ WrittenInv /\ CompiledInv /\ [Next]_vars
    => WrittenInv' /\ CompiledInv'
<1> SUFFICES ASSUME DeploymentTypeOK, WrittenInv, CompiledInv, [Next]_vars
             PROVE  WrittenInv' /\ CompiledInv'
  OBVIOUS
<1>0. ASSUME UNCHANGED <<file, written, compiled>>
      PROVE  WrittenInv' /\ CompiledInv'
  BY <1>0 DEF WrittenInv, CompiledInv, Exists
<1>1. CASE EditRegistry
  <2>1. PICK d \in Edits : file' = [file EXCEPT !.yml = d]  BY <1>1 DEF EditRegistry
  <2>2. /\ written' = [written EXCEPT !.yml = NoneWritten] /\ ~compiled'
        /\ file'["json"] = file["json"]
    BY <1>1, <2>1 DEF EditRegistry, DeploymentTypeOK, Paths
  <2>3. written' \in [Paths -> [Names -> Rule \cup {NoRule}]]
    BY <2>2 DEF WrittenInv, Paths, NoneWritten
  <2>4. ASSUME NEW p \in Paths, NEW n \in Names, written'[p][n] # NoRule
        PROVE  /\ (Exists(p))' /\ Validates(file'[p])
               /\ Carries(file'[p].entries, n, written'[p][n])
    <3>1. p = "json" /\ written'[p] = written[p]
      BY <2>2, <2>4 DEF WrittenInv, Paths, NoneWritten
    <3>. QED  BY <2>2, <2>4, <3>1 DEF WrittenInv, Exists
  <2>. QED  BY <2>2, <2>3, <2>4 DEF WrittenInv, CompiledInv
<1>2. CASE RegistryCompile
  <2>1. file.yml \in Document  BY <1>2 DEF RegistryCompile, Exists, DeploymentTypeOK
  <2>. QED  BY <1>2, <2>1, CompileIntoWritten DEF RegistryCompile
<1>3. ASSUME NEW force \in BOOLEAN, InitBundle(force)
      PROVE  WrittenInv' /\ CompiledInv'
  <2> DEFINE yml == Materialized(force)
  <2>1. yml \in Document  BY MaterializedType
  <2>2. CASE CompileInto(yml)  BY <2>1, <2>2, CompileIntoWritten
  <2>3. CASE /\ ~force
             /\ file' = [file EXCEPT !.yml = yml]
             /\ compiled' = (compiled /\ yml = file.yml)
             /\ UNCHANGED written
    <3>1. CASE Exists("yml")
      <4>1. yml = file.yml  BY <2>3, <3>1 DEF Materialized
      <4> HIDE DEF yml
      <4>2. file' = file  BY <2>3, <4>1 DEF DeploymentTypeOK
      <4>3. compiled' => compiled  BY <2>3
      <4>. QED  BY <2>3, <4>2, <4>3 DEF WrittenInv, CompiledInv, Exists
    <3>2. CASE ~Exists("yml")
      <4>1. file.yml = Absent  BY <3>2 DEF Exists, Paths
      <4>2. yml # file.yml
        BY <2>1, <4>1, DeploymentAssumption DEF DeploymentAssumption
      <4>3. ~compiled'  BY <2>3, <4>2
      <4>4. ASSUME NEW p \in Paths, NEW n \in Names, written'[p][n] # NoRule
            PROVE  /\ (Exists(p))' /\ Validates(file'[p])
                   /\ Carries(file'[p].entries, n, written'[p][n])
        <5>1. p # "yml"  BY <2>3, <3>2, <4>4 DEF WrittenInv
        <5>2. file'[p] = file[p]  BY <2>3, <5>1 DEF DeploymentTypeOK
        <5>. QED  BY <2>3, <4>4, <5>2 DEF WrittenInv, Exists
      <4>. QED  BY <2>3, <4>3, <4>4 DEF WrittenInv, CompiledInv
    <3>. QED  BY <3>1, <3>2
  <2>. QED  BY <1>3, <2>2, <2>3 DEF InitBundle
<1>4. CASE Serve  BY <1>0, <1>4 DEF Serve
<1>5. CASE ComposeUp  BY <1>0, <1>5 DEF ComposeUp
<1>6. ASSUME NEW force \in BOOLEAN, Quickstart(force)
      PROVE  WrittenInv' /\ CompiledInv'
  <2>1. Materialized(force) \in Document  BY MaterializedType
  <2>. QED  BY <1>6, <2>1, CompileIntoWritten DEF Quickstart
<1>7. CASE Propose
  <2> DEFINE p == settings.path
             old == IF Exists(p) THEN file[p] ELSE Yaml(<<>>)
  <2>1. PICK n \in Names, r \in Proposals :
          /\ ValidEntries(Merge(old.entries, n, r))
          /\ file' = [file EXCEPT ![p] = Yaml(Merge(old.entries, n, r))]
          /\ written' = [written EXCEPT ![p][n] = r]
    BY <1>7 DEF Propose
  <2>2. old.entries \in Seq(Entry) /\ DistinctKeys(old.entries)  BY ProposeReads
  <2>3. r \in Rule  BY DeploymentAssumption DEF DeploymentAssumption
  <2>4. ASSUME NEW o \in Names, p \in Paths, written[p][o] # NoRule
        PROVE  Carries(old.entries, o, written[p][o])
    BY <2>4 DEF WrittenInv
  <2> HIDE DEF p, old
  <2> DEFINE new == Merge(old.entries, n, r)
  <2>5. /\ new \in Seq(Entry) /\ Carries(new, n, r)
        /\ \A o \in Names \ {n} : \A q : Carries(old.entries, o, q) => Carries(new, o, q)
    BY <2>2, <2>3, MergeFacts
  <2>6. ValidEntries(new) /\ file' = [file EXCEPT ![p] = Yaml(new)]  BY <2>1
  <2> HIDE DEF new
  <2>7. Yaml(new) \in Document  BY <2>5 DEF Yaml, Document
  <2>8. Validates(Yaml(new)) /\ Yaml(new).entries = new /\ Yaml(new) # Absent
    BY <2>6, <2>7, DeploymentAssumption
    DEF DeploymentAssumption, Yaml, Validates, Parses
  <2>9. written' \in [Paths -> [Names -> Rule \cup {NoRule}]]
    BY <2>1, <2>3 DEF WrittenInv
  <2>10. ASSUME NEW q \in Paths, NEW o \in Names, written'[q][o] # NoRule
         PROVE  /\ (Exists(q))' /\ Validates(file'[q])
                /\ Carries(file'[q].entries, o, written'[q][o])
    <3>1. CASE q = p
      <4>1. file'[q] = Yaml(new)  BY <2>6, <3>1 DEF DeploymentTypeOK
      <4>2. Carries(new, o, written'[q][o])
        <5>1. CASE o = n
          <6>1. written'[q][o] = r  BY <2>1, <3>1, <5>1 DEF WrittenInv
          <6>. QED  BY <2>5, <5>1, <6>1
        <5>2. CASE o # n
          <6>1. written'[q][o] = written[p][o]  BY <2>1, <3>1, <5>2 DEF WrittenInv
          <6>. QED  BY <2>4, <2>5, <2>10, <3>1, <5>2, <6>1
        <5>. QED  BY <5>1, <5>2
      <4>. QED  BY <2>8, <4>1, <4>2 DEF Exists
    <3>2. CASE q # p
      <4>1. file'[q] = file[q] /\ written'[q] = written[q]
        BY <2>1, <2>6, <3>2 DEF DeploymentTypeOK, WrittenInv
      <4>. QED  BY <2>10, <4>1 DEF WrittenInv, Exists
    <3>. QED  BY <3>1, <3>2
  <2>11. ~compiled'  BY <1>7 DEF Propose
  <2>. QED  BY <2>9, <2>10, <2>11 DEF WrittenInv, CompiledInv
<1>8. CASE Reload  BY <1>0, <1>8 DEF Reload
<1>9. CASE Stop  BY <1>0, <1>9 DEF Stop
<1>10. CASE UNCHANGED vars  BY <1>0, <1>10 DEF vars
<1>. QED
  BY <1>1, <1>2, <1>3, <1>4, <1>5, <1>6, <1>7, <1>8, <1>9, <1>10 DEF Next

\* No step removes a file, or moves to another machine.
FilesStay == site' = site /\ \A p \in Paths : Exists(p) => (Exists(p))'

LEMMA NextFilesStay == DeploymentTypeOK /\ [Next]_vars => FilesStay
<1> SUFFICES ASSUME DeploymentTypeOK, [Next]_vars PROVE FilesStay
  OBVIOUS
<1>0. ASSUME UNCHANGED <<site, file>> PROVE FilesStay  BY <1>0 DEF FilesStay, Exists
<1>1. ASSUME NEW yml \in Document, CompileInto(yml), site' = site PROVE FilesStay
  <2>1. PICK c \in Compile(yml.entries) : file' = [yml |-> yml, json |-> Json(c)]
    BY <1>1 DEF CompileInto
  <2>2. c \in Seq(Entry)  BY CompileFacts DEF Document
  <2>3. Json(c) \in Document  BY <2>2 DEF Json, Document
  <2>4. file'.yml # Absent /\ file'.json # Absent
    BY <2>1, <2>3, DeploymentAssumption DEF DeploymentAssumption
  <2>. QED  BY <1>1, <2>4 DEF FilesStay, Exists, Paths
<1>2. ASSUME NEW p \in Paths, NEW d \in Document, file' = [file EXCEPT ![p] = d],
             site' = site
      PROVE  FilesStay
  <2>1. d # Absent  BY DeploymentAssumption DEF DeploymentAssumption
  <2>. QED  BY <1>2, <2>1 DEF FilesStay, Exists, DeploymentTypeOK
<1>3. CASE EditRegistry
  <2>1. PICK d \in Edits : file' = [file EXCEPT !["yml"] = d]
    BY <1>3 DEF EditRegistry
  <2>2. d \in Document  BY DeploymentAssumption DEF DeploymentAssumption
  <2>. QED  BY <1>2, <1>3, <2>1, <2>2 DEF EditRegistry, Paths
<1>4. CASE RegistryCompile
  <2>1. file.yml \in Document  BY <1>4 DEF RegistryCompile, Exists, DeploymentTypeOK
  <2>. QED  BY <1>1, <1>4, <2>1 DEF RegistryCompile
<1>5. ASSUME NEW force \in BOOLEAN, InitBundle(force) PROVE FilesStay
  <2>1. Materialized(force) \in Document  BY MaterializedType
  <2>2. CompileInto(Materialized(force))
        \/ file' = [file EXCEPT !["yml"] = Materialized(force)]
    BY <1>5 DEF InitBundle
  <2>3. site' = site /\ "yml" \in Paths  BY <1>5 DEF InitBundle, Paths
  <2>. QED  BY <1>1, <1>2, <2>1, <2>2, <2>3
<1>6. CASE Serve  BY <1>0, <1>6 DEF Serve
<1>7. CASE ComposeUp  BY <1>0, <1>7 DEF ComposeUp
<1>8. ASSUME NEW force \in BOOLEAN, Quickstart(force) PROVE FilesStay
  <2>1. Materialized(force) \in Document  BY MaterializedType
  <2>. QED  BY <1>1, <1>8, <2>1 DEF Quickstart
<1>9. CASE Propose
  <2>1. PICK d \in Document : file' = [file EXCEPT ![settings.path] = d]
    BY <1>9, ProposeWrites
  <2>2. site' = site  BY <1>9 DEF Propose
  <2>3. CASE settings.path \in Paths  BY <1>2, <2>1, <2>2, <2>3
  <2>4. CASE settings.path \notin Paths
    <3>1. file' = file  BY <2>1, <2>4 DEF DeploymentTypeOK
    <3>. QED  BY <1>0, <2>2, <3>1
  <2>. QED  BY <2>3, <2>4
<1>10. CASE Reload  BY <1>0, <1>10 DEF Reload
<1>11. CASE Stop  BY <1>0, <1>11 DEF Stop
<1>12. CASE UNCHANGED vars  BY <1>0, <1>12 DEF vars
<1>. QED
  BY <1>3, <1>4, <1>5, <1>6, <1>7, <1>8, <1>9, <1>10, <1>11, <1>12 DEF Next

\* A file that comes into being only changes what git could answer.
LEMMA BackendStays ==
  ASSUME BackendSurvivesRestart, FilesStay, UNCHANGED <<server, settings, mounted, backend>>
  PROVE  BackendSurvivesRestart'
<1> SUFFICES ASSUME server # "down", ~mounted PROVE BackendSurvivesRestart'
  BY Zenon DEF BackendSurvivesRestart
<1>1. CASE /\ backend \in {"local_git", "github"}
           /\ site.tree
           /\ Exists(settings.path)
  <2>1. (Exists(settings.path))'  BY <1>1 DEF FilesStay, Exists
  <2>. QED  BY <1>1, <2>1 DEF BackendSurvivesRestart, FilesStay
<1>2. CASE Backend(settings, site) = backend /\ ProposerLoads(settings, site)
  <2>1. CASE GitAnswers(settings, site) <=> (GitAnswers(settings, site))'
    <3>1. (Backend(settings, site))' = Backend(settings, site)
      BY <2>1 DEF Backend, Autodetect, FilesStay
    <3>2. (ProposerLoads(settings, site))' <=> ProposerLoads(settings, site)
      BY <2>1, <3>1 DEF ProposerLoads, HasRepo, HasToken, FilesStay
    <3>. QED  BY <1>2, <3>1, <3>2 DEF BackendSurvivesRestart
  <2>2. CASE ~(GitAnswers(settings, site) <=> (GitAnswers(settings, site))')
    <3>1. /\ site.git /\ site.tree /\ ~Exists(settings.path)
          /\ (Exists(settings.path))' /\ site' = site
      BY <2>2 DEF GitAnswers, FilesStay, Exists
    <3>2. settings.path # "unset"  BY <3>1 DEF Exists, Paths
    <3>3. CASE backend \in {"local_git", "github"}
      BY <3>1, <3>3 DEF BackendSurvivesRestart
    <3>4. CASE backend \notin {"local_git", "github"}
      <4>1. settings.explicit = backend /\ settings.explicit # ""
        BY <1>2, <3>1, <3>2, <3>4 DEF Backend, Autodetect, GitAnswers
      <4>2. (Backend(settings, site))' = backend  BY <3>1, <4>1 DEF Backend
      <4>3. (ProposerLoads(settings, site))'
        BY <1>2, <3>1, <3>4, <4>2 DEF ProposerLoads
      <4>. QED  BY <4>2, <4>3 DEF BackendSurvivesRestart
    <3>. QED  BY <3>3, <3>4
  <2>. QED  BY <2>1, <2>2
<1>. QED  BY <1>1, <1>2 DEF BackendSurvivesRestart

LEMMA NextBackend ==
  DeploymentTypeOK /\ BackendSurvivesRestart /\ [Next]_vars => BackendSurvivesRestart'
<1> SUFFICES ASSUME DeploymentTypeOK, BackendSurvivesRestart, [Next]_vars
             PROVE  BackendSurvivesRestart'
  OBVIOUS
<1>1. FilesStay  BY NextFilesStay
<1>2. ASSUME UNCHANGED serverVars PROVE BackendSurvivesRestart'
  BY <1>1, <1>2, BackendStays DEF serverVars
<1>3. CASE EditRegistry  BY <1>2, <1>3 DEF EditRegistry
<1>4. CASE RegistryCompile  BY <1>2, <1>4 DEF RegistryCompile
<1>5. ASSUME NEW force \in BOOLEAN, InitBundle(force) PROVE BackendSurvivesRestart'
  BY <1>2, <1>5 DEF InitBundle
<1>6. CASE Serve
  <2>1. PICK s \in Settings : StartServer(s, site, FALSE)  BY <1>6 DEF Serve
  <2>2. /\ settings' = s /\ backend' = Backend(s, site) /\ ProposerLoads(s, site)
        /\ UNCHANGED <<site, file>>
    BY <1>6, <2>1 DEF Serve, StartServer, Boots
  <2>3. (Backend(settings, site))' = backend'
    BY <2>2 DEF Backend, Autodetect, GitAnswers, Exists
  <2>4. (ProposerLoads(settings, site))'
    BY <2>2 DEF ProposerLoads, HasRepo, HasToken, Backend, Autodetect, GitAnswers, Exists
  <2>. QED  BY <2>3, <2>4 DEF BackendSurvivesRestart
<1>7. CASE ComposeUp
  <2>1. mounted' = TRUE  BY <1>7 DEF ComposeUp, StartServer
  <2>. QED  BY <2>1 DEF BackendSurvivesRestart
<1>8. ASSUME NEW force \in BOOLEAN, Quickstart(force) PROVE BackendSurvivesRestart'
  BY <1>2, <1>8 DEF Quickstart
<1>9. CASE Propose  BY <1>2, <1>9 DEF Propose
<1>10. CASE Reload  BY <1>1, <1>10, BackendStays DEF Reload
<1>11. CASE Stop  BY <1>11 DEF Stop, BackendSurvivesRestart
<1>12. CASE UNCHANGED vars  BY <1>2, <1>12 DEF vars
<1>. QED
  BY <1>3, <1>4, <1>5, <1>6, <1>7, <1>8, <1>9, <1>10, <1>11, <1>12 DEF Next

-----------------------------------------------------------------------------
(* The theorems.                                                           *)

LEMMA InitDeploymentInv == Init => DeploymentInv
<1> SUFFICES ASSUME Init PROVE DeploymentInv
  OBVIOUS
<1>1. DeploymentTypeOK  BY InitTypes
<1>2. written = [p \in Paths |-> NoneWritten] /\ ~compiled /\ server = "down"
  BY DEF Init
<1>3. WrittenInv  BY <1>2 DEF WrittenInv, NoneWritten
<1>. QED  BY <1>1, <1>2, <1>3 DEF DeploymentInv, CompiledInv, BackendSurvivesRestart

\* The types, the origin of every rule in the files and the choice of the back
\* end are an inductive invariant.
THEOREM DeploymentInvariant == Spec => []DeploymentInv
<1>1. DeploymentInv /\ [Next]_vars => DeploymentInv'
  BY NextTypes, NextWritten, NextBackend DEF DeploymentInv
<1>. QED  BY InitDeploymentInv, <1>1, PTL DEF Spec

\* Whatever commands, edits, proposals and restarts, each variable of the
\* deployment keeps its type, and a document has each key once.
THEOREM DeploymentTypeCorrect == Spec => []DeploymentTypeOK
<1>1. DeploymentInv => DeploymentTypeOK  BY DEF DeploymentInv
<1>. QED  BY DeploymentInvariant, <1>1, PTL

\* A server restarted in its directory with its settings chooses the same back
\* end, but for one that was found through git before the registry file existed.
THEOREM BackendIsStable == Spec => []BackendSurvivesRestart
<1>1. DeploymentInv => BackendSurvivesRestart  BY DEF DeploymentInv
<1>. QED  BY DeploymentInvariant, <1>1, PTL

\* A rule a proposal has written is the rule of its name at the next reload,
\* which accepts the file, unless the file spells the name twice.
THEOREM WrittenProposalsAreInForce == Spec => []ProposalsAreInForce
<1>1. DeploymentInv => ProposalsAreInForce
  <2> SUFFICES ASSUME DeploymentInv, NEW p \in Paths, NEW n \in Names,
                      written[p][n] # NoRule
               PROVE  /\ Validates(file[p])
                      /\ \/ RulesOf(file[p])[n] = written[p][n]
                         \/ SpelledTwice(file[p].entries, n)
    BY DEF ProposalsAreInForce
  <2> DEFINE e == file[p].entries
  <2>1. /\ Exists(p) /\ Validates(file[p]) /\ Carries(e, n, written[p][n])
    BY DEF DeploymentInv, WrittenInv
  <2>2. e \in Seq(Entry)
    BY <2>1 DEF DeploymentInv, DeploymentTypeOK, Exists, Document
  <2>3. PICK k \in 1..Len(e) : e[k] = [key |-> n, rule |-> written[p][n]]
    BY <2>1 DEF Carries
  <2> HIDE DEF e
  <2>4. ASSUME ~SpelledTwice(e, n) PROVE Rules(e)[n] = written[p][n]
    <3>1. e[k].key = n /\ e[k].rule = written[p][n]  BY <2>3
    <3>2. NormalName[e[k].key] = n
      BY <3>1, NamesAssumption DEF NamesAssumption
    <3>3. \A i \in 1..Len(e) : NormalName[e[i].key] = n => i = k
      BY <2>4, <3>2 DEF SpelledTwice
    <3>. QED  BY <2>2, <3>1, <3>2, <3>3, OnlyEntryRules
  <2>. QED  BY <2>1, <2>4 DEF e, RulesOf
<1>. QED  BY DeploymentInvariant, <1>1, PTL

\* The compiled registry gives each name the rule of the YAML it was compiled
\* from, unless that spells the name twice.
THEOREM CompilingKeepsRules == Spec => []CompiledIsEquivalent
<1>1. DeploymentInv => CompiledIsEquivalent
  <2> SUFFICES ASSUME DeploymentInv, compiled, NEW n \in Names,
                      ~SpelledTwice(file.yml.entries, n)
               PROVE  RulesOf(file.json)[n] = RulesOf(file.yml)[n]
    BY DEF CompiledIsEquivalent
  <2>1. file.yml.entries \in Seq(Entry) /\ file.json.entries \in Compile(file.yml.entries)
    BY DEF DeploymentInv, CompiledInv
  <2>. QED  BY <2>1, CompileFacts DEF RulesOf
<1>. QED  BY DeploymentInvariant, <1>1, PTL

\* A server answers for a pinned version as PEP 440 would, but on the bounds
\* and where an epoch or a v is written.
THEOREM OnlyKnownErrors == Spec => []VersionErrorsAreKnown
<1>1. DeploymentInv => VersionErrorsAreKnown
  <2> SUFFICES ASSUME DeploymentInv, live # Absent, NEW n \in Names, NEW v \in Versions,
                      live[n] # NoRule, live[n].status = "version-constrained",
                      ~OnTheBoundary(v, live[n].min), ~OnTheBoundary(v, live[n].max),
                      ~Misread(v), ~Misread(live[n].min), ~Misread(live[n].max)
               PROVE  (Lookup(live, n, v) = "allow") = PepSatisfies(v, live[n])
    BY DEF VersionErrorsAreKnown
  <2>1. live[n] \in Rule  BY DEF DeploymentInv, DeploymentTypeOK
  <2>2. v \in Version /\ IsGiven(v)
    BY DeploymentAssumption DEF DeploymentAssumption
  <2>3. Lookup(live, n, v) = IF VersionSatisfies(v, live[n]) THEN "allow" ELSE "block"
    BY <2>2 DEF Lookup
  <2>4. VersionSatisfies(v, live[n]) <=> PepSatisfies(v, live[n])
    BY <2>1, <2>2, SatisfiesIsPep440
  <2>5. PepSatisfies(v, live[n]) \in BOOLEAN
    BY Zenon DEF PepSatisfies
  <2>. QED  BY <2>3, <2>4, <2>5
<1>. QED  BY DeploymentInvariant, <1>1, PTL

\* Whatever the environment and the files, check-config passes only what
\* starts, and names the back end the loader would choose, but for the stated
\* exceptions.
THEOREM ChecksAreRight == Spec => []CheckConfigIsRight
<1>1. DeploymentInv => CheckConfigIsRight
  <2> SUFFICES ASSUME DeploymentInv PROVE CheckedConfigBoots /\ PredictionAgrees
    BY DEF CheckConfigIsRight
  <2>1. CheckedConfigBoots
    <3> SUFFICES ASSUME NEW s \in Settings,
                        s.explicit \in {"", "log_only", "local_file"}, ~s.repo, s.auth = "off",
                        ChecksPass(s, site),
                        ~(Exists(s.path) /\ file[s.path].form = "yaml")
                 PROVE  Boots(s, site)
      BY DEF CheckedConfigBoots
    <3>1. s.path # "unset" /\ (Exists(s.path) => Validates(file[s.path]))
          /\ site.audit = "writable"
      BY DEF ChecksPass, CheckRegistryPath, CheckRegistryYaml, CheckAuditPath
    <3>2. Exists(s.path) => file[s.path].form = "json"
      BY <3>1 DEF Validates, Parses
    <3>3. Backend(s, site) \in Backends \ {"github"}
          /\ (Backend(s, site) = "local_git" => site.git)
      BY <3>1 DEF Backend, Autodetect, GitAnswers, Backends
    <3>4. ProposerLoads(s, site)  BY <3>1, <3>3 DEF ProposerLoads
    <3>. QED  BY <3>1, <3>2, <3>4 DEF Boots
  <2>2. PredictionAgrees
    <3> SUFFICES ASSUME NEW s \in Settings,
                        ~(s.path # "unset" /\ site.tree /\ (~site.git \/ Exists(s.path)))
                 PROVE  PredictAutodetect(s, site) = Autodetect(s, site)
      BY DEF PredictionAgrees
    <3>. QED
      BY DeploymentAssumption
      DEF DeploymentAssumption, DeploymentInv, DeploymentTypeOK, Setting, Site,
          PredictAutodetect, Autodetect, GitAnswers
  <2>. QED  BY <2>1, <2>2
<1>. QED  BY DeploymentInvariant, <1>1, PTL

=============================================================================
