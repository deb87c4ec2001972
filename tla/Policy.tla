------------------------------- MODULE Policy -------------------------------
(***************************************************************************)
(* The registry as data (registry.py, registry_schema.py): the documents   *)
(* the YAML and JSON files hold, what validation accepts, what compiling   *)
(* does to them, the rules a document puts in force, and how a version is  *)
(* compared with the bounds of a rule.                                     *)
(*                                                                         *)
(* A version is its epoch, its release numbers and the phase that follows  *)
(* them: 1.0.dev1, 1.0rc1, 1.0, 1.0.post1, 1!1.0, the phase in PEP 440's   *)
(* normal spelling; it may be written with a v in front.  Its local part,  *)
(* which is cut off first, is left out.  A document is the sequence of its *)
(* package entries, in file order, with distinct keys.                     *)
(***************************************************************************)
EXTENDS Naturals, Sequences

CONSTANTS
    Names,       \* normalized package names
    Spellings,   \* keys a document may use, the normalized names among them
    NormalName,  \* normalize_name: the name each spelling stands for
    KeyOrder,    \* the place of each spelling in json.dumps(sort_keys=True)
    NoRule       \* no rule for this name

ASSUME NamesAssumption ==
    /\ Names \subseteq Spellings
    /\ NormalName \in [Spellings -> Names]
    /\ \A n \in Names : NormalName[n] = n
    /\ KeyOrder \in [Spellings -> Nat]
    /\ \A s, t \in Spellings : KeyOrder[s] = KeyOrder[t] => s = t

-----------------------------------------------------------------------------
(* Versions.                                                               *)

Phases == {"dev", "rc", "final", "post"}
Version == [vee : BOOLEAN, epoch : Nat, release : Seq(Nat), phase : Phases]
NoVersion ==  \* None or ""
    [vee |-> FALSE, epoch |-> 0, release |-> <<>>, phase |-> "final"]
IsGiven(v) == v.release # <<>>

\* The leading digits of each part: of "1!2" the epoch, of "v2" none, hence 0.
Numbers(v) ==
    [i \in 1..Len(v.release) |->
       IF i = 1 /\ v.vee THEN 0
       ELSE IF i = 1 /\ v.epoch # 0 THEN v.epoch
       ELSE v.release[i]]

\* ".dev1" and ".post1" are parts of their own without leading digits; the
\* "rc1" of "0rc1" is dropped.
VersionTuple(v) ==
    IF v.phase \in {"dev", "post"} THEN Append(Numbers(v), 0) ELSE Numbers(v)

\* The first part of v does not begin with the first number of its release.
Misread(v) == v.vee \/ v.epoch # 0

\* Mutant: any smaller component will do, whatever comes before it.
SomeSmaller(s, t) == \E i \in 1..Len(t) : i > Len(s) \/ s[i] < t[i]

\* Python's < on tuples of integers.
TupleLess(s, t) ==
    \E i \in 1..Len(t) :
      /\ \A j \in 1..(i - 1) : j <= Len(s) /\ s[j] = t[j]
      /\ i > Len(s) \/ s[i] < t[i]

\* _version_satisfies: the lower bound is included, the upper one is not.
VersionSatisfies(v, rule) ==
    /\ IsGiven(rule.min) => ~TupleLess(VersionTuple(v), VersionTuple(rule.min))
    /\ IsGiven(rule.max) => TupleLess(VersionTuple(v), VersionTuple(rule.max))

(* The same question by PEP 440, which pip resolves versions by: epochs    *)
(* come first, releases are padded with zeros, phases are ordered dev < rc *)
(* < final < post, a v in front means nothing, and a final upper bound     *)
(* also excludes its own pre-releases.                                     *)
Component(s, i) == IF i <= Len(s) THEN s[i] ELSE 0
Padded(s, t) == \A i \in 1..(Len(s) + Len(t)) : Component(s, i) = Component(t, i)
FirstLess(s, t, k) ==
    /\ \A j \in 1..(k - 1) : Component(s, j) = Component(t, j)
    /\ Component(s, k) < Component(t, k)
SameRelease(v, w) == v.epoch = w.epoch /\ Padded(v.release, w.release)
ReleaseLess(v, w) ==
    \/ v.epoch < w.epoch
    \/ /\ v.epoch = w.epoch
       /\ \E k \in 1..(Len(v.release) + Len(w.release)) :
            FirstLess(v.release, w.release, k)
Rank(phase) == [dev |-> 0, rc |-> 1, final |-> 2, post |-> 3][phase]
PepLess(v, w) ==
    ReleaseLess(v, w) \/ (SameRelease(v, w) /\ Rank(v.phase) < Rank(w.phase))
IsPre(v) == v.phase \in {"dev", "rc"}
PepBelow(v, max) ==
    PepLess(v, max) /\ ~(SameRelease(v, max) /\ IsPre(v) /\ ~IsPre(max))
PepSatisfies(v, rule) ==
    /\ IsGiven(rule.min) => ~PepLess(v, rule.min)
    /\ IsGiven(rule.max) => PepBelow(v, rule.max)

\* v sits on bound b in a spelling the tuples do not see through.
OnTheBoundary(v, b) ==
    /\ IsGiven(b)
    /\ SameRelease(v, b)
    /\ \/ Len(v.release) # Len(b.release)
       \/ v.phase # "final"
       \/ b.phase # "final"

-----------------------------------------------------------------------------
(* Rules and documents.                                                    *)

Statuses == {"preferred", "approved", "deprecated", "version-constrained", "banned"}
Rule == [status : Statuses, replacement : BOOLEAN, min : Version, max : Version]
Entry == [key : Spellings, rule : Rule]

ValidRule(r) ==
    /\ r.status = "deprecated" => r.replacement
    /\ r.status = "version-constrained" => IsGiven(r.min) \/ IsGiven(r.max)
ValidEntries(entries) == \A i \in 1..Len(entries) : ValidRule(entries[i].rule)

HasKey(entries, k) == \E i \in 1..Len(entries) : entries[i].key = k
DistinctKeys(entries) ==
    \A i, j \in 1..Len(entries) : entries[i].key = entries[j].key => i = j

\* The one arrangement of entries in which the keys are sorted.
Sortings(entries) ==
    {c \in [1..Len(entries) -> {entries[i] : i \in 1..Len(entries)}] :
       /\ \A i, j \in 1..Len(entries) : i < j => KeyOrder[c[i].key] < KeyOrder[c[j].key]
       /\ \A i \in 1..Len(entries) : \E j \in 1..Len(entries) : c[j] = entries[i]}

\* Mutant: a compiler that forgets one of the optional fields.
CompileForgetsMax(entries) ==
    {[i \in DOMAIN c |-> [c[i] EXCEPT !.rule.max = NoVersion]] : c \in Sortings(entries)}

\* validate_registry, then json.dumps(..., sort_keys=True): what is written.
Compile(entries) == Sortings(entries)

\* Registry.from_dict: of two spellings of a name the later one wins.
Rules(entries) ==
    [n \in Names |->
       LET of == {i \in 1..Len(entries) : NormalName[entries[i].key] = n}
       IN  IF of = {} THEN NoRule
           ELSE entries[CHOOSE i \in of : \A j \in of : j <= i].rule]

SpelledTwice(entries, n) ==
    \E i, j \in 1..Len(entries) :
      i # j /\ NormalName[entries[i].key] = n /\ NormalName[entries[j].key] = n

\* Mutant: the proposal starts from an empty document.
MergeAlone(entries, n, rule) == <<[key |-> n, rule |-> rule]>>

\* packages[normalize_name(name)] = rule: in place, or at the end.
Merge(entries, n, rule) ==
    IF HasKey(entries, n)
    THEN [i \in 1..Len(entries) |->
            IF entries[i].key = n THEN [key |-> n, rule |-> rule] ELSE entries[i]]
    ELSE Append(entries, [key |-> n, rule |-> rule])

\* Registry.lookup: without a version, a version-constrained rule allows.
Lookup(rules, n, v) ==
    LET r == rules[n]
    IN  CASE r = NoRule -> "unknown"
          [] r # NoRule /\ r.status = "preferred" -> "allow"
          [] r # NoRule /\ r.status = "approved" -> "require_propose"
          [] r # NoRule /\ r.status \in {"deprecated", "banned"} -> "block"
          [] r # NoRule /\ r.status = "version-constrained" ->
               IF IsGiven(v) => VersionSatisfies(v, r) THEN "allow" ELSE "block"

=============================================================================
