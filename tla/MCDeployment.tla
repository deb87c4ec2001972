---------------------------- MODULE MCDeployment ----------------------------
(***************************************************************************)
(* A small deployment: two packages, one of them in two spellings, the     *)
(* documents and rules in which the two loaders and the two orders differ, *)
(* and versions on both sides of every bound.                              *)
(***************************************************************************)
EXTENDS Deployment

MCNormalName == [s \in Spellings |-> IF s = "Flask" THEN "flask" ELSE s]
MCKeyOrder == [s \in Spellings |->  \* upper case first
                 CASE s = "Flask" -> 1 [] s = "flask" -> 2 [] s = "numpy" -> 3]

V(release, phase) ==
    [vee |-> FALSE, epoch |-> 0, release |-> release, phase |-> phase]
MCVersions ==
    {V(<<1, 9>>, "final"), V(<<2>>, "final"), V(<<2, 0>>, "final"),
     V(<<2, 0>>, "rc"), V(<<2, 0>>, "post"), V(<<2, 0, 1>>, "final"),
     V(<<2, 10>>, "dev"), V(<<3, 0>>, "final"), V(<<3, 0>>, "dev"), V(<<10>>, "final"),
     [V(<<1, 0>>, "final") EXCEPT !.epoch = 1],
     [V(<<2, 5>>, "final") EXCEPT !.vee = TRUE]}

Plain(status) == [status |-> status, replacement |-> FALSE, min |-> NoVersion, max |-> NoVersion]
Bounded == [Plain("version-constrained") EXCEPT !.min = V(<<2, 0>>, "final"), !.max = V(<<3>>, "final")]
AtLeastTen == [Plain("version-constrained") EXCEPT !.min = V(<<2, 10>>, "final")]
Unreplaced == Plain("deprecated")
E(k, r) == [key |-> k, rule |-> r]

MCExample == <<E("flask", Plain("preferred"))>>
MCEdits ==
    {Yaml(<<E("Flask", Plain("banned")), E("flask", Plain("preferred"))>>),
     Yaml(<<E("flask", Bounded), E("Flask", Plain("banned"))>>),
     Yaml(<<E("numpy", Bounded), E("flask", Plain("approved"))>>),
     Yaml(<<E("numpy", Unreplaced)>>),
     Garbled}
MCLax == {Json(<<E("numpy", Unreplaced)>>), Json(<<E("Flask", AtLeastTen)>>)}
MCProposals == {AtLeastTen, Plain("banned"), Unreplaced}

Local(path, explicit) ==
    [path |-> path, explicit |-> explicit, repo |-> FALSE, token |-> "none", auth |-> "off"]
MCSettings ==
    {Local(p, e) : p \in {"unset", "yml", "json"}, e \in {"", "local_file", "local_git"}}
    \cup {Local("json", "typo"), Local("json", "log_only"),
          [Local("json", "") EXCEPT !.auth = "raises"],
          [Local("yml", "github") EXCEPT !.token = "environment"],
          [Local("json", "") EXCEPT !.repo = TRUE, !.token = "setting", !.auth = "loads"],
          [Local("json", "") EXCEPT !.repo = TRUE, !.token = "environment"]}

Laptop == [git |-> TRUE, tree |-> FALSE, origin |-> FALSE, writable |-> TRUE, audit |-> "writable"]
MCSites ==
    {Laptop,
     [Laptop EXCEPT !.tree = TRUE, !.origin = TRUE],
     [Laptop EXCEPT !.tree = TRUE, !.git = FALSE],
     [Laptop EXCEPT !.writable = FALSE, !.audit = "no_parent"],
     [Laptop EXCEPT !.audit = "read_only"]}
=============================================================================
