----------------------------- MODULE MCEvaluate -----------------------------
(* Small instances of Evaluate for TLC.                                    *)
EXTENDS Evaluate, TLC

\* The package is MIT and becomes GPL-3.0 with its second release.
Relicensed == [v \in Versions |-> IF v = 1 THEN "MIT" ELSE "GPL-3.0"]

AnyRelease == 0..MaxVersion

Base == [rule |-> "unknown", min |-> 0, max |-> 0, auto |-> {"MIT"}, ban |-> {},
         unknown |-> "pending_approval", threshold |-> 2]

\* Every way a lookup can end, the license policies, and three thresholds.
ManyRegistries ==
    {[Base EXCEPT !.rule = r] : r \in {"unknown", "preferred", "banned"}}
    \cup {[Base EXCEPT !.unknown = "warn", !.ban = {"GPL-3.0"}],
          [Base EXCEPT !.unknown = "allow", !.auto = {"GPL-3.0"}, !.threshold = 3],
          [Base EXCEPT !.rule = "version-constrained", !.min = 2, !.threshold = 1]}

\* No score, a score below or at a threshold, and one at or above every one.
Scored ==
    {[versions |-> Versions, score |-> 0],
     [versions |-> {1}, score |-> 1],
     [versions |-> Versions, score |-> 2]}

=============================================================================
