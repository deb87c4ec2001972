---------------------------- MODULE MCCveScanner ----------------------------
(* Small instances of CveScanner for TLC.                                  *)
EXTENDS CveScanner

Relicensed == [v \in Versions |-> "MIT"]
PerhapsReleased == {0, 1}

Base == [rule |-> "preferred", min |-> 0, max |-> 0, auto |-> {"MIT"}, ban |-> {},
         unknown |-> "pending_approval", threshold |-> 2]

\* The package becomes known, and is forgotten again.
PerhapsKnown == {Base, [Base EXCEPT !.rule = "unknown", !.threshold = 1]}

\* The first release has a critical vulnerability, or one below the threshold.
FirstRelease ==
    {[versions |-> {1}, score |-> 2],
     [versions |-> {1}, score |-> 1]}

=============================================================================
