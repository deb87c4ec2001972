----------------------------- MODULE MCLocalGit -----------------------------
(* Small instances of LocalGit for TLC.                                    *)
EXTENDS LocalGit, TLC

Symmetric == Permutations(Calls) \cup Permutations(Packages)

=============================================================================
