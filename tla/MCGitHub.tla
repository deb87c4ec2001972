------------------------------ MODULE MCGitHub ------------------------------
(* GitHub with the values of its cfg, for TLC.                             *)
EXTENDS GitHub

=============================================================================
