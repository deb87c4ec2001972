---------------------------- MODULE MCInstallers ----------------------------
(* A small instance of Installers for TLC: two events, which are alike.    *)
EXTENDS Installers, TLC

CONSTANTS SessionStart, PreToolUse
MCEvents == {SessionStart, PreToolUse}
AnyEvent == Permutations(MCEvents)
=============================================================================
