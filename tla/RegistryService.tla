--------------------------- MODULE RegistryService ---------------------------
(***************************************************************************)
(* What the registry promises the evaluations that read it, with the files *)
(* reads, polls and calls of the implementation hidden: registries are     *)
(* published one after another, and as long as the server is up the one in *)
(* memory only moves forward, to a published content the validator         *)
(* accepts (reloader.py: "the next call sees the new one").  A start takes *)
(* the last published content, a stop forgets it.                          *)
(*                                                                         *)
(* RacySpec is what is left of the promise when reloads overlap: the one   *)
(* in memory is still changed for a published content the validator        *)
(* accepts, but perhaps for an older one.                                  *)
(***************************************************************************)
EXTENDS Naturals, Sequences

CONSTANTS
    Contents,   \* everything that can be published
    Initial,    \* what the file may hold before the server first starts
    Bootable,   \* contents a start takes
    Accepted    \* contents a running server takes

VARIABLES
    published,  \* the contents, oldest first
    up,         \* the server is up
    current     \* the index of the registry in memory; 0 is none

serviceVars == <<published, up, current>>

Init ==
    /\ published \in {<<>>} \cup {<<c>> : c \in Initial}
    /\ up = FALSE
    /\ current = 0

Publish ==
    /\ \E c \in Contents : published' = Append(published, c)
    /\ UNCHANGED <<up, current>>

Boot ==
    /\ ~up
    /\ Len(published) > 0 => published[Len(published)] \in Bootable
    /\ up' = TRUE
    /\ current' = Len(published)
    /\ UNCHANGED published

Advance ==
    /\ up
    /\ \E v \in (current + 1)..Len(published) :
         /\ published[v] \in Accepted
         /\ current' = v
    /\ UNCHANGED <<published, up>>

\* The swap of a reload that has read the file before another one did.
Swap ==
    /\ up
    /\ \E v \in 1..Len(published) :
         /\ published[v] \in Accepted
         /\ current' = v
    /\ UNCHANGED <<published, up>>

Stop ==
    /\ up
    /\ up' = FALSE
    /\ current' = 0
    /\ UNCHANGED published

Next == Publish \/ Boot \/ Advance \/ Stop

Spec == Init /\ [][Next]_serviceVars

RacyNext == Publish \/ Boot \/ Swap \/ Stop

RacySpec == Init /\ [][RacyNext]_serviceVars

=============================================================================
