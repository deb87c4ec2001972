---------------------------- MODULE MCClientGates ----------------------------
(* Small instances of ClientGates for TLC.                                 *)
EXTENDS ClientGates

Alphabet == [n \in Names |-> IF n = "a" THEN 1 ELSE 2]

Dep(n, v) == [name |-> n, version |-> v]

\* One dependency, and another one, alone or beside it.
Additions == {<<>>, <<Dep("a", 1)>>, <<Dep("b", 0)>>, <<Dep("a", 1), Dep("b", 0)>>}

=============================================================================
