-------------------------- MODULE MCRegistryReload --------------------------
(* Small instances of RegistryReload for TLC.                              *)
EXTENDS RegistryReload, TLC

CONSTANTS p1, p2

ByOperator(keys, kind) ==
    [keys |-> keys, kind |-> kind, review |-> kind = "lax", by |-> "operator"]

\* One, both or none of the packages in a sound file, and the two kinds of
\* unsound file.
SafetyEdits ==
    {ByOperator({p1}, "json"), ByOperator({p1, p2}, "yaml"),
     ByOperator({p2}, "lax"), ByOperator({}, "broken")}

LivenessEdits ==
    {ByOperator({p1}, "json"), ByOperator({}, "json"), ByOperator({}, "broken")}

=============================================================================
