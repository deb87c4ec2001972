--------------------------- MODULE MCApprovalFlow ---------------------------
(* Small instances of ApprovalFlow for TLC.                                *)
EXTENDS ApprovalFlow, TLC

CONSTANTS p1, p2

\* What `compile-registry` writes: the policy is stated.
Compiled(keys) == [keys |-> keys, kind |-> "json", review |-> FALSE, by |-> "operator"]

\* Sound files with and without a stated policy, one with a policy that startup
\* takes and validation refuses ("pending_approval"), and a typo.
SafetyEdits ==
    {[Compiled({}) EXCEPT !.review = TRUE], Compiled({p1}),
     [Compiled({}) EXCEPT !.review = TRUE, !.kind = "lax"],
     [Compiled({}) EXCEPT !.kind = "broken"]}

LivenessEdits == {[Compiled({}) EXCEPT !.review = TRUE], Compiled({p1})}

=============================================================================
