---------------------------- MODULE MCPolicySync ----------------------------
(* Small instances of PolicySync for TLC. *)
EXTENDS PolicySync, TLC

\* The ConfigMap's policies: one of them blocks.
MCBootstrap == [p \in Policies |-> IF p = CHOOSE q \in Policies : TRUE THEN "block" ELSE "absent"]

\* Handlers, and the replicas of OPA, are interchangeable.
Symmetry == Permutations(Syncs) \cup Permutations(Opas)

=============================================================================
