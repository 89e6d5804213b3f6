----------------------------- MODULE MCContract -----------------------------
(* Instances of ContractExecution for TLC.                                 *)
EXTENDS ContractExecution, TLC

CONSTANTS v1, v2, v3, c1, c2, m1, i1, r1, r2

Symmetric == Permutations(Revisions) \cup Permutations(Ipcs) \cup Permutations(Requests)

=============================================================================
