--------------------------- MODULE MCPolicyStore ---------------------------
(* Instances of PolicyStore for TLC. *)
EXTENDS PolicyStore, TLC

Symmetry == Permutations(Calls) \cup Permutations(Publishers) \cup Permutations(Rules)
=============================================================================
